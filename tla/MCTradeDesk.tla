---------------------------- MODULE MCTradeDesk ----------------------------
(***************************************************************************)
(* Values of TradeDesk's constants for TLC that a cfg cannot write down.   *)
(***************************************************************************)
EXTENDS TradeDesk

CONSTANTS s1, s2, h1, h2

AllPaper == [s \in Strategies |-> "paper"]
AllLive == [s \in Strategies |-> "live"]
MixedTiers == [s \in Strategies |-> IF s = s1 THEN "paper" ELSE "draft"]

DebitOnly == {2}
DebitAndCredit == {-1, 2}
OneOrTwo == {1, 2}
Loss == {1}
Wide == {2}

=============================================================================
