---------------------------- MODULE PositionBook ----------------------------
(***************************************************************************)
(* What the desk promises about positions, whatever tables, threads and    *)
(* transactions it uses: a position is opened, may be put up for exit and  *)
(* taken back, and is settled once.  Settling books its P&L in the same    *)
(* step, so the P&L of the day is the sum of what settled positions        *)
(* realized, and a settled position never changes again.                   *)
(***************************************************************************)
EXTENDS Integers, Sequences

CONSTANT Gains   \* what a settled position can have realized

VARIABLES
  book,    \* per position its stage and what it realized
  pnl      \* the P&L of the day

bookVars == <<book, pnl>>

BookInit == book = << >> /\ pnl = 0

OpenPosition ==
  /\ book' = Append(book, [stage |-> "open", realized |-> 0])
  /\ pnl' = pnl

AskExit(p) ==
  /\ book[p].stage = "open"
  /\ book' = [book EXCEPT ![p].stage = "closing"]
  /\ pnl' = pnl

TakeBack(p) ==
  /\ book[p].stage = "closing"
  /\ book' = [book EXCEPT ![p].stage = "open"]
  /\ pnl' = pnl

Settle(p, gain) ==
  /\ book[p].stage = "closing"
  /\ book' = [book EXCEPT ![p] = [stage |-> "closed", realized |-> gain]]
  /\ pnl' = pnl + gain

BookNext ==
  \/ OpenPosition
  \/ \E p \in DOMAIN book : \/ AskExit(p)
                           \/ TakeBack(p)
                           \/ \E gain \in Gains : Settle(p, gain)

BookSpec == BookInit /\ [][BookNext]_bookVars

=============================================================================
