--------------------------- MODULE MCMarketStream ---------------------------
(***************************************************************************)
(* Three futures that expire a day apart.                                  *)
(***************************************************************************)
EXTENDS MarketStream

CONSTANTS f1, f2, f3

ADayApart == (f1 :> 2) @@ (f2 :> 3) @@ (f3 :> 4)

=============================================================================
