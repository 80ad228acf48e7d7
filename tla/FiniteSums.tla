----------------------------- MODULE FiniteSums -----------------------------
(***************************************************************************)
(* Sums over finite sets: Total(f, S) is the sum of f[x] for x in S.       *)
(***************************************************************************)
EXTENDS Integers, Functions

Total(f, S) == FoldFunctionOnSet(+, 0, f, S)

=============================================================================
