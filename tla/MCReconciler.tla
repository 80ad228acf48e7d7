---------------------------- MODULE MCReconciler ----------------------------
(***************************************************************************)
(* A spread and a single leg of it.                                        *)
(***************************************************************************)
EXTENDS Reconciler, TLC

CONSTANTS p1, p2, l1, l2

SharedLeg == (p1 :> {l1, l2}) @@ (p2 :> {l2})

=============================================================================
