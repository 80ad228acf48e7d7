---------------------------- MODULE MCCashLedger ----------------------------
(***************************************************************************)
(* Values of CashLedger's constants for TLC that a cfg cannot write down.  *)
(***************************************************************************)
EXTENDS CashLedger

WestOfUTC == -1
LossOrGain == {-1, 1}

=============================================================================
