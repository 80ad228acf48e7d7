---------------------------- MODULE MCSummarizer ----------------------------
(***************************************************************************)
(* Values of Summarizer's constants for TLC.                               *)
(***************************************************************************)
EXTENDS Summarizer

CONSTANTS w1

=============================================================================
