--------------------------- MODULE MCDatabaseFile ---------------------------
(***************************************************************************)
(* The daemon processes.                                                   *)
(***************************************************************************)
EXTENDS DatabaseFile

CONSTANTS d1

=============================================================================
