--------------------------- MODULE MCRevisionLog ---------------------------
(* Small instances of RevisionLog for TLC. *)
EXTENDS RevisionLog

CONSTANTS o1, none
=============================================================================
