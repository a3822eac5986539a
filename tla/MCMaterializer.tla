--------------------------- MODULE MCMaterializer ---------------------------
(* Small instances of Materializer for TLC. *)
EXTENDS Materializer

CONSTANTS r1, r2, r3, none
=============================================================================
