----------------------------- MODULE MCShootdown -----------------------------
(* Small machines for Shootdown; the .cfg files choose who calls what.       *)
EXTENDS Shootdown
==============================================================================
