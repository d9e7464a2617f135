--------------------------- MODULE MCItemWrites ---------------------------
(* Small instances of ItemWrites. *)
EXTENDS ItemWrites, TLC
===========================================================================
