------------------------------ MODULE MCChunks ------------------------------
(* Instances of Chunks for TLC. *)
EXTENDS Chunks
=============================================================================
