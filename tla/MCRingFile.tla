----------------------------- MODULE MCRingFile -----------------------------
(* Instances of RingFile for TLC. *)
EXTENDS RingFile
=============================================================================
