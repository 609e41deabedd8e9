----------------------------- MODULE MCFileQueue -----------------------------
(* Instances of FileQueue for TLC. *)
EXTENDS FileQueue

=============================================================================
