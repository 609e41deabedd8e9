----------------------------- MODULE MCRMSCache3 -----------------------------
(* Instances of RMSCache3 for TLC. *)
EXTENDS RMSCache3

=============================================================================
