-------------------------- MODULE MCScriptCallbacks --------------------------
(* Instances of ScriptCallbacks for TLC. *)
EXTENDS ScriptCallbacks

=============================================================================
