-------------------------------- MODULE Scripts --------------------------------
(* The scripts of a scene from their text to their effect: the compiler of     *)
(* module CodeGenerator makes the banks that the machine of module Machine     *)
(* runs, and the interpreter of module ScriptSemantics says what the fields    *)
(* must be.                                                                    *)
EXTENDS CompiledScripts, Machine

\* What a program says of its fields after some changes: FieldsAfter of module
\* ScriptSemantics.
CONSTANT Meaning(_, _)

\* Between two calls, the fields of a script hold what its program says after
\* the changes so far, whatever the compiler made of it: operators with their
\* strengths, jumps, scopes, registers, arrays, and the order of the calls
\* that a call has postponed. (Scripts whose functions need more registers than
\* the player provides are left out.)
RunsAsWritten ==
  (~invoking /\ FitsBank) =>
    LET prog == Programs[script]
        changes == [ i \in DOMAIN inputs |-> << FieldName(prog, inputs[i][1]), inputs[i][2] >> ]
        expected == Meaning(prog, changes)
    IN \A n \in DOMAIN fields : fields[n] = expected[FieldName(prog, n)]
===============================================================================
