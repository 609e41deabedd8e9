---------------------------- MODULE CompiledScripts ----------------------------
(* Programs given as trees, turned into text and compiled by the scene         *)
(* compiler (module CodeGenerator).                                            *)
EXTENDS ScriptSemantics

CONSTANTS Programs,  \* the scripts as trees
          MAX_REGISTERS, MAX_LABELS, MAX_REFS, MAX_INTS

Compiler == INSTANCE CodeGenerator WITH
  IntOf <- [ s \in {Numerals[i] : i \in DOMAIN Numerals} |->
               (CHOOSE i \in DOMAIN Numerals : Numerals[i] = s) - 1 ],
  Externs <- [ Math |-> [id |-> 1, methods |-> [floor |-> 2]] ]

Compiled ==
  LET bank(s) == Compiler!Compile(Programs[s].fields, Source(Programs[s]))
  IN [ s \in DOMAIN Programs |-> bank(s) ]

\* The fields of a script have the numbers from 2 on.
Numbers(prog, types) == {i + 1 : i \in {j \in DOMAIN prog.fields : prog.fields[j].type \in types}}
FieldName(prog, n) == prog.fields[n - 1].name
===============================================================================
