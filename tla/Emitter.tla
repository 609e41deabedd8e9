------------------------------- MODULE Emitter --------------------------------
(* The bytecode of one function as the scene compiler emits it: class ByteCode *)
(* of Code.cpp, IntTable of CodeTables.cpp and the variables of class Function *)
(* of Scripter.cpp.                                                            *)
(*                                                                             *)
(* The compiler's ByteCode object, together with the list of variables of the  *)
(* function that is being generated, is one record g:                          *)
(*   code    the bytes emitted so far                                          *)
(*   starts  the offsets of code at which an instruction begins (a history     *)
(*           component, read only by the assumptions on compiled scripts)      *)
(*   used, top, max   m_registery[..].m_isUsed, m_topRegister, m_maxRegister   *)
(*   labels  m_labels, with their offset and the jumps waiting for it          *)
(*   brk, cont        m_breakLabel, m_continueLabel                            *)
(*   ints    m_intTable, shared by the functions of a script                   *)
(*   vars, level      Function.m_vars (newest first) and m_blockLevel          *)
(*   err     the compiler has called exit                                      *)
(*   ret     what the last operation returned                                  *)
EXTENDS ByteCode, FiniteSetsExt, SequencesExt

CONSTANTS MAX_REGISTERS,  \* Code.h: 256
          MAX_LABELS,     \* Code.h: 256
          MAX_REFS,       \* Code.h: 30
          MAX_INTS        \* CodeTables.h: 128

-------------------------------------------------------------------------------
(* The ByteCode object of a new function *)

NewByteCode(ints) ==
  [ code |-> <<>>, starts |-> {}, used |-> {}, top |-> -1, max |-> 0,
    labels |-> <<>>, brk |-> 0, cont |-> 0, ints |-> ints,
    vars |-> <<>>, level |-> 0, err |-> FALSE, ret |-> -1 ]

Exit(g) == [g EXCEPT !.err = TRUE]

-------------------------------------------------------------------------------
(* Registers *)

\* Mutant: registers taken in bunch mode do not count in the maximum.
getRegisterUncounted(g, bunch) ==
  LET i == IF bunch THEN g.top + 1 ELSE Min((0 .. MAX_REGISTERS - 1) \ g.used)
  IN [g EXCEPT !.used = @ \cup {i}, !.top = Max({@, i}),
               !.max = IF bunch THEN @ ELSE Max({@, i}), !.ret = i]

\* The first free register or, in bunch mode, the one above all used ones, so
\* that the parameters of a call lie side by side.
getRegister(g, bunch) ==
  LET free == (0 .. MAX_REGISTERS - 1) \ g.used
      i == IF bunch THEN g.top + 1 ELSE IF free = {} THEN -1 ELSE Min(free)
  IN [g EXCEPT !.used = @ \cup {i}, !.top = Max({@, i}), !.max = Max({@, i}),
               !.ret = i]

\* Mutant: freeing the top register forgets the used ones below it.
freeRegisterAll(g, i) ==
  [g EXCEPT !.used = @ \ {i}, !.top = IF i = @ THEN -1 ELSE @]

\* Freeing the top register moves the top down to the next used one.
freeRegister(g, i) ==
  LET used == g.used \ {i}
  IN [g EXCEPT !.used = used,
               !.top = IF i = @ THEN Max({j \in used : j < i} \cup {-1}) ELSE @]

freeRegisters(g, first, n) ==
  FoldLeft(LAMBDA h, k : freeRegister(h, first + k - 1), g, [k \in 1 .. n |-> k])

\* The first of n registers that lie side by side (at least one is taken).
getRegisters(g, n) ==
  LET h == getRegister(g, TRUE)
      last == FoldLeft(LAMBDA f, k : getRegister(f, TRUE), h, [k \in 1 .. n - 1 |-> k])
  IN [last EXCEPT !.ret = h.ret]

-------------------------------------------------------------------------------
(* Variables of the function *)

addVar(g, name, reg) ==
  [g EXCEPT !.vars = <<[name |-> name, level |-> g.level, index |-> reg]>> \o @]

hasVar(vars, name) == \E i \in DOMAIN vars : vars[i].name = name

\* The newest variable of that name: it shadows the older ones.
findVar(vars, name) ==
  vars[Min({i \in DOMAIN vars : vars[i].name = name})]

\* The variables of a level and of the levels inside it go with their
\* registers, the oldest first.
removeVars(g, level) ==
  LET gone == SelectSeq(g.vars, LAMBDA v : v.level >= level)
  IN [ FoldLeft(LAMBDA h, v : freeRegister(h, v.index), g, Reverse(gone))
       EXCEPT !.vars = SelectSeq(g.vars, LAMBDA v : v.level < level) ]

-------------------------------------------------------------------------------
(* Instructions *)

addByte(g, b) == [g EXCEPT !.code = Append(@, b % 256)]

add(g, name, operands) ==
  [g EXCEPT !.starts = @ \cup {Len(g.code)},
            !.code = (@ \o <<Asm(name)>>) \o [i \in DOMAIN operands |-> operands[i] % 256]]

\* An integer operand is the index of its value in the table of the script.
findOrAdd(ints, v) ==
  IF \E i \in DOMAIN ints : ints[i] = v THEN ints ELSE Append(ints, v)

addInt(g, v) ==
  LET ints == findOrAdd(g.ints, v)
      index == CHOOSE i \in DOMAIN ints : ints[i] = v
  IN IF Len(ints) > MAX_INTS THEN Exit(g)
     ELSE addByte([g EXCEPT !.ints = ints], index - 1)

loadInt(g, reg, v) == addInt(add(g, "LOAD_REG_INT", <<reg>>), v)

-------------------------------------------------------------------------------
(* Labels: a jump to a label that has no offset yet is patched when it gets one *)

getLabel(g) ==
  IF Len(g.labels) >= MAX_LABELS THEN Exit(g)
  ELSE [g EXCEPT !.labels = Append(@, [offset |-> -1, refs |-> <<>>]),
                 !.ret = Len(g.labels) + 1]

Patched(code, refs, offset) ==
  [ i \in DOMAIN code |->
      IF \E k \in DOMAIN refs : i = refs[k] + 1 THEN offset \div 256
      ELSE IF \E k \in DOMAIN refs : i = refs[k] + 2 THEN offset % 256
      ELSE code[i] ]

setLabel(g, label) ==
  [g EXCEPT !.labels[label].offset = Len(g.code),
            !.code = Patched(@, g.labels[label].refs, Len(g.code))]

addLabelOffset(g, label) ==
  LET offset == g.labels[label].offset
  IN CASE offset >= 0 -> addByte(addByte(g, offset \div 256), offset)
       [] offset < 0 /\ Len(g.labels[label].refs) >= MAX_REFS -> Exit(g)
       [] OTHER ->
            addByte(addByte([g EXCEPT !.labels[label].refs = Append(@, Len(g.code))], 0), 0)

addJump(g, label) == addLabelOffset(add(g, "JUMP", <<>>), label)

addJumpZero(g, reg, label, negate) ==
  addLabelOffset(add(g, IF negate THEN "JUMP_NZERO" ELSE "JUMP_ZERO", <<reg>>), label)
===============================================================================
