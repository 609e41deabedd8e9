-------------------------------- MODULE Machine --------------------------------
(* The virtual machine of the scripts: Script.java (calls and routes),         *)
(* Machine.java (registers) and Function.java (one action per group of         *)
(* instructions), over fields of integers (SFInt32, MFInt32).                  *)
(*                                                                             *)
(* Any one of the scripts is loaded. The scene changes its fields through      *)
(* routes; a change of a field that has a function calls it, at once or, when  *)
(* the script is already running, after the call that runs.                    *)
(*                                                                             *)
(* Left out: floats, strings and nodes as values (the time stamp a handler     *)
(* gets as second parameter is a float), functions on multiple fields, the     *)
(* callbacks of the platform services (module ScriptCallbacks), and builds     *)
(* with api.jsonrpc, where a function can be passed as a value.                *)
EXTENDS ByteCode, Register

CONSTANTS Scripts,        \* the scripts, any one of which is loaded
          Banks,          \* of a script: its functions, integers and registers
          SFields,        \* of a script: the numbers of its single fields
          MFields,        \* of a script: the numbers of its multiple fields
          Routed,         \* of a script: the fields that routes change
          Notes,          \* of a script: notes of what holds at its instructions
          RouteValues,    \* the values they are given
          MaxChanges,     \* bound on the number of changes
          REGISTERS_BANK  \* Machine.java: 16

\* Routes change single fields of the script, to integers.
ASSUME RoutedFields ==
  /\ \A s \in Scripts : Routed[s] \subseteq SFields[s]
  /\ RouteValues \subseteq Int32

\* A field has one type, and the fields with a function are single.
ASSUME FieldKinds == \A s \in Scripts :
  /\ SFields[s] \cap MFields[s] = {}
  /\ DOMAIN Banks[s].functions \cap MFields[s] = {}

LENGTH_IDX == 255
OBJECT_IDX == 254

\* What an instruction can use: the Script node, a field by its number, or null.
ScriptNode == 0
Nothing == -1

FieldsOf(s) == SFields[s] \cup MFields[s]

VARIABLES
  script,     \* the script that is loaded
  fb,         \* m_fb: the bank of its functions
  fields,     \* m_field: the values of its fields
  regs,       \* m_register, a function on 0 .. length - 1
  threshold,  \* m_threshold
  frames,     \* the calls of Function.run on the Java stack, innermost last
  invoking,   \* m_invoking
  posted,     \* m_postponedCalls, oldest first: numbers of the fields
  todo,       \* the postponed calls being invoked that have not started yet
  inputs,     \* history of the changes: <<field, value>>
  fault       \* a function threw an exception

vars == <<script, fb, fields, regs, threshold, frames, invoking, posted, todo,
          inputs, fault>>
world == <<script, fb, inputs, fault>>

-------------------------------------------------------------------------------
(* The function that runs *)

hasFunction(index) == index \in DOMAIN fb.functions

Top == frames[Len(frames)]
CodeOf(f) == fb.functions[f.fn].code
Byte(k) == CodeOf(Top)[Top.pc + 1 + k]
Op == Opcode(Byte(0))

\* The register a of the running function.
Reg(a) == regs[Top.base + a]

\* The registers that an instruction at pc of a code reads and writes.
Reads(code, pc) ==
  LET op == Opcode(code[pc + 1])
      at(k) == code[pc + 1 + k]
  IN CASE op \in BinaryOps -> {at(1), at(2)}
       [] op \in {"MOVE_REG_REG", "FIELD_SET_INT_REG"} -> {at(2)}
       [] op \in {"BIT_INV", "RETURN", "FIELD_IDX_REG", "JUMP_ZERO", "JUMP_NZERO"} -> {at(1)}
       [] op = "EXT_CALL" -> at(3) .. at(3) + at(4) - 1
       [] OTHER -> {}

Writes(code, pc) ==
  LET op == Opcode(code[pc + 1])
      at(k) == code[pc + 1 + k]
  IN CASE op \in BinaryOps \cup {"BIT_INV", "LOAD_REG_INT", "MOVE_REG_REG"} -> {at(1)}
       [] op = "FIELD_GET_INT_REG" -> {at(2)}
       [] op = "EXT_CALL" -> {at(3)}
       [] OTHER -> {}

\* Whether an instruction stays in the array of registers its function captured.
InRegisters ==
  \A r \in Reads(CodeOf(Top), Top.pc) \cup Writes(CodeOf(Top), Top.pc) :
    Top.base + r < Top.len

\* A call of a function in Function.run. len is the length of the array it
\* captured; cur, idx, pcur and pidx are currentField, currentIndex, pushedField
\* and pushedIndex. known (history) has the registers that hold a value this
\* call was given or has computed.
Frame(fn, base, len, known) ==
  [ fn |-> fn, base |-> base, len |-> len, pc |-> 0, cur |-> ScriptNode,
    idx |-> -1, pcur |-> Nothing, pidx |-> -1, known |-> known ]

-------------------------------------------------------------------------------
(* Loading a script: Script.start calls initialize, function 0 *)

Init ==
  /\ script \in Scripts
  /\ fb = Banks[script]
  /\ fields = [ n \in FieldsOf(script) |->
                  IF n \in SFields[script] THEN 0 ELSE <<>> ]
  /\ threshold = fb.maxRegisters
  /\ regs = [ r \in 0 .. 2 * fb.maxRegisters - 1 |-> 0 ]
  /\ frames = IF hasFunction(0) THEN <<Frame(0, 0, 2 * fb.maxRegisters, {})>> ELSE <<>>
  /\ invoking = hasFunction(0)
  /\ posted = <<>> /\ todo = <<>> /\ inputs = <<>> /\ fault = FALSE

-------------------------------------------------------------------------------
(* Calls from the scene *)

\* The call of the function of a field by Machine.invoke: its value comes in
\* register 0.
Invoke(n, value) ==
  /\ regs' = [regs EXCEPT ![0] = value]
  /\ frames' = <<Frame(n, 0, Cardinality(DOMAIN regs), {0})>>

\* A route changes a field: Script.fieldChanged and invokeMethod. Its function
\* is postponed when another one runs, as after a function that threw.
FieldChanged(n, value) ==
  /\ ~invoking \/ fault
  /\ Len(inputs) < MaxChanges
  /\ fields' = [fields EXCEPT ![n] = value]
  /\ inputs' = Append(inputs, <<n, value>>)
  /\ \/ /\ hasFunction(n) /\ ~invoking
        /\ Invoke(n, value)
        /\ invoking' = TRUE
        /\ UNCHANGED posted
     \/ /\ hasFunction(n) /\ invoking
        /\ posted' = Append(posted, n)
        /\ UNCHANGED <<regs, frames, invoking>>
     \/ /\ ~hasFunction(n)
        /\ UNCHANGED <<regs, frames, invoking, posted>>
  /\ UNCHANGED <<script, fb, threshold, todo, fault>>

\* The calls postponed during a call are invoked right after it, the oldest
\* first, and before the ones that were waiting already.
invokePostponedCalls ==
  /\ frames = <<>> /\ invoking /\ ~fault
  /\ LET calls == posted \o todo
     IN /\ calls # <<>>
        /\ Invoke(Head(calls), fields[Head(calls)])
        /\ todo' = Tail(calls)
  /\ posted' = <<>>
  /\ UNCHANGED <<script, fb, fields, threshold, invoking, inputs, fault>>

\* Nothing is left to call: the script can be called again.
Invoked ==
  /\ frames = <<>> /\ invoking /\ ~fault /\ posted = <<>> /\ todo = <<>>
  /\ invoking' = FALSE
  /\ UNCHANGED <<script, fb, fields, regs, threshold, frames, posted, todo, inputs, fault>>

-------------------------------------------------------------------------------
(* Instructions *)

Running(op) == frames # <<>> /\ InRegisters /\ Op = op

\* The running function goes on at pc, having written some registers.
Goto(pc, written) ==
  frames' = [frames EXCEPT ![Len(frames)] =
               [Top EXCEPT !.pc = pc, !.known = @ \cup written]]

NextPc == Top.pc + 1 + Operands(Op)
Target(k) == 256 * Byte(k) + Byte(k + 1)

\* The next instruction, with register a set to a value.
Write(a, value) ==
  /\ regs' = [regs EXCEPT ![Top.base + a] = value]
  /\ Goto(NextPc, {a})
  /\ UNCHANGED <<world, fields, threshold, invoking, posted, todo>>

\* The next instruction, with other objects in use.
Use(cur, idx, pcur, pidx, written) ==
  frames' = [frames EXCEPT ![Len(frames)] =
               [Top EXCEPT !.pc = NextPc, !.cur = cur, !.idx = idx, !.pcur = pcur,
                         !.pidx = pidx, !.known = @ \cup written]]

Jump(pc) ==
  /\ Goto(pc, {})
  /\ UNCHANGED <<world, fields, regs, threshold, invoking, posted, todo>>

Nop == Running("NOP") /\ Jump(NextPc)
LoadInt == Running("LOAD_REG_INT") /\ Write(Byte(1), fb.ints[Byte(2) + 1])
Move == Running("MOVE_REG_REG") /\ Write(Byte(1), Reg(Byte(2)))
Invert == Running("BIT_INV") /\ Write(Byte(1), BitInv(Reg(Byte(1))))

Operate == \E op \in BinaryOps :
  Running(op) /\ Write(Byte(1), Binary(op, Reg(Byte(1)), Reg(Byte(2))))

JumpAlways == Running("JUMP") /\ Jump(Target(1))
\* Mutant: the operand of a jump that is not taken is not skipped.
JumpZeroStays ==
  Running("JUMP_ZERO") /\ Jump(IF Reg(Byte(1)) = 0 THEN Target(2) ELSE Top.pc + 2)

JumpZero == Running("JUMP_ZERO") /\ Jump(IF Reg(Byte(1)) = 0 THEN Target(2) ELSE NextPc)
JumpNZero == Running("JUMP_NZERO") /\ Jump(IF Reg(Byte(1)) # 0 THEN Target(2) ELSE NextPc)

\* The only external call the models make is Math.floor of an integer.
ExtCall == Running("EXT_CALL") /\ Write(Byte(3), Reg(Byte(3)))

\* Mutant: the array grows when the parameter, not its register, is at the threshold.
IntCallRelative ==
  /\ Running("INT_CALL")
  /\ LET base == Top.base + Byte(2)
         length == Cardinality(DOMAIN regs)
         grow == Byte(2) >= threshold
         nl == IF grow THEN length + REGISTERS_BANK ELSE length
         caller == [Top EXCEPT !.pc = NextPc]
     IN /\ regs' = [r \in 0 .. nl - 1 |-> IF r < length THEN regs[r] ELSE 0]
        /\ threshold' = IF grow THEN threshold + REGISTERS_BANK ELSE threshold
        /\ frames' = Append([frames EXCEPT ![Len(frames)] = caller],
                            Frame(Byte(1), base, nl, Top.known))
  /\ UNCHANGED <<world, fields, invoking, posted, todo>>

\* The registers from a first one on, as the called function numbers them.
Params(known, first) == {k - first : k \in {j \in known : j >= first}}

\* Machine.run: the registers of the called function start at the first
\* parameter, and the array grows when they start at the threshold or above it.
\* A function that does not exist is not called.
IntCall ==
  /\ Running("INT_CALL")
  /\ LET base == Top.base + Byte(2)
         length == Cardinality(DOMAIN regs)
         grow == base >= threshold
         nl == IF grow THEN length + REGISTERS_BANK ELSE length
         params == Params(Top.known, Byte(2))
         caller == [Top EXCEPT !.pc = NextPc, !.known = {k \in @ : k < Byte(2)}]
         called == hasFunction(Byte(1))
     IN /\ regs' = IF ~called THEN regs
                   ELSE [r \in 0 .. nl - 1 |-> IF r < length THEN regs[r] ELSE 0]
        /\ threshold' = IF called /\ grow THEN threshold + REGISTERS_BANK ELSE threshold
        /\ frames' = IF ~called THEN [frames EXCEPT ![Len(frames)].pc = NextPc]
                     ELSE Append([frames EXCEPT ![Len(frames)] = caller],
                                 Frame(Byte(1), base, nl, params))
  /\ UNCHANGED <<world, fields, invoking, posted, todo>>

\* The function that called, if any, goes on; it gets a result in the first
\* register of the call.
Pop(result) ==
  LET n == Len(frames) - 1
      got == IF result THEN {Top.base - frames[n].base} ELSE {}
  IN IF n = 0 THEN frames' = <<>>
     ELSE frames' = [ k \in 1 .. n |-> IF k < n THEN frames[k]
                                       ELSE [frames[n] EXCEPT !.known = @ \cup got] ]

ReturnValue ==
  /\ Running("RETURN")
  /\ regs' = [regs EXCEPT ![Top.base] = Reg(Byte(1))]
  /\ Pop(TRUE)
  /\ UNCHANGED <<world, fields, threshold, invoking, posted, todo>>

\* Without a return the first register keeps what it holds.
EndOfCode ==
  /\ Running("ENDOFCODE")
  /\ Pop(0 \in Top.known)
  /\ UNCHANGED <<world, fields, regs, threshold, invoking, posted, todo>>

\* There is one place to push to: a second push replaces the first.
FieldPush ==
  /\ Running("FIELD_PUSH")
  /\ Use(ScriptNode, Top.idx, Top.cur, Top.idx, {})
  /\ UNCHANGED <<world, fields, regs, threshold, invoking, posted, todo>>

FieldPop ==
  /\ Running("FIELD_POP")
  /\ Use(Top.pcur, Top.pidx, Top.pcur, Top.pidx, {})
  /\ UNCHANGED <<world, fields, regs, threshold, invoking, posted, todo>>

\* Script.use gives the field of that number, Field.use gives null.
Used(s, cur, n) ==
  IF cur # ScriptNode THEN Nothing ELSE IF n \in FieldsOf(s) THEN n ELSE ScriptNode

FieldUse ==
  /\ Running("FIELD_USE_INT")
  /\ Use(Used(script, Top.cur, Byte(1)), Top.idx, Top.pcur, Top.pidx, {})
  /\ UNCHANGED <<world, fields, regs, threshold, invoking, posted, todo>>

FieldIdx ==
  /\ Running("FIELD_IDX_REG")
  /\ Use(Top.cur, Reg(Byte(1)), Top.pcur, Top.pidx, {})
  /\ UNCHANGED <<world, fields, regs, threshold, invoking, posted, todo>>

\* MFInt32.set extends the array with zeros up to the index.
Extended(s, i, value) ==
  IF i < Len(s) THEN [s EXCEPT ![i + 1] = value]
  ELSE s \o [k \in 1 .. i - Len(s) |-> 0] \o << value >>

\* The length of an array with the largest integer as an index is no integer.
TooLong == Top.cur \in MFields[script] /\ Top.idx = TwoTo[INT_BITS - 1] - 1

\* A field that is written tells its observers, even when its value is the old
\* one; a negative index writes nothing.
FieldSet ==
  /\ Running("FIELD_SET_INT_REG") /\ ~TooLong
  /\ LET n == Top.cur
         value == Reg(Byte(2))
         single == n \in SFields[script]
         written == single \/ (n \in MFields[script] /\ Top.idx >= 0)
     IN /\ fields' = IF ~written THEN fields
                     ELSE [fields EXCEPT ![n] = IF single THEN value
                                                ELSE Extended(@, Top.idx, value)]
        /\ posted' = IF written /\ hasFunction(n) THEN Append(posted, n) ELSE posted
  /\ Use(ScriptNode, -1, Top.pcur, Top.pidx, {})
  /\ UNCHANGED <<world, regs, threshold, invoking, todo>>

\* The value of a field; 0 out of the bounds of an array. A reference to the
\* array as an object reads as the integer 0.
ValueOf(n, member, i) ==
  IF n \in SFields[script] THEN fields[n]
  ELSE CASE member = LENGTH_IDX -> Len(fields[n])
         [] member # LENGTH_IDX /\ member # OBJECT_IDX /\ i \in 0 .. Len(fields[n]) - 1 ->
              fields[n][i + 1]
         [] OTHER -> 0

FieldGet ==
  /\ Running("FIELD_GET_INT_REG")
  /\ LET isField == Top.cur \in DOMAIN fields
     IN /\ regs' = IF isField
                   THEN [regs EXCEPT ![Top.base + Byte(2)] = ValueOf(Top.cur, Byte(1), Top.idx)]
                   ELSE regs
        /\ Use(ScriptNode, -1, Top.pcur, Top.pidx, IF isField THEN {Byte(2)} ELSE {})
  /\ UNCHANGED <<world, fields, threshold, invoking, posted, todo>>

\* An exception ends all calls, and the script stays marked as running.
Throw ==
  /\ fault' = TRUE
  /\ frames' = <<>> /\ todo' = <<>>
  /\ UNCHANGED <<script, fb, fields, regs, threshold, invoking, posted, inputs>>

\* A register beyond the array the function captured.
OutOfBounds == frames # <<>> /\ ~InRegisters /\ Throw

\* MFInt32.set makes an array of a negative length.
ArrayTooLong == Running("FIELD_SET_INT_REG") /\ TooLong /\ Throw

-------------------------------------------------------------------------------

Calls == \E n \in Routed[script], value \in RouteValues : FieldChanged(n, value)

Instruction ==
  \/ Nop \/ LoadInt \/ Move \/ Invert \/ Operate
  \/ JumpAlways \/ JumpZero \/ JumpNZero
  \/ ExtCall \/ IntCall \/ ReturnValue \/ EndOfCode
  \/ FieldPush \/ FieldPop \/ FieldUse \/ FieldIdx \/ FieldSet \/ FieldGet
  \/ OutOfBounds \/ ArrayTooLong

Run == Instruction \/ invokePostponedCalls \/ Invoked

Next == Calls \/ Run

Spec == Init /\ [][Next]_vars

\* A call is a loop of the thread that made it: it goes on until it is done.
FairSpec == Spec /\ WF_vars(Run)

-------------------------------------------------------------------------------
(* What the compiler promises of a bank: execution that starts at the first    *)
(* byte of a function only meets instructions the compiler wrote, with their   *)
(* operands, and registers, integers and jumps that exist.                     *)

\* Where a function can go on from an instruction.
Successors(code, pc) ==
  LET op == Opcode(code[pc + 1])
      at(k) == code[pc + 1 + k]
  IN (IF op \in {"JUMP", "RETURN", "ENDOFCODE"} THEN {} ELSE {pc + 1 + Operands(op)})
     \cup (IF op = "JUMP" THEN {256 * at(1) + at(2)} ELSE {})
     \cup (IF op \in {"JUMP_ZERO", "JUMP_NZERO"} THEN {256 * at(2) + at(3)} ELSE {})

VerifiedAt(bank, f, pc) ==
  LET op == Opcode(f.code[pc + 1])
      at(k) == f.code[pc + 1 + k]
      next == pc + 1 + Operands(op)
  IN /\ op \in Instructions
     /\ next <= Len(f.code)
     /\ \A r \in Reads(f.code, pc) \cup Writes(f.code, pc) : r < bank.maxRegisters
     /\ op = "LOAD_REG_INT" => at(2) < Len(bank.ints)
     /\ op = "INT_CALL" => at(1) \in DOMAIN bank.functions /\ at(2) < bank.maxRegisters
     /\ Successors(f.code, pc) \subseteq f.starts

Verified(bank) ==
  /\ ~bank.error
  /\ bank.maxRegisters \in Nat \ {0}
  /\ bank.ints \in Seq(Int32)
  /\ \A i \in DOMAIN bank.functions :
       LET f == bank.functions[i]
       IN /\ f.code \in Seq(0 .. 255)
          /\ f.starts \subseteq 0 .. Len(f.code) - 1
          /\ 0 \in f.starts
          /\ \A pc \in f.starts : VerifiedAt(bank, f, pc)

\* What is noted of an instruction holds whenever it is reached: the registers
\* in known hold values of this call, and cur and pcur have what may be in use
\* and pushed (none, if it is never reached). This is what follows behind it,
\* if the functions in returns always leave a result.
After(s, code, pc, note, returns) ==
  LET op == Opcode(code[pc + 1])
      at(k) == code[pc + 1 + k]
  IN [ known |-> CASE op = "INT_CALL" ->
                        {k \in note.known : k < at(2)} \cup {k \in {at(2)} : at(1) \in returns}
                   [] op = "FIELD_GET_INT_REG" /\ ~(note.cur \subseteq FieldsOf(s)) -> note.known
                   [] OTHER -> note.known \cup Writes(code, pc),
       cur |-> CASE op \in {"FIELD_PUSH", "FIELD_SET_INT_REG", "FIELD_GET_INT_REG"} -> {ScriptNode}
                 [] op = "FIELD_POP" -> note.pcur
                 [] op = "FIELD_USE_INT" -> {Used(s, c, at(1)) : c \in note.cur}
                 [] OTHER -> note.cur,
       pcur |-> IF op = "FIELD_PUSH" THEN note.cur ELSE note.pcur ]

\* A note says no more than another one.
Weaker(a, b) == a.known \subseteq b.known /\ b.cur \subseteq a.cur /\ b.pcur \subseteq a.pcur

NotedAt(s, bank, notes, fn, pc) ==
  LET code == bank.functions[fn].code
      op == Opcode(code[pc + 1])
      at(k) == code[pc + 1 + k]
      note == notes.at[fn][pc]
  IN note.cur # {} =>
     /\ Reads(code, pc) \subseteq note.known
     /\ \A q \in Successors(code, pc) :
          Weaker(notes.at[fn][q], After(s, code, pc, note, notes.returns))
     /\ op = "INT_CALL" => notes.at[at(1)][0].known \subseteq Params(note.known, at(2))
     /\ op = "ENDOFCODE" /\ fn \in notes.returns => 0 \in note.known

\* The notes hold when a function starts, with a parameter if it is the one of a
\* field, and from one instruction to the next; and they say that every register
\* an instruction reads has a value of the call. That there are such notes is
\* what the compiler promises of its use of the registers.
Noted(s, bank, notes) ==
  \A fn \in DOMAIN bank.functions :
    LET entry == notes.at[fn][0]
    IN /\ fn = 0 => entry.known = {}
       /\ fn \in FieldsOf(s) => entry.known \subseteq {0}
       /\ ScriptNode \in entry.cur /\ Nothing \in entry.pcur
       /\ \A pc \in bank.functions[fn].starts : NotedAt(s, bank, notes, fn, pc)

-------------------------------------------------------------------------------
(* Properties *)

FrameType(f) ==
  /\ hasFunction(f.fn)
  /\ f.base \in Nat /\ f.len \in Nat
  /\ f.pc \in fb.functions[f.fn].starts
  /\ f.cur \in DOMAIN fields \cup {ScriptNode, Nothing} /\ f.idx \in Int32
  /\ f.pcur \in DOMAIN fields \cup {ScriptNode, Nothing} /\ f.pidx \in Int32
  /\ f.known \subseteq 0 .. 255

\* The types of the state. Values stay integers of the width of a register, and
\* every program counter is at an instruction the compiler wrote.
TypeOK ==
  /\ script \in Scripts
  /\ \A n \in SFields[script] : fields[n] \in Int32
  /\ \A n \in MFields[script] : \A i \in DOMAIN fields[n] : fields[n][i] \in Int32
  /\ \A r \in DOMAIN regs : regs[r] \in Int32
  /\ DOMAIN regs = 0 .. threshold + fb.maxRegisters - 1
  /\ \A k \in DOMAIN frames : FrameType(frames[k])
  /\ frames # <<>> => invoking
  /\ \A k \in DOMAIN posted : hasFunction(posted[k])
  /\ \A k \in DOMAIN todo : hasFunction(todo[k])
  /\ fault \in BOOLEAN

\* A bank that is loaded is as the player needs it: no jump, operand or register
\* of the bytecode the compiler generated leaves its function, and on every path
\* through its functions a register that is read has got a value before.
CodeIsSound ==
  (~invoking /\ inputs = <<>>) =>
    Verified(fb) /\ \E notes \in Notes[script] : Noted(script, fb, notes)

\* The growth of the registers by one bank is enough for the functions of a
\* script when they need no more than this many registers.
FitsBank == fb.maxRegisters <= REGISTERS_BANK + 1

\* However deep the calls are, every function has all its registers in the
\* array it captured, and no instruction throws because of a register, which
\* would leave the script marked as running.
FramesInRegisters ==
  FitsBank => /\ frames # <<>> => InRegisters
              /\ \A k \in DOMAIN frames :
                   frames[k].base + fb.maxRegisters <= frames[k].len

\* A function only reads registers that hold its parameters or what it has
\* computed itself: no value of another call, nor of an earlier use of the
\* register, shows up in it.
ReadsOwnWrites == frames # <<>> => Reads(CodeOf(Top), Top.pc) \subseteq Top.known

\* Every call comes to its end, with all the calls postponed meanwhile, and the
\* script can be called again, unless it made an array too long.
CallsReturn == (invoking /\ FitsBank) ~> (~invoking \/ fault)
===============================================================================
