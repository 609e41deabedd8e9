----------------------------- MODULE MachineProofs -----------------------------
(* No function of a compiled script ever uses a register beyond the array it   *)
(* captured, however deep the calls are (RegistersSuffice), none reads a       *)
(* register that does not hold a value of its own (RegistersAreOwn), none      *)
(* changes a register its callers use (CallersKeepRegisters), and all values   *)
(* stay integers of the width of a register (TypesKept): for every script      *)
(* whose bytecode is as the compiler promises (Verified, Noted), the first for *)
(* functions that need at most one register more than a bank of the player.    *)
(*                                                                             *)
(* The argument for the first: a function that runs starts below the           *)
(* threshold, and the array is always longer than the threshold by all the     *)
(* registers of a function. A call moves the start by less than those          *)
(* registers, so a growth by one bank, when the start has reached the          *)
(* threshold, brings the threshold above it again. That a function stays among *)
(* the instructions and registers the compiler gave it is what Verified says   *)
(* of each of its instructions. The others are argued where they are proved.   *)
EXTENDS Machine, RegisterProofs, FiniteSetTheorems, SequenceTheorems, TLAPS

FrameFields == {"fn", "base", "len", "pc", "cur", "idx", "pcur", "pidx", "known"}

\* A call that is at an instruction of its function and has its registers.
FrameOK(f, limit) ==
  /\ DOMAIN f = FrameFields
  /\ f.fn \in DOMAIN fb.functions
  /\ f.base \in Nat /\ f.base < limit
  /\ f.len \in Nat /\ f.base + fb.maxRegisters <= f.len
  /\ f.pc \in fb.functions[f.fn].starts

Elements(s) == {s[k] : k \in DOMAIN s}

FramesOK ==
  /\ frames \in Seq(Elements(frames))
  /\ \A k \in 1 .. Len(frames) : FrameOK(frames[k], threshold)

ArrayOK ==
  /\ threshold \in Nat /\ threshold >= fb.maxRegisters
  /\ DOMAIN regs = 0 .. threshold + fb.maxRegisters - 1

CallsOK ==
  /\ \E S : posted \in Seq(S)
  /\ \E S : todo \in Seq(S)
  /\ \A k \in 1 .. Len(posted) : hasFunction(posted[k])
  /\ \A k \in 1 .. Len(todo) : hasFunction(todo[k])

Sound == ArrayOK /\ FramesOK /\ CallsOK

\* What is assumed of the constants: the promise of the compiler for each
\* script, checked for the scripts of a run by CodeIsSound.
Assumed ==
  /\ REGISTERS_BANK \in Nat
  /\ \A s \in Scripts : Verified(Banks[s])

IInv ==
  /\ Verified(fb)
  /\ FitsBank => Sound

-------------------------------------------------------------------------------
(* Sequences *)

\* A function on 1 .. n is a sequence of its elements.
LEMMA FunctionIsSequence ==
  ASSUME NEW S, NEW n \in Nat, NEW s \in [1 .. n -> S]
  PROVE  s \in Seq(Elements(s)) /\ Len(s) = n
  BY DEF Elements

\* A sequence is a sequence of its elements.
LEMMA SequenceOfElements ==
  ASSUME NEW S, NEW s \in Seq(S)
  PROVE  s \in Seq(Elements(s))
  <1>1. s \in [1 .. Len(s) -> S] /\ Len(s) \in Nat
    OBVIOUS
  <1> QED
    BY <1>1, FunctionIsSequence

\* The calls with another one on top of them.
LEMMA AddTop ==
  ASSUME NEW S, NEW s \in Seq(S), NEW g
  PROVE  /\ Append(s, g) \in Seq(S \cup {g})
         /\ Len(Append(s, g)) = Len(s) + 1
         /\ Append(s, g)[Len(s) + 1] = g
         /\ \A k \in 1 .. Len(s) : Append(s, g)[k] = s[k]
  OBVIOUS

-------------------------------------------------------------------------------
(* The instruction at which the innermost call is *)

LEMMA OperandIsNumber ==
  ASSUME NEW code \in Seq(Nat), NEW pc \in Nat, NEW k \in Nat,
         pc + 1 + k <= Len(code)
  PROVE  code[pc + 1 + k] \in Nat
  <1>1. Len(code) \in Nat
    BY LenProperties
  <1>2. pc + 1 + k \in 1 .. Len(code)
    BY <1>1
  <1> QED
    BY <1>2, ElementOfSeq

\* The bytes of a function.
LEMMA CodeOfBytes ==
  ASSUME Verified(fb), NEW fn \in DOMAIN fb.functions
  PROVE  /\ fb.functions[fn].code \in Seq(0 .. 255)
         /\ fb.functions[fn].code \in Seq(Nat)
  <1>1. PICK code : code = fb.functions[fn].code /\ code \in Seq(0 .. 255)
    BY DEF Verified
  <1>2. 0 .. 255 \subseteq Nat
    OBVIOUS
  <1>3. code \in Seq(Nat)
    BY <1>1, <1>2, SeqMonotonic
  <1> QED
    BY <1>1, <1>3

\* Its operands name registers by numbers.
LEMMA RegistersAreNumbers ==
  ASSUME NEW code \in Seq(Nat), NEW pc \in Nat,
         Opcode(code[pc + 1]) \in Instructions,
         pc + 1 + Operands(Opcode(code[pc + 1])) <= Len(code)
  PROVE  Reads(code, pc) \subseteq Int /\ Writes(code, pc) \subseteq Int
  <1>1. PICK op \in Instructions : op = Opcode(code[pc + 1])
    OBVIOUS
  <1>2. ASSUME NEW k \in Nat, k <= Operands(op), Operands(op) \in Nat
        PROVE  code[pc + 1 + k] \in Int
    <2>1. Len(code) \in Nat
      BY LenProperties
    <2>2. pc + 1 + k <= Len(code)
      BY <1>1, <1>2, <2>1
    <2> QED
      BY <1>2, <2>2, OperandIsNumber
  <1>3. Operands(op) \in Nat
    BY DEF Operands, Instructions, BinaryOps
  <1>4. op \in {"BIT_INV", "RETURN", "FIELD_IDX_REG"} => Operands(op) = 1
    BY DEF Operands, BinaryOps
  <1>5. op \in BinaryOps \cup {"MOVE_REG_REG", "FIELD_SET_INT_REG", "FIELD_GET_INT_REG",
                               "LOAD_REG_INT"} => Operands(op) = 2
    BY DEF Operands, BinaryOps
  <1>6. op \in {"JUMP_ZERO", "JUMP_NZERO"} => Operands(op) = 3
    BY DEF Operands, BinaryOps
  <1>7. op = "EXT_CALL" => Operands(op) = 4
    BY DEF Operands, BinaryOps
  <1>8. Reads(code, pc) \subseteq Int
    BY SMTT(30), <1>1, <1>2, <1>3, <1>4, <1>5, <1>6, <1>7 DEF Reads
  <1>9. Writes(code, pc) \subseteq Int
    <2> DEFINE at(k) == code[pc + 1 + k]
    <2>1. CASE op = "BIT_INV"
      <3>1. at(1) \in Int
        BY <1>1, <1>2, <1>3, <1>4, <2>1
      <3> QED
        BY <1>1, <2>1, <3>1 DEF Writes, BinaryOps
    <2>2. CASE op \in BinaryOps \cup {"MOVE_REG_REG", "FIELD_GET_INT_REG", "LOAD_REG_INT"}
      <3>1. at(1) \in Int /\ at(2) \in Int
        BY <1>1, <1>2, <1>3, <1>5, <2>2
      <3> QED
        BY <1>1, <2>2, <3>1 DEF Writes, BinaryOps
    <2>3. CASE op = "EXT_CALL"
      <3>1. Operands(op) = 4 /\ 3 <= Operands(op) /\ 3 \in Nat
        BY <1>7, <2>3
      <3>2. at(3) \in Int
        BY <1>2, <1>3, <3>1
      <3> QED
        BY <1>1, <2>3, <3>2 DEF Writes, BinaryOps
    <2>4. CASE op \notin BinaryOps \cup {"BIT_INV", "MOVE_REG_REG", "FIELD_GET_INT_REG",
                                         "LOAD_REG_INT", "EXT_CALL"}
      BY <1>1, <2>4 DEF Writes
    <2> QED
      BY <2>1, <2>2, <2>3, <2>4
  <1> QED
    BY <1>8, <1>9

\* What Verified says of it, and that it stays in its registers.
LEMMA AtInstruction ==
  ASSUME Verified(fb), ArrayOK, FramesOK, frames # <<>>
  PROVE  /\ FrameOK(Top, threshold)
         /\ VerifiedAt(fb, fb.functions[Top.fn], Top.pc)
         /\ CodeOf(Top) \in Seq(Nat)
         /\ Top.pc \in Nat
         /\ InRegisters
  <1>1. Len(frames) \in 1 .. Len(frames)
    BY DEF FramesOK
  <1>2. FrameOK(Top, threshold)
    BY <1>1 DEF FramesOK, Top
  <1>3. /\ VerifiedAt(fb, fb.functions[Top.fn], Top.pc)
        /\ CodeOf(Top) \in Seq(Nat)
        /\ Top.pc \in 0 .. Len(CodeOf(Top)) - 1
    BY <1>2, CodeOfBytes DEF FrameOK, Verified, CodeOf
  <1>4. InRegisters
    <2> SUFFICES ASSUME NEW r \in Reads(CodeOf(Top), Top.pc) \cup Writes(CodeOf(Top), Top.pc)
                 PROVE  Top.base + r < Top.len
      BY DEF InRegisters
    <2>1. r < fb.maxRegisters
      BY <1>3 DEF VerifiedAt, CodeOf
    <2>2. r \in Int
      <3>1. Opcode(CodeOf(Top)[Top.pc + 1]) \in Instructions
        BY <1>3 DEF VerifiedAt, CodeOf
      <3>2. Top.pc + 1 + Operands(Opcode(CodeOf(Top)[Top.pc + 1])) <= Len(CodeOf(Top))
        BY <1>3 DEF VerifiedAt, CodeOf
      <3>3. PICK code, pc : code = CodeOf(Top) /\ pc = Top.pc
        OBVIOUS
      <3>4. code \in Seq(Nat) /\ pc \in Nat
        BY <1>3, <3>3
      <3>5. Reads(code, pc) \subseteq Int /\ Writes(code, pc) \subseteq Int
        BY <3>1, <3>2, <3>3, <3>4, RegistersAreNumbers
      <3> QED
        BY <3>3, <3>5
    <2>3. fb.maxRegisters \in Nat
      BY DEF Verified
    <2> QED
      BY <1>2, <2>1, <2>2, <2>3 DEF FrameOK
  <1> QED
    BY <1>2, <1>3, <1>4

\* The instruction behind it, for those that have one.
LEMMA NextInstruction ==
  ASSUME Verified(fb), ArrayOK, FramesOK, frames # <<>>,
         Op \notin {"JUMP", "RETURN", "ENDOFCODE"}
  PROVE  NextPc \in fb.functions[Top.fn].starts
  <1>1. VerifiedAt(fb, fb.functions[Top.fn], Top.pc) /\ Top.pc \in Nat
    BY AtInstruction
  <1>2. Top.pc + 1 + 0 = Top.pc + 1
    BY <1>1
  <1>3. Op = Opcode(fb.functions[Top.fn].code[Top.pc + 1])
    BY <1>2 DEF Op, Byte, CodeOf
  <1> QED
    BY <1>1, <1>3 DEF VerifiedAt, Successors, NextPc

\* The places a jump can go to.
LEMMA JumpTargets ==
  ASSUME Verified(fb), ArrayOK, FramesOK, frames # <<>>
  PROVE  /\ Op = "JUMP" => Target(1) \in fb.functions[Top.fn].starts
         /\ Op \in {"JUMP_ZERO", "JUMP_NZERO"} => Target(2) \in fb.functions[Top.fn].starts
  <1>1. VerifiedAt(fb, fb.functions[Top.fn], Top.pc) /\ Top.pc \in Nat
    BY AtInstruction
  <1>2. Top.pc + 1 + 0 = Top.pc + 1 /\ 1 + 1 = 2 /\ 2 + 1 = 3
    BY <1>1
  <1>3. Op = Opcode(fb.functions[Top.fn].code[Top.pc + 1])
    BY <1>2 DEF Op, Byte, CodeOf
  <1>4. /\ Target(1) = 256 * Byte(1) + Byte(2)
        /\ Target(2) = 256 * Byte(2) + Byte(3)
    BY DEF Target
  <1> QED
    BY <1>1, <1>3, <1>4 DEF VerifiedAt, Successors, Byte, CodeOf

\* A call goes to a function that exists, with its parameters in the registers
\* of the caller.
LEMMA CallOperands ==
  ASSUME Verified(fb), ArrayOK, FramesOK, frames # <<>>, Op = "INT_CALL"
  PROVE  /\ Byte(1) \in DOMAIN fb.functions
         /\ Byte(2) \in Nat /\ Byte(2) < fb.maxRegisters
  <1>1. /\ VerifiedAt(fb, fb.functions[Top.fn], Top.pc)
        /\ CodeOf(Top) \in Seq(Nat) /\ Top.pc \in Nat
    BY AtInstruction
  <1>2. Top.pc + 1 + 0 = Top.pc + 1
    BY <1>1
  <1>3. Op = Opcode(fb.functions[Top.fn].code[Top.pc + 1])
    BY <1>2 DEF Op, Byte, CodeOf
  <1>4. Operands(Op) = 2
    BY DEF Operands, BinaryOps
  <1>5. Len(CodeOf(Top)) \in Nat /\ Top.pc + 1 + 2 <= Len(CodeOf(Top))
    BY <1>1, <1>3, <1>4, LenProperties DEF VerifiedAt, CodeOf
  <1>6. Byte(2) \in Nat
    BY <1>1, <1>5, OperandIsNumber DEF Byte
  <1> QED
    BY <1>1, <1>3, <1>6 DEF VerifiedAt, Byte, CodeOf

-------------------------------------------------------------------------------
(* Steps *)

\* One more postponed call of a function.
LEMMA PostedGrows ==
  ASSUME CallsOK, NEW n, hasFunction(n), posted' = Append(posted, n), UNCHANGED <<fb, todo>>
  PROVE  CallsOK'
  <1>1. PICK S : posted \in Seq(S)
    BY DEF CallsOK
  <1>2. PICK T : T = S \cup {n}
    OBVIOUS
  <1>3. posted \in Seq(T) /\ n \in T
    BY <1>1, <1>2
  <1>4. /\ posted' \in Seq(T)
        /\ Len(posted') = Len(posted) + 1 /\ Len(posted) \in Nat
        /\ posted'[Len(posted) + 1] = n
        /\ \A k \in 1 .. Len(posted) : posted'[k] = posted[k]
    BY <1>3
  <1>5. \A k \in 1 .. Len(posted') : hasFunction(posted'[k])
    BY <1>4 DEF CallsOK, hasFunction
  <1> QED
    BY <1>4, <1>5 DEF CallsOK, hasFunction

\* The innermost call goes on.
LEMMA TopMoves ==
  ASSUME Verified(fb), Sound, frames # <<>>,
         NEW g, FrameOK(g, threshold), frames' = [frames EXCEPT ![Len(frames)] = g],
         DOMAIN regs' = DOMAIN regs, UNCHANGED <<fb, threshold>>, CallsOK'
  PROVE  Sound'
  <1>1. /\ frames' \in Seq(Elements(frames')) /\ Len(frames') = Len(frames)
        /\ frames'[Len(frames)] = g
        /\ \A k \in 1 .. Len(frames) : k # Len(frames) => frames'[k] = frames[k]
    <2>1. /\ Len(frames) \in Nat /\ DOMAIN frames = 1 .. Len(frames) /\ Len(frames) >= 1
          /\ frames \in [1 .. Len(frames) -> Elements(frames)]
      BY DEF Sound, FramesOK
    <2>2. frames' \in [1 .. Len(frames) -> Elements(frames) \cup {g}]
      BY <2>1
    <2>3. frames' \in Seq(Elements(frames')) /\ Len(frames') = Len(frames)
      BY <2>1, <2>2, FunctionIsSequence
    <2>4. frames'[Len(frames)] = g
      BY <2>1
    <2>5. \A k \in 1 .. Len(frames) : k # Len(frames) => frames'[k] = frames[k]
      BY <2>1
    <2> QED
      BY <2>3, <2>4, <2>5
  <1>2. \A k \in 1 .. Len(frames') : FrameOK(frames'[k], threshold)
    BY <1>1 DEF Sound, FramesOK
  <1>3. FramesOK'
    BY <1>1, <1>2 DEF FramesOK, FrameOK, Elements
  <1>4. ArrayOK'
    BY DEF Sound, ArrayOK
  <1> QED
    BY <1>3, <1>4 DEF Sound

\* The innermost call goes on at another instruction of its function.
LEMMA GotoSound ==
  ASSUME Verified(fb), Sound, frames # <<>>,
         NEW pc \in fb.functions[Top.fn].starts, NEW written, Goto(pc, written),
         DOMAIN regs' = DOMAIN regs, UNCHANGED <<fb, threshold, posted, todo>>
  PROVE  Sound'
  <1> DEFINE g == [Top EXCEPT !.pc = pc, !.known = @ \cup written]
  <1>1. FrameOK(Top, threshold)
    BY AtInstruction DEF Sound
  <1>2. FrameOK(g, threshold)
    BY <1>1 DEF FrameOK, FrameFields
  <1>3. frames' = [frames EXCEPT ![Len(frames)] = g]
    BY DEF Goto, Top
  <1>4. CallsOK'
    BY DEF Sound, CallsOK, hasFunction
  <1> QED
    BY <1>2, <1>3, <1>4, TopMoves

\* The innermost call goes on at the next instruction, with other objects in use.
LEMMA UseSound ==
  ASSUME Verified(fb), Sound, frames # <<>>, Op \notin {"JUMP", "RETURN", "ENDOFCODE"},
         NEW cur, NEW idx, NEW pcur, NEW pidx, NEW written,
         Use(cur, idx, pcur, pidx, written),
         DOMAIN regs' = DOMAIN regs, UNCHANGED <<fb, threshold>>, CallsOK'
  PROVE  Sound'
  <1> DEFINE g == [Top EXCEPT !.pc = NextPc, !.cur = cur, !.idx = idx, !.pcur = pcur,
                              !.pidx = pidx, !.known = @ \cup written]
  <1>1. FrameOK(Top, threshold) /\ NextPc \in fb.functions[Top.fn].starts
    BY AtInstruction, NextInstruction DEF Sound
  <1>2. FrameOK(g, threshold)
    BY <1>1 DEF FrameOK, FrameFields
  <1>3. frames' = [frames EXCEPT ![Len(frames)] = g]
    BY DEF Use, Top
  <1> QED
    BY <1>2, <1>3, TopMoves

LEMMA ArrayLength ==
  ASSUME ArrayOK, fb.maxRegisters \in Nat
  PROVE  Cardinality(DOMAIN regs) = threshold + fb.maxRegisters
  <1>1. PICK n \in Nat : n = threshold + fb.maxRegisters
    BY DEF ArrayOK
  <1>2. Cardinality(0 .. n - 1) = n
    <2>1. 0 \in Int /\ n - 1 \in Int
      OBVIOUS
    <2>2. PICK m \in Int : m = n - 1
      BY <2>1
    <2>3. Cardinality(0 .. m) = IF 0 > m THEN 0 ELSE m - 0 + 1
      BY FS_Interval
    <2> QED
      BY <2>2, <2>3
  <1> QED
    BY <1>1, <1>2 DEF ArrayOK

\* The call of the function of a field is the only one: it starts at register 0.
LEMMA InvokeSound ==
  ASSUME Verified(fb), ArrayOK, NEW n, NEW value, hasFunction(n), Invoke(n, value),
         UNCHANGED <<fb, threshold>>
  PROVE  ArrayOK' /\ FramesOK'
  <1>1. /\ fb.maxRegisters \in Nat \ {0}
        /\ 0 \in fb.functions[n].starts
    BY DEF Verified, hasFunction
  <1>2. Cardinality(DOMAIN regs) = threshold + fb.maxRegisters
    BY <1>1, ArrayLength
  <1>3. FrameOK(Frame(n, 0, Cardinality(DOMAIN regs), {0}), threshold)
    BY <1>1, <1>2 DEF FrameOK, FrameFields, Frame, ArrayOK, hasFunction
  <1>4. PICK g : g = Frame(n, 0, Cardinality(DOMAIN regs), {0})
    OBVIOUS
  <1>5. frames' = <<g>>
    BY <1>4 DEF Invoke
  <1>6. frames' \in [1 .. 1 -> {g}] /\ Len(frames') = 1 /\ frames'[1] = g
    BY <1>5
  <1>7. frames' \in Seq(Elements(frames'))
    BY <1>6, FunctionIsSequence
  <1>8. \A k \in 1 .. Len(frames') : FrameOK(frames'[k], threshold)
    BY <1>3, <1>4, <1>6
  <1>9. FramesOK'
    BY <1>7, <1>8 DEF FramesOK, FrameOK, Elements
  <1>10. ArrayOK'
    BY DEF ArrayOK, Invoke
  <1> QED
    BY <1>9, <1>10

\* A call takes registers from its first parameter on.
LEMMA IntCallSound ==
  ASSUME Verified(fb), Sound, FitsBank, REGISTERS_BANK \in Nat, IntCall
  PROVE  Sound'
  <1> DEFINE M == fb.maxRegisters
             base == Top.base + Byte(2)
             grow == base >= threshold
             nl == IF grow THEN Cardinality(DOMAIN regs) + REGISTERS_BANK
                   ELSE Cardinality(DOMAIN regs)
             caller == [Top EXCEPT !.pc = NextPc, !.known = {k \in @ : k < Byte(2)}]
             params == Params(Top.known, Byte(2))
             g == Frame(Byte(1), base, nl, params)
             back == [frames EXCEPT ![Len(frames)] = caller]
  <1>0. frames # <<>> /\ Op = "INT_CALL" /\ ArrayOK /\ FramesOK
    BY DEF IntCall, Running, Sound
  <1>1. /\ FrameOK(Top, threshold) /\ NextPc \in fb.functions[Top.fn].starts
        /\ Byte(1) \in DOMAIN fb.functions /\ Byte(2) \in Nat /\ Byte(2) < M
    BY <1>0, AtInstruction, NextInstruction, CallOperands
  <1>2. M \in Nat \ {0} /\ 0 \in fb.functions[Byte(1)].starts
    BY <1>1 DEF Verified
  <1>3. Cardinality(DOMAIN regs) = threshold + M
    BY <1>0, <1>2, ArrayLength
  <1>4. /\ DOMAIN regs' = 0 .. nl - 1
        /\ threshold' = IF grow THEN threshold + REGISTERS_BANK ELSE threshold
        /\ frames' = Append(back, g)
        /\ UNCHANGED <<fb, posted, todo>>
    BY <1>1 DEF IntCall, hasFunction, world
  \* The numbers of the call: start and threshold before and after it, bank and
  \* registers of a function.
  <1> HIDE DEF base, params
  <1>a. /\ threshold' = IF grow THEN threshold + REGISTERS_BANK ELSE threshold
        /\ nl = IF grow THEN Cardinality(DOMAIN regs) + REGISTERS_BANK
                ELSE Cardinality(DOMAIN regs)
        /\ grow <=> base >= threshold
    BY <1>4
  <1>b. fb' = fb /\ DOMAIN regs' = 0 .. nl - 1
    BY <1>4
  <1> HIDE DEF grow, nl
  <1>5. /\ base \in Nat /\ threshold \in Nat /\ threshold' \in Nat /\ nl \in Nat
        /\ base < threshold' /\ threshold <= threshold' /\ M <= threshold'
        /\ nl = threshold' + M
    <2>1. PICK b0 \in Nat, k \in Nat, t \in Nat, m \in Nat \ {0}, r \in Nat :
            /\ b0 = Top.base /\ k = Byte(2) /\ t = threshold /\ m = M /\ r = REGISTERS_BANK
            /\ b0 < t /\ k < m /\ m <= t /\ m <= r + 1
      BY <1>0, <1>1, <1>2 DEF FrameOK, ArrayOK, FitsBank
    <2>2. PICK b \in Nat : b = b0 + k
      OBVIOUS
    <2>3. b = base
      BY <2>1, <2>2 DEF base
    <2>4. CASE b >= t
      <3>0. grow
        BY <1>a, <2>1, <2>3, <2>4
      <3>1. threshold' = t + r /\ nl = t + m + r
        BY <1>3, <1>a, <2>1, <3>0
      <3>2. PICK t2 \in Nat : t2 = t + r
        OBVIOUS
      <3>3. PICK l \in Nat : l = t + m + r
        OBVIOUS
      <3>4. b < t2 /\ t <= t2 /\ m <= t2 /\ l = t2 + m
        BY <2>1, <2>2, <3>2, <3>3
      <3> QED
        BY <2>1, <2>3, <3>1, <3>2, <3>3, <3>4
    <2>5. CASE b < t
      <3>0. ~grow
        <4>1. ~(b >= t)
          BY <2>5
        <4> QED
          BY <1>a, <2>1, <2>3, <4>1
      <3>1. threshold' = t /\ nl = t + m
        BY <1>3, <1>a, <2>1, <3>0
      <3>2. PICK l \in Nat : l = t + m
        OBVIOUS
      <3> QED
        BY <2>1, <2>3, <2>5, <3>1, <3>2
    <2> QED
      BY <2>4, <2>5
  <1>6. /\ ArrayOK'
        /\ FrameOK(g, threshold')
    <2>1. ArrayOK'
      <3>1. fb' = fb /\ DOMAIN regs' = 0 .. threshold' + M - 1
        <4>1. PICK i \in Int : i = nl - 1
          BY <1>5
        <4>2. i = threshold' + M - 1
          BY <1>2, <1>5, <4>1
        <4> QED
          BY <1>b, <4>1, <4>2
      <3> QED
        BY <1>5, <3>1 DEF ArrayOK
    <2>2. FrameOK(g, threshold')
      BY <1>1, <1>2, <1>5 DEF FrameOK, FrameFields, Frame
    <2> QED
      BY <2>1, <2>2
  <1>7. threshold' \in Nat /\ threshold <= threshold'
    BY <1>5
  <1>8. FrameOK(caller, threshold')
    BY <1>0, <1>1, <1>7 DEF FrameOK, FrameFields, ArrayOK
  <1>9. /\ Len(back) = Len(frames) /\ Len(frames) \in Nat
        /\ back \in Seq(Elements(back))
        /\ \A k \in 1 .. Len(back) : FrameOK(back[k], threshold')
    <2> HIDE DEF caller
    <2>1. /\ Len(frames) \in Nat /\ DOMAIN frames = 1 .. Len(frames)
          /\ frames \in [1 .. Len(frames) -> Elements(frames)]
      BY <1>0 DEF FramesOK
    <2>2. back \in [1 .. Len(frames) -> Elements(frames) \cup {caller}]
      BY <2>1
    <2>3. back \in Seq(Elements(back)) /\ Len(back) = Len(frames)
      BY <2>1, <2>2, FunctionIsSequence
    <2>4. ASSUME NEW k \in 1 .. Len(frames) PROVE FrameOK(back[k], threshold')
      <3>1. CASE k = Len(frames)
        <4>1. back[k] = caller
          BY <2>1, <3>1
        <4> QED
          BY <1>8, <4>1
      <3>2. CASE k # Len(frames)
        <4>1. back[k] = frames[k]
          BY <2>1, <3>2
        <4>2. FrameOK(frames[k], threshold)
          BY <1>0 DEF FramesOK
        <4> QED
          BY <1>0, <1>7, <4>1, <4>2 DEF FrameOK, ArrayOK
      <3> QED
        BY <3>1, <3>2
    <2> QED
      BY <2>1, <2>3, <2>4
  <1>10. FramesOK'
    <2> HIDE DEF back, g
    <2>1. PICK t : t = frames'
      OBVIOUS
    <2>2. t = Append(back, g)
      BY <1>4, <2>1
    <2>3. /\ t \in Seq(Elements(back) \cup {g}) /\ Len(t) = Len(back) + 1
          /\ t[Len(back) + 1] = g
          /\ \A k \in 1 .. Len(back) : t[k] = back[k]
      BY <1>9, <2>2, AddTop
    <2>a. t \in Seq(Elements(t))
      BY <2>3, SequenceOfElements
    <2>4. \A k \in 1 .. Len(t) : FrameOK(t[k], threshold')
      BY <1>6, <1>9, <2>3
    <2> QED
      BY <1>b, <2>1, <2>4, <2>a DEF FramesOK, FrameOK, Elements
  <1>11. CallsOK'
    BY <1>4 DEF Sound, CallsOK, hasFunction
  <1> QED
    BY <1>4, <1>6, <1>10, <1>11 DEF Sound

\* The function that called goes on where it was.
LEMMA PopSound ==
  ASSUME Verified(fb), Sound, frames # <<>>, NEW result, Pop(result),
         DOMAIN regs' = DOMAIN regs, UNCHANGED <<fb, threshold, posted, todo>>
  PROVE  Sound'
  <1> DEFINE n == Len(frames) - 1
             got == IF result THEN {Top.base - frames[n].base} ELSE {}
             g == [frames[n] EXCEPT !.known = @ \cup got]
  <1>1. /\ Len(frames) \in Nat \ {0} /\ DOMAIN frames = 1 .. Len(frames)
        /\ frames \in [1 .. Len(frames) -> Elements(frames)]
    BY DEF Sound, FramesOK
  <1>2. ArrayOK'
    BY DEF Sound, ArrayOK
  <1>3. CallsOK'
    BY DEF Sound, CallsOK, hasFunction
  <1>4. FramesOK'
    <2>1. CASE n = 0
      <3>1. frames' = <<>>
        BY <2>1 DEF Pop
      <3> QED
        BY <3>1 DEF FramesOK
    <2>2. CASE n # 0
      <3>1. n \in 1 .. Len(frames) /\ n \in Nat
        BY <1>1, <2>2
      <3>2. FrameOK(g, threshold)
        BY <3>1 DEF Sound, FramesOK, FrameOK, FrameFields
      <3> HIDE DEF g
      <3>3. frames' = [k \in 1 .. n |-> IF k < n THEN frames[k] ELSE g]
        BY <2>2 DEF Pop, g
      <3>4. frames' \in [1 .. n -> Elements(frames) \cup {g}]
        BY <1>1, <3>1, <3>3
      <3>5. frames' \in Seq(Elements(frames')) /\ Len(frames') = n
        BY <3>1, <3>4, FunctionIsSequence
      <3>6. \A k \in 1 .. Len(frames') : FrameOK(frames'[k], threshold)
        BY <1>1, <3>1, <3>2, <3>3, <3>5 DEF Sound, FramesOK
      <3> QED
        BY <3>5, <3>6 DEF FramesOK, FrameOK, Elements
    <2> QED
      BY <2>1, <2>2
  <1> QED
    BY <1>2, <1>3, <1>4 DEF Sound

-------------------------------------------------------------------------------
(* The invariant *)

LEMMA InitIInv == ASSUME Assumed, Init PROVE IInv
  <1>1. Verified(fb)
    BY DEF Assumed, Init
  <1>2. fb.maxRegisters \in Nat \ {0}
    BY <1>1 DEF Verified
  <1>3. ArrayOK
    BY <1>2 DEF Init, ArrayOK
  <1>4. CallsOK
    BY DEF Init, CallsOK
  <1>5. FramesOK
    <2>1. CASE hasFunction(0)
      <3>1. 0 \in fb.functions[0].starts
        BY <1>1, <2>1 DEF Verified, hasFunction
      <3>2. PICK g : g = Frame(0, 0, 2 * fb.maxRegisters, {})
        OBVIOUS
      <3>3. FrameOK(g, threshold)
        BY <1>2, <2>1, <3>1, <3>2 DEF FrameOK, FrameFields, Frame, Init, hasFunction
      <3>4. frames = <<g>>
        BY <2>1, <3>2 DEF Init
      <3>5. frames \in [1 .. 1 -> {g}] /\ Len(frames) = 1 /\ frames[1] = g
        BY <3>4
      <3>6. frames \in Seq(Elements(frames))
        BY <3>5, FunctionIsSequence
      <3> QED
        BY <3>3, <3>5, <3>6 DEF FramesOK
    <2>2. CASE ~hasFunction(0)
      BY <2>2 DEF Init, FramesOK
    <2> QED
      BY <2>1, <2>2
  <1> QED
    BY <1>1, <1>3, <1>4, <1>5 DEF IInv, Sound, Init

\* Every step of a script whose functions fit.
LEMMA NextSound ==
  ASSUME Verified(fb), FitsBank, Sound, REGISTERS_BANK \in Nat, [Next]_vars
  PROVE  Sound' /\ fb' = fb
  <1>1. ASSUME NEW n \in Routed[script], NEW value \in RouteValues, FieldChanged(n, value)
        PROVE  Sound' /\ fb' = fb
    <2>1. UNCHANGED <<fb, threshold, todo>>
      BY <1>1 DEF FieldChanged
    <2>2. CASE hasFunction(n) /\ ~invoking /\ Invoke(n, value) /\ posted' = posted
      <3>1. ArrayOK' /\ FramesOK'
        BY <2>1, <2>2, InvokeSound DEF Sound
      <3>2. CallsOK'
        BY <2>1, <2>2 DEF Sound, CallsOK, hasFunction
      <3> QED
        BY <2>1, <3>1, <3>2 DEF Sound
    <2>3. CASE hasFunction(n) /\ posted' = Append(posted, n) /\ UNCHANGED <<regs, frames>>
      <3>1. CallsOK'
        BY <2>1, <2>3, PostedGrows DEF Sound
      <3> QED
        BY <2>1, <2>3, <3>1 DEF Sound, ArrayOK, FramesOK, FrameOK, Elements
    <2>4. CASE UNCHANGED <<regs, frames, posted>>
      BY <2>1, <2>4 DEF Sound, ArrayOK, FramesOK, FrameOK, Elements, CallsOK, hasFunction
    <2> QED
      BY <1>1, <2>1, <2>2, <2>3, <2>4 DEF FieldChanged
  <1>2. ASSUME invokePostponedCalls PROVE Sound' /\ fb' = fb
    <2> DEFINE calls == posted \o todo
    <2>1. UNCHANGED <<fb, threshold>> /\ posted' = <<>>
      BY <1>2 DEF invokePostponedCalls
    <2>2. PICK S, T : posted \in Seq(S) /\ todo \in Seq(T)
      BY DEF Sound, CallsOK
    <2>3. PICK U : U = S \cup T
      OBVIOUS
    <2>4. posted \in Seq(U) /\ todo \in Seq(U)
      BY <2>2, <2>3
    <2>5. /\ calls \in Seq(U)
          /\ Len(calls) = Len(posted) + Len(todo) /\ Len(posted) \in Nat /\ Len(todo) \in Nat
          /\ \A i \in 1 .. Len(posted) + Len(todo) :
               calls[i] = IF i <= Len(posted) THEN posted[i] ELSE todo[i - Len(posted)]
      BY <2>4, ConcatProperties, LenProperties
    <2>6. \A i \in 1 .. Len(calls) : hasFunction(calls[i])
      <3> SUFFICES ASSUME NEW i \in 1 .. Len(calls) PROVE hasFunction(calls[i])
        OBVIOUS
      <3>1. CASE i <= Len(posted)
        BY <2>5, <3>1 DEF Sound, CallsOK
      <3>2. CASE ~(i <= Len(posted))
        <4>1. i - Len(posted) \in 1 .. Len(todo)
          BY <2>5, <3>2
        <4> QED
          BY <2>5, <3>2, <4>1 DEF Sound, CallsOK
      <3> QED
        BY <3>1, <3>2
    <2> HIDE DEF calls
    <2>7. calls # <<>> /\ Invoke(Head(calls), fields[Head(calls)]) /\ todo' = Tail(calls)
      BY <1>2 DEF invokePostponedCalls, calls
    <2>8. /\ Head(calls) = calls[1] /\ 1 \in 1 .. Len(calls)
          /\ Tail(calls) \in Seq(U)
          /\ Len(Tail(calls)) = Len(calls) - 1
          /\ \A i \in 1 .. Len(Tail(calls)) : Tail(calls)[i] = calls[i + 1]
      BY <2>5, <2>7
    <2>9. hasFunction(Head(calls))
      BY <2>6, <2>8
    <2>10. ArrayOK' /\ FramesOK'
      BY <2>1, <2>7, <2>9, InvokeSound DEF Sound
    <2>11. CallsOK'
      <3>1. \A i \in 1 .. Len(todo') : hasFunction(todo'[i])
        BY <2>5, <2>6, <2>7, <2>8
      <3>2. todo' \in Seq(U) /\ posted' \in Seq(U)
        BY <2>1, <2>7, <2>8
      <3> QED
        BY <2>1, <3>1, <3>2 DEF CallsOK, hasFunction
    <2> QED
      BY <2>1, <2>10, <2>11 DEF Sound
  <1>3. ASSUME Invoked PROVE Sound' /\ fb' = fb
    BY <1>3 DEF Invoked, Sound, ArrayOK, FramesOK, FrameOK, Elements, CallsOK, hasFunction
  <1>4. ASSUME NEW a, NEW value, Write(a, value), frames # <<>>,
               Op \notin {"JUMP", "RETURN", "ENDOFCODE"}
        PROVE  Sound' /\ fb' = fb
    <2>1. NextPc \in fb.functions[Top.fn].starts
      BY <1>4, NextInstruction DEF Sound
    <2>2. /\ Goto(NextPc, {a}) /\ DOMAIN regs' = DOMAIN regs
          /\ UNCHANGED <<fb, threshold, posted, todo>>
      BY <1>4 DEF Write, world
    <2> QED
      BY <1>4, <2>1, <2>2, GotoSound
  <1>5. ASSUME NEW pc \in fb.functions[Top.fn].starts, Jump(pc), frames # <<>>
        PROVE  Sound' /\ fb' = fb
    <2>1. Goto(pc, {}) /\ UNCHANGED <<fb, regs, threshold, posted, todo>>
      BY <1>5 DEF Jump, world
    <2> QED
      BY <1>5, <2>1, GotoSound
  <1>6. CASE Nop \/ LoadInt \/ Move \/ Invert \/ Operate \/ ExtCall
    <2>1. CASE Nop
      <3>1. NextPc \in fb.functions[Top.fn].starts
        BY <2>1, NextInstruction DEF Nop, Running, Sound
      <3> QED
        BY <1>5, <2>1, <3>1 DEF Nop, Running
    <2>2. CASE LoadInt
      BY <1>4, <2>2 DEF LoadInt, Running
    <2>3. CASE Move
      BY <1>4, <2>3 DEF Move, Running
    <2>4. CASE Invert
      BY <1>4, <2>4 DEF Invert, Running
    <2>5. CASE Operate
      BY <1>4, <2>5 DEF Operate, Running, BinaryOps
    <2>6. CASE ExtCall
      BY <1>4, <2>6 DEF ExtCall, Running
    <2> QED
      BY <1>6, <2>1, <2>2, <2>3, <2>4, <2>5, <2>6
  <1>7. CASE JumpAlways \/ JumpZero \/ JumpNZero
    <2>1. frames # <<>> /\ Op \in {"JUMP", "JUMP_ZERO", "JUMP_NZERO"}
      BY <1>7 DEF JumpAlways, JumpZero, JumpNZero, Running
    <2>2. /\ Op = "JUMP" => Target(1) \in fb.functions[Top.fn].starts
          /\ Op \in {"JUMP_ZERO", "JUMP_NZERO"} => Target(2) \in fb.functions[Top.fn].starts
      BY <2>1, JumpTargets DEF Sound
    <2>3. Op # "JUMP" => NextPc \in fb.functions[Top.fn].starts
      BY <2>1, NextInstruction DEF Sound
    <2>4. \E pc \in fb.functions[Top.fn].starts : Jump(pc)
      BY <1>7, <2>2, <2>3 DEF JumpAlways, JumpZero, JumpNZero, Running
    <2> QED
      BY <1>5, <2>1, <2>4
  <1>8. CASE IntCall
    BY <1>8, IntCallSound DEF IntCall, world
  <1>9. CASE ReturnValue \/ EndOfCode
    <2>1. /\ frames # <<>> /\ \E result : Pop(result)
          /\ DOMAIN regs' = DOMAIN regs
          /\ UNCHANGED <<fb, threshold, posted, todo>>
      BY <1>9 DEF ReturnValue, EndOfCode, Running, world
    <2> QED
      BY <2>1, PopSound
  <1>10. CASE FieldPush \/ FieldPop \/ FieldUse \/ FieldIdx \/ FieldGet
    <2>1. /\ frames # <<>> /\ Op \notin {"JUMP", "RETURN", "ENDOFCODE"}
          /\ \E cur, idx, pcur, pidx, written : Use(cur, idx, pcur, pidx, written)
          /\ DOMAIN regs' = DOMAIN regs
          /\ UNCHANGED <<fb, threshold, posted, todo>>
      BY <1>10 DEF FieldPush, FieldPop, FieldUse, FieldIdx, FieldGet, Running, world
    <2>2. CallsOK'
      BY <2>1 DEF Sound, CallsOK, hasFunction
    <2> QED
      BY <2>1, <2>2, UseSound
  <1>11. CASE FieldSet
    <2>1. /\ frames # <<>> /\ Op \notin {"JUMP", "RETURN", "ENDOFCODE"}
          /\ Use(ScriptNode, -1, Top.pcur, Top.pidx, {})
          /\ UNCHANGED <<fb, regs, threshold, todo>>
          /\ posted' = posted \/ (hasFunction(Top.cur) /\ posted' = Append(posted, Top.cur))
      BY <1>11 DEF FieldSet, Running, world
    <2>2. CallsOK'
      <3>1. CASE posted' = posted
        BY <2>1, <3>1 DEF Sound, CallsOK, hasFunction
      <3>2. CASE hasFunction(Top.cur) /\ posted' = Append(posted, Top.cur)
        BY <2>1, <3>2, PostedGrows DEF Sound
      <3> QED
        BY <2>1, <3>1, <3>2
    <2> QED
      BY <2>1, <2>2, UseSound
  <1>12. CASE OutOfBounds
    BY <1>12, AtInstruction DEF OutOfBounds, Sound
  <1>13. CASE ArrayTooLong
    <2>1. UNCHANGED <<fb, regs, threshold, posted>> /\ frames' = <<>> /\ todo' = <<>>
      BY <1>13 DEF ArrayTooLong, Throw
    <2>2. ArrayOK' /\ FramesOK'
      BY <2>1 DEF Sound, ArrayOK, FramesOK
    <2>3. CallsOK'
      BY <2>1 DEF Sound, CallsOK, hasFunction
    <2> QED
      BY <2>1, <2>2, <2>3 DEF Sound
  <1>14. CASE UNCHANGED vars
    BY <1>14 DEF vars, Sound, ArrayOK, FramesOK, FrameOK, Elements, CallsOK, hasFunction
  <1> QED
    BY <1>1, <1>2, <1>3, <1>6, <1>7, <1>8, <1>9, <1>10, <1>11, <1>12, <1>13, <1>14
       DEF Next, Calls, Run, Instruction

\* Nothing but Init chooses the bank.
LEMMA BankStays == ASSUME [Next]_vars PROVE fb' = fb
  BY DEF Next, Calls, Run, Instruction, FieldChanged, invokePostponedCalls, Invoked,
         Nop, LoadInt, Move, Invert, Operate, JumpAlways, JumpZero, JumpNZero, ExtCall,
         IntCall, ReturnValue, EndOfCode, FieldPush, FieldPop, FieldUse, FieldIdx,
         FieldSet, FieldGet, OutOfBounds, ArrayTooLong, Throw, Write, Jump, world, vars

LEMMA NextIInv ==
  ASSUME REGISTERS_BANK \in Nat, IInv, [Next]_vars
  PROVE  IInv'
  <1>1. fb' = fb
    BY BankStays
  <1>2. Verified(fb)'
    BY <1>1 DEF IInv, Verified
  <1>3. ASSUME FitsBank' PROVE Sound'
    <2>1. FitsBank
      BY <1>1, <1>3 DEF FitsBank
    <2> QED
      BY <2>1, NextSound DEF IInv
  <1> QED
    BY <1>2, <1>3 DEF IInv

LEMMA IInvFrames == ASSUME IInv PROVE FramesInRegisters
  <1> SUFFICES ASSUME FitsBank
               PROVE  /\ frames # <<>> => InRegisters
                      /\ \A k \in DOMAIN frames :
                           frames[k].base + fb.maxRegisters <= frames[k].len
    BY DEF FramesInRegisters
  <1>1. Verified(fb) /\ ArrayOK /\ FramesOK
    BY DEF IInv, Sound
  <1>2. frames # <<>> => InRegisters
    BY <1>1, AtInstruction
  <1>3. DOMAIN frames = 1 .. Len(frames)
    BY <1>1 DEF FramesOK
  <1> QED
    BY <1>1, <1>2, <1>3 DEF FramesOK, FrameOK

\* Whatever the scripts are and however deep their calls go, a function has all
\* its registers and no call ends by an exception of theirs, which would leave
\* the script marked as running (Machine.run and the loop of Function.run), provided that
\* the compiler keeps its promise and the functions of a script need at most
\* one register more than the player adds at a time.
THEOREM RegistersSuffice == ASSUME Assumed PROVE Spec => []FramesInRegisters
  <1>1. Init => IInv
    BY InitIInv
  <1>2. IInv /\ [Next]_vars => IInv'
    BY NextIInv DEF Assumed
  <1>3. IInv => FramesInRegisters
    BY IInvFrames
  <1> QED
    BY <1>1, <1>2, <1>3, PTL DEF Spec

-------------------------------------------------------------------------------
(* No register is read that the call has not been given or written             *)
(*                                                                             *)
(* The argument: what is noted at the instruction a call has reached holds of  *)
(* the call, but for the result of the call above it, if that one always       *)
(* leaves a result. A step takes a call to an instruction whose notes follow   *)
(* from those it comes from (NotedAt); a call starts with the parameters its   *)
(* caller knows, or that a route gives, and its end gives the caller what it   *)
(* waits for.                                                                  *)

NoteOf(notes, f) == notes.at[f.fn][f.pc]

\* A call is at an instruction of its function, with objects that are noted.
FrameNoted(notes, f) ==
  /\ DOMAIN f = FrameFields
  /\ f.fn \in DOMAIN fb.functions
  /\ f.pc \in fb.functions[f.fn].starts
  /\ f.base \in Nat
  /\ f.cur \in NoteOf(notes, f).cur
  /\ f.pcur \in NoteOf(notes, f).pcur

\* The register in which a call waits for the result of the one above it.
Awaited(notes, k) ==
  IF k < Len(frames) /\ frames[k + 1].fn \in notes.returns
  THEN {frames[k + 1].base - frames[k].base} ELSE {}

FramesNoted(notes) ==
  /\ frames \in Seq(Elements(frames))
  /\ \A k \in 1 .. Len(frames) :
       /\ FrameNoted(notes, frames[k])
       /\ NoteOf(notes, frames[k]).known \subseteq frames[k].known \cup Awaited(notes, k)

\* Only functions of fields are postponed.
CallsOfFields ==
  /\ \E S : posted \in Seq(S)
  /\ \E S : todo \in Seq(S)
  /\ \A k \in 1 .. Len(posted) : hasFunction(posted[k]) /\ posted[k] \in FieldsOf(script)
  /\ \A k \in 1 .. Len(todo) : hasFunction(todo[k]) /\ todo[k] \in FieldsOf(script)

NotesHold(notes) ==
  /\ Noted(script, fb, notes)
  /\ FramesNoted(notes)

OwnInv ==
  /\ script \in Scripts
  /\ Verified(fb)
  /\ DOMAIN fields = FieldsOf(script)
  /\ CallsOfFields
  /\ \E notes : NotesHold(notes)

\* The promise of the compiler for each script, checked for the scripts of a
\* run by CodeIsSound.
AssumedNoted ==
  \A s \in Scripts : Verified(Banks[s]) /\ \E notes \in Notes[s] : Noted(s, Banks[s], notes)

-------------------------------------------------------------------------------
(* The notes at the instruction of the innermost call *)

\* Its notes hold, and say what comes behind it.
LEMMA AtNote ==
  ASSUME Verified(fb), NEW notes, NotesHold(notes), frames # <<>>
  PROVE  /\ FrameNoted(notes, Top)
         /\ Len(frames) \in 1 .. Len(frames)
         /\ Top.pc \in Nat
         /\ NoteOf(notes, Top).known \subseteq Top.known
         /\ VerifiedAt(fb, fb.functions[Top.fn], Top.pc)
         /\ NotedAt(script, fb, notes, Top.fn, Top.pc)
         /\ NoteOf(notes, Top).cur # {}
         /\ CodeOf(Top) \in Seq(Nat)
         /\ Op = Opcode(CodeOf(Top)[Top.pc + 1])
  <1>1. Len(frames) \in Nat /\ Len(frames) \in 1 .. Len(frames)
    BY DEF NotesHold, FramesNoted
  <1>2. /\ FrameNoted(notes, Top)
        /\ NoteOf(notes, Top).known \subseteq Top.known \cup Awaited(notes, Len(frames))
    BY <1>1 DEF NotesHold, FramesNoted, Top
  <1>3. Awaited(notes, Len(frames)) = {}
    BY <1>1 DEF Awaited
  <1>4. /\ VerifiedAt(fb, fb.functions[Top.fn], Top.pc)
        /\ CodeOf(Top) \in Seq(Nat)
        /\ Top.pc \in 0 .. Len(CodeOf(Top)) - 1
    BY <1>2, CodeOfBytes DEF FrameNoted, Verified, CodeOf
  <1>5. NotedAt(script, fb, notes, Top.fn, Top.pc)
    BY <1>2 DEF NotesHold, Noted, FrameNoted
  <1>6. NoteOf(notes, Top).cur # {}
    BY <1>2 DEF FrameNoted
  <1>7. Top.pc + 1 + 0 = Top.pc + 1
    BY <1>4
  <1>8. Op = Opcode(CodeOf(Top)[Top.pc + 1])
    BY <1>7 DEF Op, Byte
  <1> QED
    BY <1>1, <1>2, <1>3, <1>4, <1>5, <1>6, <1>8

\* What holds behind it.
AfterTop(notes) == After(script, CodeOf(Top), Top.pc, NoteOf(notes, Top), notes.returns)

\* Where it can go on, and what is noted there.
LEMMA NextNote ==
  ASSUME Verified(fb), NEW notes, NotesHold(notes), frames # <<>>,
         NEW q \in Successors(CodeOf(Top), Top.pc)
  PROVE  /\ q \in fb.functions[Top.fn].starts
         /\ Weaker(notes.at[Top.fn][q], AfterTop(notes))
  <1>1. /\ VerifiedAt(fb, fb.functions[Top.fn], Top.pc)
        /\ NotedAt(script, fb, notes, Top.fn, Top.pc)
        /\ NoteOf(notes, Top).cur # {}
    BY AtNote
  <1>2. q \in fb.functions[Top.fn].starts
    BY <1>1 DEF VerifiedAt, CodeOf
  <1>3. Weaker(notes.at[Top.fn][q], AfterTop(notes))
    BY <1>1 DEF NotedAt, NoteOf, AfterTop, CodeOf
  <1> QED
    BY <1>2, <1>3

LEMMA NextIsSuccessor ==
  ASSUME Verified(fb), NEW notes, NotesHold(notes), frames # <<>>,
         Op \notin {"JUMP", "RETURN", "ENDOFCODE"}
  PROVE  NextPc \in Successors(CodeOf(Top), Top.pc)
  <1>1. Op = Opcode(CodeOf(Top)[Top.pc + 1])
    BY AtNote
  <1> QED
    BY <1>1 DEF Successors, NextPc

LEMMA TargetIsSuccessor ==
  ASSUME Verified(fb), NEW notes, NotesHold(notes), frames # <<>>
  PROVE  /\ Op = "JUMP" => Target(1) \in Successors(CodeOf(Top), Top.pc)
         /\ Op \in {"JUMP_ZERO", "JUMP_NZERO"} => Target(2) \in Successors(CodeOf(Top), Top.pc)
  <1>1. Op = Opcode(CodeOf(Top)[Top.pc + 1])
    BY AtNote
  <1>2. 1 + 1 = 2 /\ 2 + 1 = 3
    OBVIOUS
  <1>3. /\ Target(1) = 256 * Byte(1) + Byte(2)
        /\ Target(2) = 256 * Byte(2) + Byte(3)
    BY <1>2 DEF Target
  <1> QED
    BY <1>1, <1>3 DEF Successors, Byte

\* Of its reads: this is what the notes are for.
LEMMA ReadsKnown ==
  ASSUME Verified(fb), NEW notes, NotesHold(notes), frames # <<>>
  PROVE  Reads(CodeOf(Top), Top.pc) \subseteq Top.known
  <1>1. /\ NotedAt(script, fb, notes, Top.fn, Top.pc) /\ NoteOf(notes, Top).cur # {}
        /\ NoteOf(notes, Top).known \subseteq Top.known
    BY AtNote
  <1>2. Reads(CodeOf(Top), Top.pc) \subseteq NoteOf(notes, Top).known
    BY <1>1 DEF NotedAt, NoteOf, CodeOf
  <1> QED
    BY <1>1, <1>2

-------------------------------------------------------------------------------
(* Steps of the innermost call *)

\* It goes on at another instruction, with what is noted there.
LEMMA TopStaysNoted ==
  ASSUME Verified(fb), NEW notes, NotesHold(notes), frames # <<>>,
         NEW g, FrameNoted(notes, g), g.fn = Top.fn, g.base = Top.base,
         NoteOf(notes, g).known \subseteq g.known,
         frames' = [frames EXCEPT ![Len(frames)] = g], UNCHANGED <<script, fb>>
  PROVE  NotesHold(notes)'
  <1>1. /\ frames' \in Seq(Elements(frames')) /\ Len(frames') = Len(frames)
        /\ Len(frames) \in Nat /\ Len(frames) >= 1
        /\ frames'[Len(frames)] = g
        /\ \A k \in 1 .. Len(frames) : k # Len(frames) => frames'[k] = frames[k]
    <2>1. /\ Len(frames) \in Nat /\ DOMAIN frames = 1 .. Len(frames) /\ Len(frames) >= 1
          /\ frames \in [1 .. Len(frames) -> Elements(frames)]
      BY DEF NotesHold, FramesNoted
    <2>2. frames' \in [1 .. Len(frames) -> Elements(frames) \cup {g}]
      BY <2>1
    <2>3. frames' \in Seq(Elements(frames')) /\ Len(frames') = Len(frames)
      BY <2>1, <2>2, FunctionIsSequence
    <2> QED
      BY <2>1, <2>3
  <1>2. ASSUME NEW k \in 1 .. Len(frames)
        PROVE  /\ FrameNoted(notes, frames'[k])
               /\ NoteOf(notes, frames'[k]).known \subseteq frames'[k].known \cup Awaited(notes, k)'
    <2>1. CASE k = Len(frames)
      BY <1>1, <2>1
    <2>2. CASE k # Len(frames)
      <3>0. PICK n \in Nat : n = Len(frames)
        BY <1>1
      <3>1. frames'[k] = frames[k] /\ k + 1 \in 1 .. Len(frames)
        <4>1. k + 1 \in 1 .. n
          BY <2>2, <3>0
        <4> QED
          BY <1>1, <2>2, <3>0, <4>1
      <3>2. frames'[k + 1].fn = frames[k + 1].fn /\ frames'[k + 1].base = frames[k + 1].base
        BY <1>1, <3>1 DEF Top
      <3>3. Awaited(notes, k)' = Awaited(notes, k)
        BY <1>1, <3>1, <3>2 DEF Awaited
      <3>4. /\ FrameNoted(notes, frames[k])
            /\ NoteOf(notes, frames[k]).known \subseteq frames[k].known \cup Awaited(notes, k)
        BY DEF NotesHold, FramesNoted
      <3> QED
        BY <3>1, <3>3, <3>4
    <2> QED
      BY <2>1, <2>2
  <1>3. FramesNoted(notes)'
    BY <1>1, <1>2 DEF FramesNoted, FrameNoted, NoteOf, Elements
  <1> QED
    BY <1>3 DEF NotesHold

\* It goes on at an instruction that follows.
LEMMA TopGoesOn ==
  ASSUME Verified(fb), NEW notes, NotesHold(notes), frames # <<>>,
         NEW q \in Successors(CodeOf(Top), Top.pc),
         NEW g, DOMAIN g = FrameFields, g.fn = Top.fn, g.base = Top.base, g.pc = q,
         AfterTop(notes).known \subseteq g.known,
         g.cur \in AfterTop(notes).cur, g.pcur \in AfterTop(notes).pcur,
         frames' = [frames EXCEPT ![Len(frames)] = g], UNCHANGED <<script, fb>>
  PROVE  NotesHold(notes)'
  <1>1. /\ q \in fb.functions[Top.fn].starts
        /\ Weaker(notes.at[Top.fn][q], AfterTop(notes))
    BY NextNote
  <1>2. FrameNoted(notes, Top)
    BY AtNote
  <1>3. /\ NoteOf(notes, g).known \subseteq g.known
        /\ g.cur \in NoteOf(notes, g).cur /\ g.pcur \in NoteOf(notes, g).pcur
    BY <1>1 DEF Weaker, NoteOf
  <1>4. FrameNoted(notes, g)
    BY <1>1, <1>2, <1>3 DEF FrameNoted
  <1> QED
    BY <1>3, <1>4, TopStaysNoted

\* What follows an instruction that has nothing to do with calls and fields.
LEMMA AfterPlain ==
  ASSUME Verified(fb), NEW notes, NotesHold(notes), frames # <<>>,
         Op \notin {"INT_CALL", "FIELD_GET_INT_REG", "FIELD_PUSH", "FIELD_POP", "FIELD_USE_INT",
                    "FIELD_SET_INT_REG"}
  PROVE  /\ AfterTop(notes).known = NoteOf(notes, Top).known \cup Writes(CodeOf(Top), Top.pc)
         /\ AfterTop(notes).cur = NoteOf(notes, Top).cur
         /\ AfterTop(notes).pcur = NoteOf(notes, Top).pcur
  <1>1. Op = Opcode(CodeOf(Top)[Top.pc + 1])
    BY AtNote
  <1> QED
    BY <1>1 DEF AfterTop, After

\* The innermost call goes on, having written the registers it writes.
LEMMA GotoNoted ==
  ASSUME Verified(fb), NEW notes, NotesHold(notes), frames # <<>>,
         Op \notin {"INT_CALL", "FIELD_GET_INT_REG", "FIELD_PUSH", "FIELD_POP", "FIELD_USE_INT",
                    "FIELD_SET_INT_REG"},
         NEW q \in Successors(CodeOf(Top), Top.pc), NEW written,
         Writes(CodeOf(Top), Top.pc) \subseteq written,
         Goto(q, written), UNCHANGED <<script, fb>>
  PROVE  NotesHold(notes)'
  <1> DEFINE g == [Top EXCEPT !.pc = q, !.known = @ \cup written]
  <1>1. FrameNoted(notes, Top) /\ NoteOf(notes, Top).known \subseteq Top.known
    BY AtNote
  <1>2. /\ DOMAIN g = FrameFields /\ g.fn = Top.fn /\ g.base = Top.base /\ g.pc = q
        /\ g.cur = Top.cur /\ g.pcur = Top.pcur
        /\ g.known = Top.known \cup written
    BY <1>1 DEF FrameNoted, FrameFields
  <1>3. frames' = [frames EXCEPT ![Len(frames)] = g]
    BY DEF Goto, Top
  <1> HIDE DEF g
  <1>4. /\ AfterTop(notes).known \subseteq g.known
        /\ g.cur \in AfterTop(notes).cur /\ g.pcur \in AfterTop(notes).pcur
    BY <1>1, <1>2, AfterPlain DEF FrameNoted
  <1> QED
    BY <1>2, <1>3, <1>4, TopGoesOn

\* It goes on at the next instruction, with other objects in use.
LEMMA UseNoted ==
  ASSUME Verified(fb), NEW notes, NotesHold(notes), frames # <<>>,
         Op \notin {"JUMP", "RETURN", "ENDOFCODE"},
         NEW cur, NEW idx, NEW pcur, NEW pidx, NEW written,
         AfterTop(notes).known \subseteq NoteOf(notes, Top).known \cup written,
         cur \in AfterTop(notes).cur, pcur \in AfterTop(notes).pcur,
         Use(cur, idx, pcur, pidx, written), UNCHANGED <<script, fb>>
  PROVE  NotesHold(notes)'
  <1> DEFINE g == [Top EXCEPT !.pc = NextPc, !.cur = cur, !.idx = idx, !.pcur = pcur,
                              !.pidx = pidx, !.known = @ \cup written]
  <1>1. FrameNoted(notes, Top) /\ NoteOf(notes, Top).known \subseteq Top.known
    BY AtNote
  <1>2. /\ DOMAIN g = FrameFields /\ g.fn = Top.fn /\ g.base = Top.base /\ g.pc = NextPc
        /\ g.cur = cur /\ g.pcur = pcur
        /\ g.known = Top.known \cup written
    BY <1>1 DEF FrameNoted, FrameFields
  <1>3. frames' = [frames EXCEPT ![Len(frames)] = g]
    BY DEF Use, Top
  <1> HIDE DEF g
  <1>4. AfterTop(notes).known \subseteq g.known
    BY <1>1, <1>2
  <1>5. NextPc \in Successors(CodeOf(Top), Top.pc)
    BY NextIsSuccessor
  <1> QED
    BY <1>2, <1>3, <1>4, <1>5, TopGoesOn

\* Registers are only written where the notes say so, by an instruction that
\* writes one register.
LEMMA WriteNoted ==
  ASSUME Verified(fb), NEW notes, NotesHold(notes), frames # <<>>,
         \/ Op \in BinaryOps \cup {"BIT_INV", "LOAD_REG_INT", "MOVE_REG_REG"} /\ Goto(NextPc, {Byte(1)})
         \/ Op = "EXT_CALL" /\ Goto(NextPc, {Byte(3)}),
         UNCHANGED <<script, fb>>
  PROVE  NotesHold(notes)'
  <1>1. Op = Opcode(CodeOf(Top)[Top.pc + 1])
    BY AtNote
  <1>2. PICK written : /\ Goto(NextPc, written)
                       /\ Writes(CodeOf(Top), Top.pc) = written
    <2>1. CASE Op \in BinaryOps \cup {"BIT_INV", "LOAD_REG_INT", "MOVE_REG_REG"}
      <3>1. Writes(CodeOf(Top), Top.pc) = {Byte(1)}
        BY <1>1, <2>1 DEF Writes, Byte, BinaryOps
      <3>2. Op # "EXT_CALL"
        BY <2>1 DEF BinaryOps
      <3> QED
        BY <3>1, <3>2
    <2>2. CASE Op = "EXT_CALL"
      <3>1. Writes(CodeOf(Top), Top.pc) = {Byte(3)}
        BY <1>1, <2>2 DEF Writes, Byte, BinaryOps
      <3>2. Op \notin BinaryOps \cup {"BIT_INV", "LOAD_REG_INT", "MOVE_REG_REG"}
        BY <2>2 DEF BinaryOps
      <3> QED
        BY <3>1, <3>2
    <2> QED
      BY <2>1, <2>2
  <1>3. Op \notin {"INT_CALL", "FIELD_GET_INT_REG", "FIELD_PUSH", "FIELD_POP", "FIELD_USE_INT",
                   "FIELD_SET_INT_REG", "JUMP", "RETURN", "ENDOFCODE"}
    BY DEF BinaryOps
  <1>4. NextPc \in Successors(CodeOf(Top), Top.pc)
    BY <1>3, NextIsSuccessor
  <1> QED
    BY <1>2, <1>3, <1>4, GotoNoted

\* A jump, taken or not, and an instruction without effect write nothing.
LEMMA JumpNoted ==
  ASSUME Verified(fb), NEW notes, NotesHold(notes), frames # <<>>,
         Op \in {"NOP", "JUMP", "JUMP_ZERO", "JUMP_NZERO"},
         NEW q \in Successors(CodeOf(Top), Top.pc), Goto(q, {}),
         UNCHANGED <<script, fb>>
  PROVE  NotesHold(notes)'
  <1>1. Op = Opcode(CodeOf(Top)[Top.pc + 1])
    BY AtNote
  <1>2. Writes(CodeOf(Top), Top.pc) = {}
    BY <1>1 DEF Writes, BinaryOps
  <1> QED
    BY <1>2, GotoNoted

\* The objects in use change as the notes say, and a field that is read is
\* written to a register.
LEMMA FieldNoted ==
  ASSUME Verified(fb), NEW notes, NotesHold(notes), frames # <<>>,
         DOMAIN fields = FieldsOf(script),
         FieldPush \/ FieldPop \/ FieldUse \/ FieldIdx \/ FieldSet \/ FieldGet
  PROVE  NotesHold(notes)'
  <1>0. /\ Op = Opcode(CodeOf(Top)[Top.pc + 1]) /\ FrameNoted(notes, Top)
    BY AtNote
  <1>1. Top.cur \in NoteOf(notes, Top).cur /\ Top.pcur \in NoteOf(notes, Top).pcur
    BY <1>0 DEF FrameNoted
  <1>2. UNCHANGED <<script, fb>>
    BY DEF FieldPush, FieldPop, FieldUse, FieldIdx, FieldSet, FieldGet, world
  <1>3. CASE FieldPush
    <2>1. Op = "FIELD_PUSH" /\ Use(ScriptNode, Top.idx, Top.cur, Top.idx, {})
      BY <1>3 DEF FieldPush, Running
    <2>2. /\ AfterTop(notes).known \subseteq NoteOf(notes, Top).known \cup {}
          /\ ScriptNode \in AfterTop(notes).cur
          /\ AfterTop(notes).pcur = NoteOf(notes, Top).cur
      BY <1>0, <2>1 DEF AfterTop, After, Writes, BinaryOps
    <2> QED
      BY <1>1, <1>2, <2>1, <2>2, UseNoted
  <1>4. CASE FieldPop
    <2>1. Op = "FIELD_POP" /\ Use(Top.pcur, Top.pidx, Top.pcur, Top.pidx, {})
      BY <1>4 DEF FieldPop, Running
    <2>2. /\ AfterTop(notes).known \subseteq NoteOf(notes, Top).known \cup {}
          /\ AfterTop(notes).cur = NoteOf(notes, Top).pcur
          /\ AfterTop(notes).pcur = NoteOf(notes, Top).pcur
      BY <1>0, <2>1 DEF AfterTop, After, Writes, BinaryOps
    <2> QED
      BY <1>1, <1>2, <2>1, <2>2, UseNoted
  <1>5. CASE FieldUse
    <2>1. /\ Op = "FIELD_USE_INT"
          /\ Use(Used(script, Top.cur, Byte(1)), Top.idx, Top.pcur, Top.pidx, {})
      BY <1>5 DEF FieldUse, Running
    <2>2. /\ AfterTop(notes).known \subseteq NoteOf(notes, Top).known \cup {}
          /\ AfterTop(notes).cur = {Used(script, c, Byte(1)) : c \in NoteOf(notes, Top).cur}
          /\ AfterTop(notes).pcur = NoteOf(notes, Top).pcur
      BY <1>0, <2>1 DEF AfterTop, After, Writes, BinaryOps, Byte
    <2>3. Used(script, Top.cur, Byte(1)) \in AfterTop(notes).cur
      BY <1>1, <2>2
    <2> QED
      BY <1>1, <1>2, <2>1, <2>2, <2>3, UseNoted
  <1>6. CASE FieldIdx
    <2>1. Op = "FIELD_IDX_REG" /\ Use(Top.cur, Reg(Byte(1)), Top.pcur, Top.pidx, {})
      BY <1>6 DEF FieldIdx, Running
    <2>2. /\ AfterTop(notes).known \subseteq NoteOf(notes, Top).known \cup {}
          /\ AfterTop(notes).cur = NoteOf(notes, Top).cur
          /\ AfterTop(notes).pcur = NoteOf(notes, Top).pcur
      BY <1>0, <2>1 DEF AfterTop, After, Writes, BinaryOps
    <2> QED
      BY <1>1, <1>2, <2>1, <2>2, UseNoted
  <1>7. CASE FieldSet
    <2>1. Op = "FIELD_SET_INT_REG" /\ Use(ScriptNode, -1, Top.pcur, Top.pidx, {})
      BY <1>7 DEF FieldSet, Running
    <2>2. /\ AfterTop(notes).known \subseteq NoteOf(notes, Top).known \cup {}
          /\ ScriptNode \in AfterTop(notes).cur
          /\ AfterTop(notes).pcur = NoteOf(notes, Top).pcur
      BY <1>0, <2>1 DEF AfterTop, After, Writes, BinaryOps
    <2> QED
      BY <1>1, <1>2, <2>1, <2>2, UseNoted
  <1>8. CASE FieldGet
    <2>1. PICK written :
            /\ written = IF Top.cur \in DOMAIN fields THEN {Byte(2)} ELSE {}
            /\ Op = "FIELD_GET_INT_REG"
            /\ Use(ScriptNode, -1, Top.pcur, Top.pidx, written)
      BY <1>8 DEF FieldGet, Running
    <2>2. /\ ScriptNode \in AfterTop(notes).cur
          /\ AfterTop(notes).pcur = NoteOf(notes, Top).pcur
          /\ AfterTop(notes).known = IF NoteOf(notes, Top).cur \subseteq FieldsOf(script)
                                     THEN NoteOf(notes, Top).known \cup {Byte(2)}
                                     ELSE NoteOf(notes, Top).known
      BY <1>0, <2>1 DEF AfterTop, After, Writes, BinaryOps, Byte
    <2>3. NoteOf(notes, Top).cur \subseteq FieldsOf(script) => written = {Byte(2)}
      BY <1>1, <2>1
    <2>4. AfterTop(notes).known \subseteq NoteOf(notes, Top).known \cup written
      BY <2>2, <2>3
    <2> QED
      BY <1>1, <1>2, <2>1, <2>2, <2>4, UseNoted
  <1> QED
    BY <1>3, <1>4, <1>5, <1>6, <1>7, <1>8

-------------------------------------------------------------------------------
(* Calls and their ends *)

\* A function starts with what its notes say, if it is given as much.
LEMMA StartNoted ==
  ASSUME Verified(fb), NEW notes, Noted(script, fb, notes),
         NEW fn \in DOMAIN fb.functions, NEW base \in Nat, NEW len, NEW known,
         notes.at[fn][0].known \subseteq known
  PROVE  /\ FrameNoted(notes, Frame(fn, base, len, known))
         /\ NoteOf(notes, Frame(fn, base, len, known)).known \subseteq known
         /\ Frame(fn, base, len, known).known = known
  <1> DEFINE g == Frame(fn, base, len, known)
  <1>1. /\ DOMAIN g = FrameFields /\ g.fn = fn /\ g.pc = 0 /\ g.base = base
        /\ g.cur = ScriptNode /\ g.pcur = Nothing /\ g.known = known
    BY DEF Frame, FrameFields
  <1>2. 0 \in fb.functions[fn].starts
    BY DEF Verified
  <1>3. ScriptNode \in notes.at[fn][0].cur /\ Nothing \in notes.at[fn][0].pcur
    BY DEF Noted
  <1> HIDE DEF g
  <1>4. FrameNoted(notes, g) /\ NoteOf(notes, g).known \subseteq known
    BY <1>1, <1>2, <1>3 DEF FrameNoted, NoteOf
  <1> QED
    BY <1>1, <1>4 DEF g

\* The only call is at the start of a function.
LEMMA OnlyCallNoted ==
  ASSUME Verified(fb), NEW notes, Noted(script, fb, notes),
         NEW fn \in DOMAIN fb.functions, NEW len, NEW known,
         notes.at[fn][0].known \subseteq known, NEW s, s = <<Frame(fn, 0, len, known)>>
  PROVE  /\ s \in Seq(Elements(s))
         /\ \A k \in 1 .. Len(s) : /\ FrameNoted(notes, s[k])
                                   /\ NoteOf(notes, s[k]).known \subseteq s[k].known
  <1>1. PICK g : g = Frame(fn, 0, len, known)
    OBVIOUS
  <1>2. /\ FrameNoted(notes, g) /\ NoteOf(notes, g).known \subseteq g.known
    BY <1>1, StartNoted
  <1>3. s \in [1 .. 1 -> {g}] /\ Len(s) = 1 /\ s[1] = g
    BY <1>1
  <1>4. s \in Seq(Elements(s))
    BY <1>3, FunctionIsSequence
  <1> QED
    BY <1>2, <1>3, <1>4

\* The call of the function of a field is given its value.
LEMMA InvokeNoted ==
  ASSUME Verified(fb), NEW notes, Noted(script, fb, notes),
         NEW n, NEW value, hasFunction(n), n \in FieldsOf(script), Invoke(n, value),
         UNCHANGED <<script, fb>>
  PROVE  NotesHold(notes)'
  <1>1. n \in DOMAIN fb.functions /\ notes.at[n][0].known \subseteq {0}
    BY DEF hasFunction, Noted
  <1>2. PICK s : s = frames' /\ s = <<Frame(n, 0, Cardinality(DOMAIN regs), {0})>>
    BY DEF Invoke
  <1>3. /\ s \in Seq(Elements(s))
        /\ \A k \in 1 .. Len(s) : /\ FrameNoted(notes, s[k])
                                  /\ NoteOf(notes, s[k]).known \subseteq s[k].known
    BY <1>1, <1>2, OnlyCallNoted
  <1>4. FramesNoted(notes)'
    BY <1>2, <1>3 DEF FramesNoted, FrameNoted, NoteOf, Elements
  <1> QED
    BY <1>4 DEF NotesHold

\* A call: the function gets the registers its caller knows from the first
\* parameter on, and the caller keeps those below it.
LEMMA IntCallNoted ==
  ASSUME Verified(fb), NEW notes, NotesHold(notes), IntCall
  PROVE  NotesHold(notes)'
  <1>0. frames # <<>> /\ Op = "INT_CALL" /\ UNCHANGED <<script, fb>>
    BY DEF IntCall, Running, world
  <1>1. /\ FrameNoted(notes, Top) /\ NoteOf(notes, Top).known \subseteq Top.known
        /\ VerifiedAt(fb, fb.functions[Top.fn], Top.pc)
        /\ NotedAt(script, fb, notes, Top.fn, Top.pc) /\ NoteOf(notes, Top).cur # {}
        /\ CodeOf(Top) \in Seq(Nat) /\ Top.pc \in Nat
        /\ Op = Opcode(CodeOf(Top)[Top.pc + 1])
    BY <1>0, AtNote
  <1>2. Byte(1) \in DOMAIN fb.functions /\ Byte(2) \in Nat
    <2>1. Operands(Op) = 2
      BY <1>0 DEF Operands, BinaryOps
    <2>2. Len(CodeOf(Top)) \in Nat /\ Top.pc + 1 + 2 <= Len(CodeOf(Top))
      BY <1>1, <2>1, LenProperties DEF VerifiedAt, CodeOf
    <2>3. Byte(2) \in Nat
      BY <1>1, <2>2, OperandIsNumber DEF Byte
    <2> QED
      BY <1>0, <1>1, <2>3 DEF VerifiedAt, Byte, CodeOf
  <1>3. PICK b \in Nat : b = Byte(2)
    BY <1>2
  <1>4. PICK fn \in DOMAIN fb.functions : fn = Byte(1)
    BY <1>2
  <1> DEFINE caller == [Top EXCEPT !.pc = NextPc, !.known = {k \in @ : k < b}]
             back == [frames EXCEPT ![Len(frames)] = caller]
  <1>5. PICK nl : frames' = Append(back, Frame(fn, Top.base + b, nl, Params(Top.known, b)))
    BY <1>3, <1>4 DEF IntCall, hasFunction, Top
  <1>6. PICK g : g = Frame(fn, Top.base + b, nl, Params(Top.known, b))
    OBVIOUS
  <1>7. Top.base \in Nat
    BY <1>1 DEF FrameNoted
  <1>8. /\ FrameNoted(notes, g)
        /\ NoteOf(notes, g).known \subseteq g.known
        /\ g.fn = fn /\ g.base = Top.base + b
    <2>1. notes.at[fn][0].known \subseteq Params(NoteOf(notes, Top).known, b)
      BY <1>0, <1>1, <1>3, <1>4 DEF NotedAt, NoteOf, Byte, CodeOf
    <2>2. Params(NoteOf(notes, Top).known, b) \subseteq Params(Top.known, b)
      BY <1>1 DEF Params
    <2>3. notes.at[fn][0].known \subseteq Params(Top.known, b) /\ Top.base + b \in Nat
      BY <1>7, <2>1, <2>2
    <2>4. Noted(script, fb, notes)
      BY DEF NotesHold
    <2>5. /\ FrameNoted(notes, g) /\ NoteOf(notes, g).known \subseteq g.known
      BY <1>6, <2>3, <2>4, StartNoted
    <2>6. g.fn = fn /\ g.base = Top.base + b
      BY <1>6 DEF Frame
    <2> QED
      BY <2>5, <2>6
  <1>9. /\ DOMAIN caller = FrameFields /\ caller.fn = Top.fn /\ caller.base = Top.base
        /\ caller.pc = NextPc /\ caller.cur = Top.cur /\ caller.pcur = Top.pcur
        /\ caller.known = {k \in Top.known : k < b}
    BY <1>1 DEF FrameNoted, FrameFields
  <1> HIDE DEF caller
  <1>10. /\ FrameNoted(notes, caller)
         /\ NoteOf(notes, caller).known \subseteq caller.known \cup {k \in {b} : fn \in notes.returns}
    <2>1. /\ NextPc \in fb.functions[Top.fn].starts
          /\ Weaker(notes.at[Top.fn][NextPc], AfterTop(notes))
      BY <1>0, NextIsSuccessor, NextNote
    <2>2. /\ AfterTop(notes).known = {k \in NoteOf(notes, Top).known : k < b}
                                     \cup {k \in {b} : fn \in notes.returns}
          /\ AfterTop(notes).cur = NoteOf(notes, Top).cur
          /\ AfterTop(notes).pcur = NoteOf(notes, Top).pcur
      BY <1>0, <1>1, <1>3, <1>4 DEF AfterTop, After, Byte
    <2>3. FrameNoted(notes, caller)
      BY <1>1, <1>9, <2>1, <2>2 DEF FrameNoted, NoteOf, Weaker
    <2>4. NoteOf(notes, caller).known \subseteq AfterTop(notes).known
      BY <1>9, <2>1 DEF NoteOf, Weaker
    <2> QED
      BY <1>1, <1>9, <2>2, <2>3, <2>4
  <1>11. PICK n \in Nat : n = Len(frames) /\ n >= 1
    BY <1>0 DEF NotesHold, FramesNoted
  <1>12. /\ frames' \in Seq(Elements(frames')) /\ Len(frames') = n + 1
         /\ frames'[n + 1] = g /\ frames'[n] = caller
         /\ \A k \in 1 .. n - 1 : frames'[k] = frames[k]
    <2>1. DOMAIN frames = 1 .. n /\ frames \in [1 .. n -> Elements(frames)]
      BY <1>11 DEF NotesHold, FramesNoted
    <2>2. back \in [1 .. n -> Elements(frames) \cup {caller}]
      BY <1>11, <2>1
    <2>3. back \in Seq(Elements(back)) /\ Len(back) = n
      BY <2>2, FunctionIsSequence
    <2>4. back[n] = caller /\ \A k \in 1 .. n - 1 : back[k] = frames[k]
      BY <1>11, <2>1
    <2> HIDE DEF back
    <2>5. PICK t : t = frames' /\ t = Append(back, g)
      BY <1>5, <1>6
    <2>6. /\ t \in Seq(Elements(back) \cup {g}) /\ Len(t) = n + 1 /\ t[n + 1] = g
          /\ \A k \in 1 .. n : t[k] = back[k]
      BY <2>3, <2>5, AddTop
    <2>7. t \in Seq(Elements(t))
      BY <2>6, SequenceOfElements
    <2> QED
      BY <1>11, <2>4, <2>5, <2>6, <2>7
  <1>13. ASSUME NEW k \in 1 .. n + 1
         PROVE  /\ FrameNoted(notes, frames'[k])
                /\ NoteOf(notes, frames'[k]).known \subseteq frames'[k].known \cup Awaited(notes, k)'
    <2>1. CASE k = n + 1
      BY <1>8, <1>12, <2>1
    <2>2. CASE k = n
      <3>1. k < n + 1
        BY <2>2
      <3>2. frames'[k + 1] = g /\ frames'[k] = caller
        BY <1>12, <2>2
      <3>3. g.base - caller.base = b
        BY <1>3, <1>7, <1>8, <1>9
      <3>4. Awaited(notes, k)' = IF fn \in notes.returns THEN {b} ELSE {}
        BY <1>8, <1>12, <3>1, <3>2, <3>3 DEF Awaited
      <3> QED
        BY <1>10, <3>2, <3>4
    <2>3. CASE k \in 1 .. n - 1
      <3>1. k \in 1 .. n /\ k < n /\ k < n + 1 /\ k + 1 \in 1 .. n
        BY <2>3
      <3>2. frames'[k] = frames[k]
        BY <1>12, <2>3
      <3>3. frames'[k + 1].fn = frames[k + 1].fn /\ frames'[k + 1].base = frames[k + 1].base
        <4>1. CASE k + 1 = n
          BY <1>9, <1>11, <1>12, <4>1 DEF Top
        <4>2. CASE k + 1 # n
          <5>1. k + 1 \in 1 .. n - 1
            BY <3>1, <4>2
          <5> QED
            BY <1>12, <5>1
        <4> QED
          BY <4>1, <4>2
      <3>4. Awaited(notes, k)' = Awaited(notes, k)
        BY <1>11, <1>12, <3>1, <3>2, <3>3 DEF Awaited
      <3>5. /\ FrameNoted(notes, frames[k])
            /\ NoteOf(notes, frames[k]).known \subseteq frames[k].known \cup Awaited(notes, k)
        BY <1>11, <3>1 DEF NotesHold, FramesNoted
      <3> QED
        BY <3>2, <3>4, <3>5
    <2>4. k = n + 1 \/ k = n \/ k \in 1 .. n - 1
      OBVIOUS
    <2> QED
      BY <2>1, <2>2, <2>3, <2>4
  <1>14. FramesNoted(notes)'
    BY <1>0, <1>12, <1>13 DEF FramesNoted, FrameNoted, NoteOf, Elements
  <1> QED
    BY <1>0, <1>14 DEF NotesHold

\* The end of a call: the caller gets the result it waits for.
LEMMA PopNoted ==
  ASSUME Verified(fb), NEW notes, NotesHold(notes), frames # <<>>,
         NEW result \in BOOLEAN, Top.fn \in notes.returns => result, Pop(result),
         UNCHANGED <<script, fb>>
  PROVE  NotesHold(notes)'
  <1>1. PICK n \in Nat : n = Len(frames) - 1
    BY DEF NotesHold, FramesNoted
  <1>2. /\ Len(frames) = n + 1 /\ DOMAIN frames = 1 .. n + 1
        /\ frames \in [1 .. n + 1 -> Elements(frames)]
    BY <1>1 DEF NotesHold, FramesNoted
  <1>3. FramesNoted(notes)'
    <2>1. CASE n = 0
      <3>1. frames' = <<>>
        BY <1>1, <2>1 DEF Pop
      <3> QED
        BY <3>1 DEF FramesNoted
    <2>2. CASE n # 0
      <3> DEFINE got == IF result THEN {Top.base - frames[n].base} ELSE {}
                 g == [frames[n] EXCEPT !.known = @ \cup got]
      <3>1. n \in 1 .. n + 1 /\ n < n + 1
        BY <2>2
      <3>2. /\ FrameNoted(notes, frames[n])
            /\ NoteOf(notes, frames[n]).known \subseteq frames[n].known \cup Awaited(notes, n)
        BY <1>2, <3>1 DEF NotesHold, FramesNoted
      <3>3. Awaited(notes, n) \subseteq got
        BY <1>2, <3>1 DEF Awaited, Top
      <3>4. /\ DOMAIN g = FrameFields /\ g.fn = frames[n].fn /\ g.base = frames[n].base
            /\ g.pc = frames[n].pc /\ g.cur = frames[n].cur /\ g.pcur = frames[n].pcur
            /\ g.known = frames[n].known \cup got
        BY <3>2 DEF FrameNoted, FrameFields
      <3>5. frames' = [k \in 1 .. n |-> IF k < n THEN frames[k] ELSE g]
        BY <1>1, <2>2 DEF Pop
      <3> HIDE DEF g, got
      <3>6. FrameNoted(notes, g) /\ NoteOf(notes, g).known \subseteq g.known
        BY <3>2, <3>3, <3>4 DEF FrameNoted, NoteOf
      <3>7. frames' \in [1 .. n -> Elements(frames) \cup {g}]
        BY <1>2, <3>1, <3>5
      <3>8. frames' \in Seq(Elements(frames')) /\ Len(frames') = n
        BY <3>7, FunctionIsSequence
      <3>9. ASSUME NEW k \in 1 .. n
            PROVE  /\ FrameNoted(notes, frames'[k])
                   /\ NoteOf(notes, frames'[k]).known
                        \subseteq frames'[k].known \cup Awaited(notes, k)'
        <4>1. CASE k = n
          BY <3>5, <3>6, <4>1
        <4>2. CASE k # n
          <5>1. k < n /\ k + 1 \in 1 .. n /\ k \in 1 .. n + 1 /\ k < n + 1
            BY <4>2
          <5>2. frames'[k] = frames[k]
            BY <3>5, <5>1
          <5>3. frames'[k + 1].fn = frames[k + 1].fn /\ frames'[k + 1].base = frames[k + 1].base
            BY <3>4, <3>5, <5>1
          <5>4. Awaited(notes, k)' = Awaited(notes, k)
            BY <1>2, <3>8, <5>1, <5>2, <5>3 DEF Awaited
          <5>5. /\ FrameNoted(notes, frames[k])
                /\ NoteOf(notes, frames[k]).known \subseteq frames[k].known \cup Awaited(notes, k)
            BY <1>2, <5>1 DEF NotesHold, FramesNoted
          <5> QED
            BY <5>2, <5>4, <5>5
        <4> QED
          BY <4>1, <4>2
      <3> QED
        BY <3>8, <3>9 DEF FramesNoted, FrameNoted, NoteOf, Elements
    <2> QED
      BY <2>1, <2>2
  <1> QED
    BY <1>3 DEF NotesHold

\* One more postponed call of the function of a field.
LEMMA PostedOfFields ==
  ASSUME CallsOfFields, NEW n, hasFunction(n), n \in FieldsOf(script),
         posted' = Append(posted, n), UNCHANGED <<script, fb, todo>>
  PROVE  CallsOfFields'
  <1>1. PICK S : posted \in Seq(S)
    BY DEF CallsOfFields
  <1>2. PICK T : T = S \cup {n}
    OBVIOUS
  <1>3. posted \in Seq(T) /\ n \in T
    BY <1>1, <1>2
  <1>4. /\ posted' \in Seq(T)
        /\ Len(posted') = Len(posted) + 1 /\ Len(posted) \in Nat
        /\ posted'[Len(posted) + 1] = n
        /\ \A k \in 1 .. Len(posted) : posted'[k] = posted[k]
    BY <1>3
  <1>5. \A k \in 1 .. Len(posted') : hasFunction(posted'[k]) /\ posted'[k] \in FieldsOf(script)
    BY <1>4 DEF CallsOfFields, hasFunction
  <1> QED
    BY <1>4, <1>5 DEF CallsOfFields, hasFunction

-------------------------------------------------------------------------------
(* The invariant *)

LEMMA InitOwnInv == ASSUME AssumedNoted, Init PROVE OwnInv
  <1>1. script \in Scripts /\ fb = Banks[script]
    BY DEF Init
  <1>2. Verified(fb)
    BY <1>1 DEF AssumedNoted
  <1>3. PICK notes : Noted(script, fb, notes)
    BY <1>1 DEF AssumedNoted
  <1>4. DOMAIN fields = FieldsOf(script) /\ CallsOfFields
    BY DEF Init, CallsOfFields
  <1>5. FramesNoted(notes)
    <2>1. CASE hasFunction(0)
      <3>1. 0 \in DOMAIN fb.functions /\ notes.at[0][0].known \subseteq {}
        BY <1>3, <2>1 DEF hasFunction, Noted
      <3>2. PICK s : s = frames /\ s = <<Frame(0, 0, 2 * fb.maxRegisters, {})>>
        BY <2>1 DEF Init
      <3>3. /\ s \in Seq(Elements(s))
            /\ \A k \in 1 .. Len(s) : /\ FrameNoted(notes, s[k])
                                      /\ NoteOf(notes, s[k]).known \subseteq s[k].known
        BY <1>2, <1>3, <3>1, <3>2, OnlyCallNoted
      <3> QED
        BY <3>2, <3>3 DEF FramesNoted
    <2>2. CASE ~hasFunction(0)
      BY <2>2 DEF Init, FramesNoted
    <2> QED
      BY <2>1, <2>2
  <1> QED
    BY <1>1, <1>2, <1>3, <1>4, <1>5 DEF OwnInv, NotesHold

\* A step that leaves the calls on the stack as they are.
LEMMA StackStays ==
  ASSUME NEW notes, NotesHold(notes), UNCHANGED <<script, fb, frames>>
  PROVE  NotesHold(notes)'
  BY DEF NotesHold, FramesNoted, FrameNoted, NoteOf, Awaited, Elements

\* A step of the innermost call, or its start.
LEMMA InstructionNoted ==
  ASSUME Verified(fb), NEW notes, NotesHold(notes), DOMAIN fields = FieldsOf(script),
         Instruction
  PROVE  NotesHold(notes)'
  <1>1. UNCHANGED <<script, fb>>
    BY DEF Instruction, Nop, LoadInt, Move, Invert, Operate, JumpAlways, JumpZero, JumpNZero,
           ExtCall, IntCall, ReturnValue, EndOfCode, FieldPush, FieldPop, FieldUse, FieldIdx,
           FieldSet, FieldGet, OutOfBounds, ArrayTooLong, Throw, Write, Jump, world
  <1>2. CASE LoadInt \/ Move \/ Invert \/ Operate \/ ExtCall
    <2>1. /\ frames # <<>>
          /\ \/ Op \in BinaryOps \cup {"BIT_INV", "LOAD_REG_INT", "MOVE_REG_REG"}
                /\ Goto(NextPc, {Byte(1)})
             \/ Op = "EXT_CALL" /\ Goto(NextPc, {Byte(3)})
      BY <1>2 DEF LoadInt, Move, Invert, Operate, ExtCall, Running, Write
    <2> QED
      BY <1>1, <2>1, WriteNoted
  <1>3. CASE Nop \/ JumpAlways \/ JumpZero \/ JumpNZero
    <2>1. frames # <<>> /\ Op \in {"NOP", "JUMP", "JUMP_ZERO", "JUMP_NZERO"}
      BY <1>3 DEF Nop, JumpAlways, JumpZero, JumpNZero, Running
    <2>2. /\ Op # "JUMP" => NextPc \in Successors(CodeOf(Top), Top.pc)
          /\ Op = "JUMP" => Target(1) \in Successors(CodeOf(Top), Top.pc)
          /\ Op \in {"JUMP_ZERO", "JUMP_NZERO"} =>
               Target(2) \in Successors(CodeOf(Top), Top.pc)
      BY <2>1, NextIsSuccessor, TargetIsSuccessor
    <2>3. \E q \in Successors(CodeOf(Top), Top.pc) : Goto(q, {})
      BY <1>3, <2>2 DEF Nop, JumpAlways, JumpZero, JumpNZero, Running, Jump
    <2> QED
      BY <1>1, <2>1, <2>3, JumpNoted
  <1>4. CASE IntCall
    BY <1>4, IntCallNoted
  <1>5. CASE ReturnValue
    BY <1>1, <1>5, PopNoted DEF ReturnValue, Running
  <1>6. CASE EndOfCode
    <2>1. frames # <<>> /\ Op = "ENDOFCODE" /\ Pop(0 \in Top.known)
      BY <1>6 DEF EndOfCode, Running
    <2>2. /\ NotedAt(script, fb, notes, Top.fn, Top.pc) /\ NoteOf(notes, Top).cur # {}
          /\ NoteOf(notes, Top).known \subseteq Top.known
          /\ Op = Opcode(CodeOf(Top)[Top.pc + 1])
      BY <2>1, AtNote
    <2>3. Top.fn \in notes.returns => 0 \in Top.known
      BY <2>1, <2>2 DEF NotedAt, NoteOf, CodeOf
    <2>4. CASE 0 \in Top.known
      <3>1. Pop(TRUE)
        BY <2>1, <2>4 DEF Pop
      <3> QED
        BY <1>1, <2>1, <3>1, PopNoted
    <2>5. CASE 0 \notin Top.known
      <3>1. Pop(FALSE)
        BY <2>1, <2>5 DEF Pop
      <3> QED
        BY <1>1, <2>1, <2>3, <2>5, <3>1, PopNoted
    <2> QED
      BY <2>4, <2>5
  <1>7. CASE FieldPush \/ FieldPop \/ FieldUse \/ FieldIdx \/ FieldSet \/ FieldGet
    <2>1. frames # <<>>
      BY <1>7 DEF FieldPush, FieldPop, FieldUse, FieldIdx, FieldSet, FieldGet, Running
    <2> QED
      BY <1>7, <2>1, FieldNoted
  <1>8. CASE OutOfBounds \/ ArrayTooLong
    <2>1. frames' = <<>>
      BY <1>8 DEF OutOfBounds, ArrayTooLong, Throw
    <2> QED
      BY <1>1, <2>1 DEF NotesHold, FramesNoted
  <1> QED
    BY <1>2, <1>3, <1>4, <1>5, <1>6, <1>7, <1>8 DEF Instruction

\* Instructions write the fields there are, and postpone only calls of theirs.
LEMMA InstructionCalls ==
  ASSUME DOMAIN fields = FieldsOf(script), CallsOfFields, Instruction
  PROVE  DOMAIN fields' = DOMAIN fields /\ script' = script /\ CallsOfFields'
  <1>1. CASE FieldSet
    <2>1. /\ UNCHANGED <<script, fb, todo>> /\ DOMAIN fields' = DOMAIN fields
          /\ \/ posted' = posted
             \/ /\ hasFunction(Top.cur) /\ Top.cur \in FieldsOf(script)
                /\ posted' = Append(posted, Top.cur)
      BY <1>1 DEF FieldSet, world, FieldsOf
    <2>2. CASE posted' = posted
      BY <2>1, <2>2 DEF CallsOfFields, hasFunction
    <2>3. CASE posted' = Append(posted, Top.cur) /\ hasFunction(Top.cur)
               /\ Top.cur \in FieldsOf(script)
      BY <2>1, <2>3, PostedOfFields
    <2> QED
      BY <2>1, <2>2, <2>3
  <1>2. CASE OutOfBounds \/ ArrayTooLong
    <2>1. UNCHANGED <<script, fb, fields, posted>> /\ todo' = <<>>
      BY <1>2 DEF OutOfBounds, ArrayTooLong, Throw
    <2> QED
      BY <2>1 DEF CallsOfFields, hasFunction
  <1>3. CASE UNCHANGED <<script, fb, fields, posted, todo>>
    BY <1>3 DEF CallsOfFields, hasFunction
  <1> QED
    BY <1>1, <1>2, <1>3 DEF Instruction, Nop, LoadInt, Move, Invert, Operate, JumpAlways,
       JumpZero, JumpNZero, ExtCall, IntCall, ReturnValue, EndOfCode, FieldPush, FieldPop,
       FieldUse, FieldIdx, FieldGet, Write, Jump, world

LEMMA FieldChangedOwn ==
  ASSUME OwnInv, NEW n \in Routed[script], NEW value, FieldChanged(n, value)
  PROVE  OwnInv'
  <1>1. UNCHANGED <<script, fb, todo>> /\ DOMAIN fields' = DOMAIN fields
    BY DEF FieldChanged
  <1>2. n \in FieldsOf(script)
    BY RoutedFields DEF OwnInv, FieldsOf
  <1>3. PICK notes : NotesHold(notes)
    BY DEF OwnInv
  <1>4. NotesHold(notes)'
    <2>1. CASE hasFunction(n) /\ Invoke(n, value)
      BY <1>1, <1>2, <1>3, <2>1, InvokeNoted DEF OwnInv, NotesHold
    <2>2. CASE frames' = frames
      BY <1>1, <1>3, <2>2, StackStays
    <2> QED
      BY <2>1, <2>2 DEF FieldChanged
  <1>5. CallsOfFields'
    <2>1. CASE posted' = posted
      BY <1>1, <2>1 DEF OwnInv, CallsOfFields, hasFunction
    <2>2. CASE hasFunction(n) /\ posted' = Append(posted, n)
      BY <1>1, <1>2, <2>2, PostedOfFields DEF OwnInv
    <2> QED
      BY <2>1, <2>2 DEF FieldChanged
  <1> QED
    BY <1>1, <1>4, <1>5 DEF OwnInv, Verified

LEMMA PostponedOwn == ASSUME OwnInv, invokePostponedCalls PROVE OwnInv'
  <1> DEFINE calls == posted \o todo
  <1>1. UNCHANGED <<script, fb, fields>> /\ posted' = <<>>
    BY DEF invokePostponedCalls
  <1>2. PICK S, T : posted \in Seq(S) /\ todo \in Seq(T)
    BY DEF OwnInv, CallsOfFields
  <1>3. PICK U : U = S \cup T
    OBVIOUS
  <1>4. posted \in Seq(U) /\ todo \in Seq(U)
    BY <1>2, <1>3
  <1>5. /\ calls \in Seq(U)
        /\ Len(calls) = Len(posted) + Len(todo) /\ Len(posted) \in Nat /\ Len(todo) \in Nat
        /\ \A i \in 1 .. Len(posted) + Len(todo) :
             calls[i] = IF i <= Len(posted) THEN posted[i] ELSE todo[i - Len(posted)]
    BY <1>4, ConcatProperties, LenProperties
  <1>6. \A i \in 1 .. Len(calls) : hasFunction(calls[i]) /\ calls[i] \in FieldsOf(script)
    <2> SUFFICES ASSUME NEW i \in 1 .. Len(calls)
                 PROVE  hasFunction(calls[i]) /\ calls[i] \in FieldsOf(script)
      OBVIOUS
    <2>1. CASE i <= Len(posted)
      BY <1>5, <2>1 DEF OwnInv, CallsOfFields
    <2>2. CASE ~(i <= Len(posted))
      <3>1. i - Len(posted) \in 1 .. Len(todo)
        BY <1>5, <2>2
      <3> QED
        BY <1>5, <2>2, <3>1 DEF OwnInv, CallsOfFields
    <2> QED
      BY <2>1, <2>2
  <1> HIDE DEF calls
  <1>7. calls # <<>> /\ Invoke(Head(calls), fields[Head(calls)]) /\ todo' = Tail(calls)
    BY DEF invokePostponedCalls, calls
  <1>8. /\ Head(calls) = calls[1] /\ 1 \in 1 .. Len(calls)
        /\ Tail(calls) \in Seq(U)
        /\ Len(Tail(calls)) = Len(calls) - 1
        /\ \A i \in 1 .. Len(Tail(calls)) : Tail(calls)[i] = calls[i + 1]
    BY <1>5, <1>7
  <1>9. hasFunction(Head(calls)) /\ Head(calls) \in FieldsOf(script)
    BY <1>6, <1>8
  <1>10. \E notes : NotesHold(notes)'
    <2>1. PICK notes : Noted(script, fb, notes)
      BY DEF OwnInv, NotesHold
    <2> QED
      BY <1>1, <1>7, <1>9, <2>1, InvokeNoted DEF OwnInv
  <1>11. CallsOfFields'
    <2>1. \A i \in 1 .. Len(todo') : hasFunction(todo'[i]) /\ todo'[i] \in FieldsOf(script)
      BY <1>5, <1>6, <1>7, <1>8
    <2>2. todo' \in Seq(U) /\ posted' \in Seq(U)
      BY <1>1, <1>7, <1>8
    <2> QED
      BY <1>1, <2>1, <2>2 DEF CallsOfFields, hasFunction
  <1> QED
    BY <1>1, <1>10, <1>11 DEF OwnInv, Verified

LEMMA NextOwnInv == ASSUME OwnInv, [Next]_vars PROVE OwnInv'
  <1>1. CASE Calls
    BY <1>1, FieldChangedOwn DEF Calls
  <1>2. CASE Instruction
    <2>1. DOMAIN fields' = DOMAIN fields /\ script' = script /\ CallsOfFields'
      BY <1>2, InstructionCalls DEF OwnInv
    <2>2. \E notes : NotesHold(notes)'
      BY <1>2, InstructionNoted DEF OwnInv
    <2>3. fb' = fb
      BY BankStays
    <2> QED
      BY <2>1, <2>2, <2>3 DEF OwnInv, Verified
  <1>3. CASE invokePostponedCalls
    BY <1>3, PostponedOwn
  <1>4. CASE Invoked \/ UNCHANGED vars
    <2>1. UNCHANGED <<script, fb, fields, frames, posted, todo>>
      BY <1>4 DEF Invoked, vars
    <2>2. \E notes : NotesHold(notes)'
      BY <2>1, StackStays DEF OwnInv
    <2> QED
      BY <2>1, <2>2 DEF OwnInv, Verified, CallsOfFields, hasFunction
  <1> QED
    BY <1>1, <1>2, <1>3, <1>4 DEF Next, Run

\* No function reads a register with a value of another call, or of an earlier
\* use of the register: it reads only its parameters and what it has written
\* itself, through any depth of calls and with calls postponed in any order
\* (Function.run, Machine.run), provided that the compiler keeps its promise on
\* every path through the functions of a script. No bound on the registers is
\* needed: a call that leaves its array ends before it reads.
THEOREM RegistersAreOwn == ASSUME AssumedNoted PROVE Spec => []ReadsOwnWrites
  <1>1. Init => OwnInv
    BY InitOwnInv
  <1>2. OwnInv /\ [Next]_vars => OwnInv'
    BY NextOwnInv
  <1>3. OwnInv => ReadsOwnWrites
    BY ReadsKnown DEF OwnInv, ReadsOwnWrites
  <1> QED
    BY <1>1, <1>2, <1>3, PTL DEF Spec

-------------------------------------------------------------------------------
(* The types of the state                                                      *)
(*                                                                             *)
(* The argument: every value a register or field gets comes from the scene,    *)
(* from the integers of the bank, or from an operation on registers, which     *)
(* stays an integer of the width (OperationsFit). A register that is read is   *)
(* one of the array, as the array never gets shorter than any that a running   *)
(* function has captured and an instruction beyond it throws. The length of an *)
(* array is an integer of the width as well, for a longer one throws too.      *)
(* No bound on the registers of a function is needed.                          *)

\* What an instruction can use.
Objects == FieldsOf(script) \cup {ScriptNode, Nothing}

\* The single fields with a function: the ones whose calls are postponed.
CalledFields == {n \in SFields[script] : hasFunction(n)}

ArrayTyped(s) == s \in Seq(Int32) /\ Len(s) \in Int32

FieldsTyped ==
  /\ DOMAIN fields = FieldsOf(script)
  /\ \A n \in SFields[script] : fields[n] \in Int32
  /\ \A n \in MFields[script] : ArrayTyped(fields[n])

RegsTyped ==
  /\ threshold \in Nat
  /\ regs \in [0 .. threshold + fb.maxRegisters - 1 -> Int32]

\* A call, when the array has that length.
FrameTyped(f, length) ==
  /\ DOMAIN f = FrameFields
  /\ f.fn \in DOMAIN fb.functions
  /\ f.pc \in fb.functions[f.fn].starts
  /\ f.base \in Nat
  /\ f.len \in Nat /\ f.len <= length
  /\ f.cur \in Objects /\ f.idx \in Int32
  /\ f.pcur \in Objects /\ f.pidx \in Int32
  /\ f.known \subseteq 0 .. 255

FramesTyped ==
  /\ frames \in Seq(Elements(frames))
  /\ \A k \in 1 .. Len(frames) : FrameTyped(frames[k], threshold + fb.maxRegisters)
  /\ \A k \in 1 .. Len(frames) - 1 : frames[k + 1].base - frames[k].base \in 0 .. 255

CallsTyped == posted \in Seq(CalledFields) /\ todo \in Seq(CalledFields)

TypeInv ==
  /\ script \in Scripts /\ fb = Banks[script] /\ Verified(fb)
  /\ FieldsTyped /\ RegsTyped /\ FramesTyped /\ CallsTyped
  /\ frames # <<>> => invoking
  /\ fault \in BOOLEAN

-------------------------------------------------------------------------------
(* The instruction of a call *)

\* Where the innermost call is, and where it can go on.
LEMMA TypedTop ==
  ASSUME TypeInv, frames # <<>>
  PROVE  /\ Len(frames) \in Nat \ {0}
         /\ FrameTyped(Top, threshold + fb.maxRegisters)
         /\ Top.pc \in Nat /\ CodeOf(Top) \in Seq(0 .. 255)
         /\ Op = Opcode(CodeOf(Top)[Top.pc + 1]) /\ Op \in Instructions
         /\ NextPc <= Len(CodeOf(Top))
         /\ Op = "LOAD_REG_INT" => Byte(2) < Len(fb.ints)
         /\ Op \notin {"JUMP", "RETURN", "ENDOFCODE"} => NextPc \in fb.functions[Top.fn].starts
         /\ Op = "JUMP" => Target(1) \in fb.functions[Top.fn].starts
         /\ Op \in {"JUMP_ZERO", "JUMP_NZERO"} => Target(2) \in fb.functions[Top.fn].starts
  <1>1. Len(frames) \in Nat \ {0} /\ Len(frames) \in 1 .. Len(frames)
    BY DEF TypeInv, FramesTyped
  <1>2. FrameTyped(Top, threshold + fb.maxRegisters)
    BY <1>1 DEF TypeInv, FramesTyped, Top
  <1>3. Verified(fb) /\ Top.fn \in DOMAIN fb.functions /\ Top.pc \in fb.functions[Top.fn].starts
    BY <1>2 DEF TypeInv, FrameTyped
  <1>4. /\ VerifiedAt(fb, fb.functions[Top.fn], Top.pc)
        /\ CodeOf(Top) \in Seq(0 .. 255)
        /\ Top.pc \in 0 .. Len(CodeOf(Top)) - 1
    BY <1>3, CodeOfBytes DEF Verified, CodeOf
  <1>5. Top.pc \in Nat /\ Top.pc + 1 + 0 = Top.pc + 1 /\ 1 + 1 = 2 /\ 2 + 1 = 3
    BY <1>4
  <1>6. Op = Opcode(CodeOf(Top)[Top.pc + 1])
    BY <1>5 DEF Op, Byte
  <1>7. Target(1) = 256 * Byte(1) + Byte(2) /\ Target(2) = 256 * Byte(2) + Byte(3)
    BY <1>5 DEF Target
  <1> QED
    BY <1>1, <1>2, <1>4, <1>5, <1>6, <1>7 DEF VerifiedAt, Successors, NextPc, CodeOf, Byte

\* Its operands are bytes.
LEMMA OperandIsByte ==
  ASSUME TypeInv, frames # <<>>, NEW k \in Nat, Operands(Op) \in Nat, k <= Operands(Op)
  PROVE  Byte(k) \in 0 .. 255
  <1>1. PICK code, pc : code = CodeOf(Top) /\ pc = Top.pc
    OBVIOUS
  <1>2. /\ pc \in Nat /\ code \in Seq(0 .. 255)
        /\ pc + 1 + Operands(Op) <= Len(code)
    BY <1>1, TypedTop DEF NextPc
  <1>3. PICK n \in Nat : n = Operands(Op) /\ k <= n
    OBVIOUS
  <1>4. Len(code) \in Nat
    BY <1>2, LenProperties
  <1>5. pc + 1 + k \in 1 .. Len(code)
    BY <1>2, <1>3, <1>4
  <1>6. code[pc + 1 + k] \in 0 .. 255
    BY <1>2, <1>5, ElementOfSeq
  <1> QED
    BY <1>1, <1>6 DEF Byte

LEMMA OneOperand ==
  ASSUME TypeInv, frames # <<>>,
         Op \in {"RETURN", "FIELD_USE_INT", "FIELD_IDX_REG", "BIT_INV"}
  PROVE  Byte(1) \in 0 .. 255
  <1>1. Operands(Op) = 1
    BY DEF Operands, BinaryOps
  <1> QED
    BY <1>1, OperandIsByte

LEMMA TwoOperands ==
  ASSUME TypeInv, frames # <<>>,
         Op \in BinaryOps \cup {"INT_CALL", "LOAD_REG_INT", "MOVE_REG_REG", "FIELD_GET_INT_REG",
                                "FIELD_SET_INT_REG"}
  PROVE  Byte(1) \in 0 .. 255 /\ Byte(2) \in 0 .. 255
  <1>1. Operands(Op) = 2
    BY DEF Operands, BinaryOps
  <1> QED
    BY <1>1, OperandIsByte

LEMMA ThreeOperands ==
  ASSUME TypeInv, frames # <<>>, Op \in {"JUMP_ZERO", "JUMP_NZERO", "EXT_CALL"}
  PROVE  Byte(1) \in 0 .. 255 /\ Byte(3) \in 0 .. 255
  <1>1. Operands(Op) \in Nat /\ 1 <= Operands(Op) /\ 3 <= Operands(Op)
    BY DEF Operands, BinaryOps
  <1>2. 1 \in Nat /\ 3 \in Nat
    OBVIOUS
  <1> QED
    BY <1>1, <1>2, OperandIsByte

\* The registers it reads and writes are in the array.
LEMMA RegisterTyped ==
  ASSUME TypeInv, frames # <<>>, InRegisters, NEW a \in 0 .. 255,
         a \in Reads(CodeOf(Top), Top.pc) \cup Writes(CodeOf(Top), Top.pc)
  PROVE  Reg(a) \in Int32
  <1>1. FrameTyped(Top, threshold + fb.maxRegisters)
    BY TypedTop
  <1>2. Top.base + a < Top.len
    BY DEF InRegisters
  <1>3. PICK t \in Nat, m \in Nat : t = threshold /\ m = fb.maxRegisters
    BY DEF TypeInv, RegsTyped, Verified
  <1>4. PICK b \in Nat, l \in Nat : b = Top.base /\ l = Top.len /\ l <= t + m
    BY <1>1, <1>3 DEF FrameTyped
  <1>5. b + a \in 0 .. t + m - 1
    BY <1>2, <1>4
  <1>6. regs \in [0 .. t + m - 1 -> Int32]
    BY <1>3 DEF TypeInv, RegsTyped
  <1>7. regs[b + a] \in Int32
    BY <1>5, <1>6
  <1> QED
    BY <1>4, <1>7 DEF Reg

\* The registers of the instructions.
LEMMA OperandRegisters ==
  ASSUME TypeInv, frames # <<>>, InRegisters
  PROVE  /\ Op \in BinaryOps => Reg(Byte(1)) \in Int32 /\ Reg(Byte(2)) \in Int32
         /\ Op \in {"MOVE_REG_REG", "FIELD_SET_INT_REG"} => Reg(Byte(2)) \in Int32
         /\ Op \in {"BIT_INV", "RETURN", "FIELD_IDX_REG"} => Reg(Byte(1)) \in Int32
         /\ Op = "EXT_CALL" => Reg(Byte(3)) \in Int32
  <1>1. Op = Opcode(CodeOf(Top)[Top.pc + 1])
    BY TypedTop
  <1>2. CASE Op \in BinaryOps
    <2>1. Byte(1) \in Reads(CodeOf(Top), Top.pc) /\ Byte(2) \in Reads(CodeOf(Top), Top.pc)
      <3>1. Reads(CodeOf(Top), Top.pc) = {Byte(1), Byte(2)}
        BY <1>1, <1>2 DEF Reads, Byte, BinaryOps
      <3> QED
        BY <3>1
    <2>2. Byte(1) \in 0 .. 255 /\ Byte(2) \in 0 .. 255
      BY <1>2, TwoOperands
    <2> QED
      BY <1>2, <2>1, <2>2, RegisterTyped DEF BinaryOps
  <1>3. CASE Op \in {"MOVE_REG_REG", "FIELD_SET_INT_REG"}
    <2>1. Byte(2) \in Reads(CodeOf(Top), Top.pc)
      BY <1>1, <1>3 DEF Reads, Byte, BinaryOps
    <2>2. Byte(2) \in 0 .. 255
      BY <1>3, TwoOperands
    <2> QED
      BY <1>3, <2>1, <2>2, RegisterTyped DEF BinaryOps
  <1>4. CASE Op \in {"BIT_INV", "RETURN", "FIELD_IDX_REG"}
    <2>1. Byte(1) \in Reads(CodeOf(Top), Top.pc)
      BY <1>1, <1>4 DEF Reads, Byte, BinaryOps
    <2>2. Byte(1) \in 0 .. 255
      BY <1>4, OneOperand
    <2> QED
      BY <1>4, <2>1, <2>2, RegisterTyped DEF BinaryOps
  <1>5. CASE Op = "EXT_CALL"
    <2>1. Byte(3) \in Writes(CodeOf(Top), Top.pc)
      BY <1>1, <1>5 DEF Writes, Byte, BinaryOps
    <2>2. Byte(3) \in 0 .. 255
      BY <1>5, ThreeOperands
    <2> QED
      BY <1>5, <2>1, <2>2, RegisterTyped DEF BinaryOps
  <1> QED
    BY <1>2, <1>3, <1>4, <1>5

\* -1 and the lengths of short arrays are integers.
LEMMA SmallNumbers == -1 \in Int32 /\ 0 \in Int32
  <1>1. PICK h \in Nat : h = TwoTo[INT_BITS - 1] /\ h >= 2
    BY Widths
  <1> QED
    BY <1>1 DEF Int32

LEMMA TypedLength ==
  ASSUME RegsTyped, fb.maxRegisters \in Nat
  PROVE  Cardinality(DOMAIN regs) = threshold + fb.maxRegisters
  <1>1. PICK n \in Nat : n = threshold + fb.maxRegisters
    BY DEF RegsTyped
  <1>2. PICK m \in Int : m = n - 1
    OBVIOUS
  <1>3. Cardinality(0 .. m) = n
    <2>1. Cardinality(0 .. m) = IF 0 > m THEN 0 ELSE m - 0 + 1
      BY FS_Interval
    <2> QED
      BY <1>2, <2>1
  <1>4. DOMAIN regs = 0 .. m
    BY <1>1, <1>2 DEF RegsTyped
  <1> QED
    BY <1>1, <1>3, <1>4

\* One call on the stack.
LEMMA OnlyCallTyped ==
  ASSUME NEW g, FrameTyped(g, threshold + fb.maxRegisters), frames' = <<g>>,
         UNCHANGED <<script, fb, threshold>>
  PROVE  FramesTyped'
  <1>1. frames' \in [1 .. 1 -> {g}] /\ Len(frames') = 1 /\ frames'[1] = g
    OBVIOUS
  <1>2. frames' \in Seq(Elements(frames'))
    BY <1>1, FunctionIsSequence
  <1>3. \A k \in 1 .. Len(frames') : FrameTyped(frames'[k], threshold + fb.maxRegisters)
    BY <1>1
  <1>4. 1 .. Len(frames') - 1 = {}
    BY <1>1
  <1> QED
    BY <1>2, <1>3, <1>4 DEF FramesTyped, FrameTyped, Elements, Objects, FieldsOf

-------------------------------------------------------------------------------
(* Steps of the types *)

\* A step of a call that keeps the types of everything it can change.
LEMMA StepTyped ==
  ASSUME TypeInv, frames # <<>>, UNCHANGED <<world, invoking>>,
         FieldsTyped', RegsTyped', FramesTyped', CallsTyped'
  PROVE  TypeInv'
  BY DEF TypeInv, world, Verified

\* The innermost call goes on.
LEMMA TopTyped ==
  ASSUME TypeInv, frames # <<>>,
         NEW g, FrameTyped(g, threshold + fb.maxRegisters), g.base = Top.base,
         frames' = [frames EXCEPT ![Len(frames)] = g], UNCHANGED <<script, fb, threshold>>
  PROVE  FramesTyped'
  <1>1. /\ Len(frames) \in Nat \ {0} /\ DOMAIN frames = 1 .. Len(frames)
        /\ frames \in [1 .. Len(frames) -> Elements(frames)]
    BY DEF TypeInv, FramesTyped
  <1>2. frames' \in [1 .. Len(frames) -> Elements(frames) \cup {g}]
    BY <1>1
  <1>3. frames' \in Seq(Elements(frames')) /\ Len(frames') = Len(frames)
    BY <1>1, <1>2, FunctionIsSequence
  <1>4. frames'[Len(frames)] = g
    BY <1>1
  <1>5. \A k \in 1 .. Len(frames) : k # Len(frames) => frames'[k] = frames[k]
    BY <1>1
  <1>6. \A k \in 1 .. Len(frames) : frames'[k].base = frames[k].base
    BY <1>4, <1>5 DEF Top
  <1>7. \A k \in 1 .. Len(frames) : FrameTyped(frames'[k], threshold + fb.maxRegisters)
    BY <1>4, <1>5 DEF TypeInv, FramesTyped
  <1>8. ASSUME NEW k \in 1 .. Len(frames) - 1
        PROVE  frames'[k + 1].base - frames'[k].base \in 0 .. 255
    <2>1. k \in 1 .. Len(frames) /\ k + 1 \in 1 .. Len(frames)
      BY <1>1
    <2>2. frames[k + 1].base - frames[k].base \in 0 .. 255
      BY DEF TypeInv, FramesTyped
    <2> QED
      BY <1>6, <2>1, <2>2
  <1> QED
    BY <1>3, <1>7, <1>8 DEF FramesTyped, FrameTyped, Elements, Objects, FieldsOf

\* It goes on at another instruction of its function.
LEMMA GotoTyped ==
  ASSUME TypeInv, frames # <<>>, NEW pc \in fb.functions[Top.fn].starts,
         NEW written \in SUBSET (0 .. 255), Goto(pc, written), UNCHANGED <<script, fb, threshold>>
  PROVE  FramesTyped'
  <1> DEFINE g == [Top EXCEPT !.pc = pc, !.known = @ \cup written]
  <1>1. FrameTyped(Top, threshold + fb.maxRegisters)
    BY TypedTop
  <1>2. FrameTyped(g, threshold + fb.maxRegisters) /\ g.base = Top.base
    BY <1>1 DEF FrameTyped, FrameFields
  <1>3. frames' = [frames EXCEPT ![Len(frames)] = g]
    BY DEF Goto, Top
  <1> QED
    BY <1>2, <1>3, TopTyped

\* It goes on at the next instruction, with other objects in use.
LEMMA UseTyped ==
  ASSUME TypeInv, frames # <<>>, Op \notin {"JUMP", "RETURN", "ENDOFCODE"},
         NEW cur \in Objects, NEW idx \in Int32, NEW pcur \in Objects, NEW pidx \in Int32,
         NEW written \in SUBSET (0 .. 255), Use(cur, idx, pcur, pidx, written),
         UNCHANGED <<script, fb, threshold>>
  PROVE  FramesTyped'
  <1> DEFINE g == [Top EXCEPT !.pc = NextPc, !.cur = cur, !.idx = idx, !.pcur = pcur,
                              !.pidx = pidx, !.known = @ \cup written]
  <1>1. FrameTyped(Top, threshold + fb.maxRegisters) /\ NextPc \in fb.functions[Top.fn].starts
    BY TypedTop
  <1>2. FrameTyped(g, threshold + fb.maxRegisters) /\ g.base = Top.base
    BY <1>1 DEF FrameTyped, FrameFields
  <1>3. frames' = [frames EXCEPT ![Len(frames)] = g]
    BY DEF Use, Top
  <1> QED
    BY <1>2, <1>3, TopTyped

\* A register gets an integer.
LEMMA RegisterWritten ==
  ASSUME RegsTyped, NEW r, NEW value \in Int32, regs' = [regs EXCEPT ![r] = value],
         UNCHANGED <<fb, threshold>>
  PROVE  RegsTyped'
  BY DEF RegsTyped

\* Nothing but a register is written.
LEMMA WriteTyped ==
  ASSUME TypeInv, frames # <<>>, Op \notin {"JUMP", "RETURN", "ENDOFCODE"},
         NEW a \in 0 .. 255, NEW value \in Int32, Write(a, value)
  PROVE  TypeInv'
  <1>1. NextPc \in fb.functions[Top.fn].starts
    BY TypedTop
  <1>2. UNCHANGED <<script, fb, fields, threshold, invoking, posted, todo, fault>>
    BY DEF Write, world
  <1>3. FramesTyped'
    BY <1>1, <1>2, GotoTyped DEF Write
  <1>4. RegsTyped'
    BY <1>2, RegisterWritten DEF TypeInv, Write
  <1>5. FieldsTyped' /\ CallsTyped'
    BY <1>2 DEF TypeInv, FieldsTyped, CallsTyped, CalledFields, hasFunction, FieldsOf
  <1> QED
    BY <1>2, <1>3, <1>4, <1>5, StepTyped DEF Write

\* Nothing but the instruction changes.
LEMMA JumpTyped ==
  ASSUME TypeInv, frames # <<>>, NEW pc \in fb.functions[Top.fn].starts, Jump(pc)
  PROVE  TypeInv'
  <1>1. UNCHANGED <<script, fb, fields, regs, threshold, invoking, posted, todo, fault>>
    BY DEF Jump, world
  <1>2. FramesTyped'
    BY <1>1, GotoTyped DEF Jump
  <1>3. FieldsTyped' /\ CallsTyped' /\ RegsTyped'
    BY <1>1 DEF TypeInv, FieldsTyped, CallsTyped, CalledFields, hasFunction, FieldsOf, RegsTyped
  <1> QED
    BY <1>1, <1>2, <1>3, StepTyped DEF Jump

\* The function that called goes on where it was.
LEMMA PopTyped ==
  ASSUME TypeInv, frames # <<>>, NEW result, Pop(result), UNCHANGED <<script, fb, threshold>>
  PROVE  FramesTyped'
  <1> DEFINE n == Len(frames) - 1
             got == IF result THEN {Top.base - frames[n].base} ELSE {}
             g == [frames[n] EXCEPT !.known = @ \cup got]
  <1>1. /\ Len(frames) \in Nat \ {0} /\ DOMAIN frames = 1 .. Len(frames)
        /\ frames \in [1 .. Len(frames) -> Elements(frames)]
    BY DEF TypeInv, FramesTyped
  <1>2. CASE n = 0
    <2>1. frames' = <<>>
      BY <1>2 DEF Pop
    <2> QED
      BY <2>1 DEF FramesTyped
  <1>3. CASE n # 0
    <2>1. n \in 1 .. Len(frames) /\ n \in Nat /\ n \in 1 .. Len(frames) - 1 /\ n + 1 = Len(frames)
      BY <1>1, <1>3
    <2>2. FrameTyped(frames[n], threshold + fb.maxRegisters)
      BY <2>1 DEF TypeInv, FramesTyped
    <2>3. Top.base - frames[n].base \in 0 .. 255
      BY <2>1 DEF TypeInv, FramesTyped, Top
    <2>4. FrameTyped(g, threshold + fb.maxRegisters) /\ g.base = frames[n].base
      <3>1. got \subseteq 0 .. 255
        BY <2>3
      <3> HIDE DEF got
      <3> QED
        BY <2>2, <3>1 DEF FrameTyped, FrameFields
    <2> HIDE DEF g
    <2>5. frames' = [k \in 1 .. n |-> IF k < n THEN frames[k] ELSE g]
      BY <1>3 DEF Pop, g
    <2>6. frames' \in [1 .. n -> Elements(frames) \cup {g}]
      BY <1>1, <2>1, <2>5
    <2>7. frames' \in Seq(Elements(frames')) /\ Len(frames') = n
      BY <2>1, <2>6, FunctionIsSequence
    <2>8. \A k \in 1 .. n : /\ FrameTyped(frames'[k], threshold + fb.maxRegisters)
                            /\ frames'[k].base = frames[k].base
      BY <1>1, <2>1, <2>4, <2>5 DEF TypeInv, FramesTyped
    <2>9. ASSUME NEW k \in 1 .. n - 1
          PROVE  frames'[k + 1].base - frames'[k].base \in 0 .. 255
      <3>1. k \in 1 .. n /\ k + 1 \in 1 .. n /\ k \in 1 .. Len(frames) - 1
        BY <2>1
      <3>2. frames[k + 1].base - frames[k].base \in 0 .. 255
        BY <3>1 DEF TypeInv, FramesTyped
      <3> QED
        BY <2>8, <3>1, <3>2
    <2> HIDE DEF n
    <2> QED
      BY <2>7, <2>8, <2>9 DEF FramesTyped, FrameTyped, Elements, Objects, FieldsOf
  <1> QED
    BY <1>2, <1>3

\* The call of the function of a field is the only one.
LEMMA InvokeTyped ==
  ASSUME TypeInv, NEW n \in CalledFields, NEW value \in Int32, Invoke(n, value),
         UNCHANGED <<script, fb, threshold>>
  PROVE  RegsTyped' /\ FramesTyped'
  <1>1. /\ fb.maxRegisters \in Nat \ {0}
        /\ n \in DOMAIN fb.functions /\ 0 \in fb.functions[n].starts
    BY DEF TypeInv, Verified, CalledFields, hasFunction
  <1>2. Cardinality(DOMAIN regs) = threshold + fb.maxRegisters
    BY <1>1, TypedLength DEF TypeInv
  <1>3. RegsTyped'
    BY RegisterWritten DEF TypeInv, Invoke
  <1>4. PICK g : g = Frame(n, 0, Cardinality(DOMAIN regs), {0})
    OBVIOUS
  <1>5. FrameTyped(g, threshold + fb.maxRegisters)
    <2>1. -1 \in Int32
      BY SmallNumbers
    <2>2. threshold + fb.maxRegisters \in Nat
      BY <1>1 DEF TypeInv, RegsTyped
    <2> QED
      BY <1>1, <1>2, <1>4, <2>1, <2>2 DEF FrameTyped, FrameFields, Frame, Objects
  <1>6. FramesTyped'
    BY <1>4, <1>5, OnlyCallTyped DEF Invoke
  <1> QED
    BY <1>3, <1>6

\* A call takes registers from its first parameter on, and the array grows.
LEMMA IntCallTyped ==
  ASSUME TypeInv, REGISTERS_BANK \in Nat, IntCall
  PROVE  TypeInv'
  <1> DEFINE M == fb.maxRegisters
             base == Top.base + Byte(2)
             length == Cardinality(DOMAIN regs)
             grow == base >= threshold
             nl == IF grow THEN length + REGISTERS_BANK ELSE length
             params == Params(Top.known, Byte(2))
             caller == [Top EXCEPT !.pc = NextPc, !.known = {k \in @ : k < Byte(2)}]
             g == Frame(Byte(1), base, nl, params)
             back == [frames EXCEPT ![Len(frames)] = caller]
  <1>1. frames # <<>> /\ Op = "INT_CALL"
    BY DEF IntCall, Running
  <1>2. /\ FrameTyped(Top, threshold + M) /\ NextPc \in fb.functions[Top.fn].starts
        /\ Len(frames) \in Nat \ {0}
        /\ Byte(1) \in 0 .. 255 /\ Byte(2) \in 0 .. 255
    BY <1>1, TypedTop, TwoOperands
  <1>3. UNCHANGED <<script, fb, fields, posted, todo, invoking, fault>> /\ UNCHANGED world
    BY DEF IntCall, world
  <1>4. FieldsTyped' /\ CallsTyped'
    BY <1>3 DEF TypeInv, FieldsTyped, CallsTyped, CalledFields, hasFunction, FieldsOf
  <1>5. CASE ~hasFunction(Byte(1))
    <2>1. /\ regs' = regs /\ threshold' = threshold
          /\ frames' = [frames EXCEPT ![Len(frames)].pc = NextPc]
      BY <1>5 DEF IntCall
    <2>2. PICK h : h = [Top EXCEPT !.pc = NextPc]
      OBVIOUS
    <2>3. FrameTyped(h, threshold + M) /\ h.base = Top.base
      BY <1>2, <2>2 DEF FrameTyped, FrameFields
    <2>4. frames' = [frames EXCEPT ![Len(frames)] = h]
      BY <2>1, <2>2 DEF Top
    <2>5. FramesTyped'
      BY <1>1, <1>3, <2>1, <2>3, <2>4, TopTyped
    <2>6. RegsTyped'
      BY <1>3, <2>1 DEF TypeInv, RegsTyped
    <2> QED
      BY <1>1, <1>3, <1>4, <2>5, <2>6, StepTyped
  <1>6. CASE hasFunction(Byte(1))
    <2>1. /\ regs' = [r \in 0 .. nl - 1 |-> IF r < length THEN regs[r] ELSE 0]
          /\ threshold' = IF grow THEN threshold + REGISTERS_BANK ELSE threshold
          /\ frames' = Append(back, g)
      BY <1>6 DEF IntCall
    <2>2. M \in Nat \ {0} /\ 0 \in fb.functions[Byte(1)].starts /\ Byte(1) \in DOMAIN fb.functions
      BY <1>6 DEF TypeInv, Verified, hasFunction
    <2>3. length = threshold + M
      BY <2>2, TypedLength DEF TypeInv
    \* The array before and after it.
    <2> HIDE DEF length
    <2>4. PICK t \in Nat, t2 \in Nat, m \in Nat, n \in Nat :
            /\ t = threshold /\ t2 = threshold' /\ m = M /\ n = nl
            /\ t <= t2 /\ n = t2 + m /\ length = t + m
      <3>1. PICK t \in Nat, m \in Nat, r \in Nat : t = threshold /\ m = M /\ r = REGISTERS_BANK
        BY <2>2 DEF TypeInv, RegsTyped
      <3> HIDE DEF base
      <3>2. CASE grow
        <4>1. threshold' = t + r /\ nl = t + m + r
          BY <2>1, <2>3, <3>1, <3>2
        <4> HIDE DEF nl, grow, M
        <4>2. t + r \in Nat /\ t + m + r \in Nat /\ t <= t + r /\ t + m + r = (t + r) + m
          OBVIOUS
        <4> QED
          BY <2>3, <3>1, <4>1, <4>2
      <3>3. CASE ~grow
        <4>1. threshold' = t /\ nl = t + m
          BY <2>1, <2>3, <3>1, <3>3
        <4> HIDE DEF nl, grow, M
        <4>2. t + m \in Nat /\ t <= t
          OBVIOUS
        <4> QED
          BY <2>3, <3>1, <4>1, <4>2
      <3> QED
        BY <3>2, <3>3
    <2>5. RegsTyped'
      <3>1. regs \in [0 .. t + m - 1 -> Int32]
        BY <2>4 DEF TypeInv, RegsTyped
      <3>2. regs' = [r \in 0 .. n - 1 |-> IF r < t + m THEN regs[r] ELSE 0]
        BY <2>1, <2>4
      <3>3. \A r \in 0 .. n - 1 : r < t + m => regs[r] \in Int32
        BY <3>1
      <3>4. regs' \in [0 .. n - 1 -> Int32]
        BY <3>2, <3>3, SmallNumbers
      <3>5. 0 .. n - 1 = 0 .. threshold' + fb'.maxRegisters - 1 /\ threshold' \in Nat
        <4>1. fb'.maxRegisters = m
          BY <1>3, <2>4
        <4>2. n = t2 + m
          BY <2>4
        <4> QED
          BY <2>4, <4>1, <4>2
      <3> QED
        BY <3>4, <3>5 DEF RegsTyped
    <2>6. base \in Nat /\ base - Top.base = Byte(2)
      <3>1. PICK b \in Nat : b = Top.base
        BY <1>2 DEF FrameTyped
      <3>2. PICK k \in 0 .. 255 : k = Byte(2)
        BY <1>2
      <3>3. b + k \in Nat /\ (b + k) - b = k
        OBVIOUS
      <3> QED
        BY <3>1, <3>2, <3>3
    <2>7. FrameTyped(g, t2 + m)
      <3>1. params \subseteq 0 .. 255
        <4> SUFFICES ASSUME NEW x \in params PROVE x \in 0 .. 255
          OBVIOUS
        <4>1. PICK k \in Top.known : k >= Byte(2) /\ x = k - Byte(2)
          BY DEF Params
        <4>2. k \in 0 .. 255
          BY <1>2 DEF FrameTyped
        <4>3. PICK first \in 0 .. 255 : first = Byte(2)
          BY <1>2
        <4>4. PICK j \in 0 .. 255 : j = k /\ j >= first
          BY <4>1, <4>2, <4>3
        <4>5. j - first \in 0 .. 255
          BY <4>4
        <4> QED
          BY <4>1, <4>3, <4>4, <4>5
      <3>2. n <= t2 + m
        BY <2>4
      <3> HIDE DEF params, base, nl
      <3> QED
        BY <2>2, <2>4, <2>6, <3>1, <3>2, SmallNumbers DEF FrameTyped, FrameFields, Frame, Objects
    <2>8. \A f : FrameTyped(f, t + m) => FrameTyped(f, t2 + m)
      BY <2>4 DEF FrameTyped
    <2>9. FrameTyped(caller, t2 + m) /\ caller.base = Top.base
      <3>1. FrameTyped(Top, t + m)
        BY <1>2, <2>4
      <3>2. FrameTyped(caller, t + m) /\ caller.base = Top.base
        BY <1>2, <3>1 DEF FrameTyped, FrameFields
      <3> QED
        BY <2>8, <3>2
    <2> HIDE DEF caller, g
    <2>10. /\ DOMAIN frames = 1 .. Len(frames)
           /\ frames \in [1 .. Len(frames) -> Elements(frames)]
      BY <1>2 DEF TypeInv, FramesTyped
    <2>11. /\ back \in Seq(Elements(back)) /\ Len(back) = Len(frames)
           /\ \A k \in 1 .. Len(frames) : /\ FrameTyped(back[k], t2 + m)
                                          /\ back[k].base = frames[k].base
      <3>1. back \in [1 .. Len(frames) -> Elements(frames) \cup {caller}]
        BY <1>2, <2>10
      <3>2. back \in Seq(Elements(back)) /\ Len(back) = Len(frames)
        BY <1>2, <3>1, FunctionIsSequence
      <3>3. ASSUME NEW k \in 1 .. Len(frames)
            PROVE  FrameTyped(back[k], t2 + m) /\ back[k].base = frames[k].base
        <4>1. CASE k = Len(frames)
          <5>1. back[k] = caller
            BY <2>10, <4>1
          <5> QED
            BY <2>9, <4>1, <5>1 DEF Top
        <4>2. CASE k # Len(frames)
          <5>1. back[k] = frames[k]
            BY <2>10, <4>2
          <5>2. FrameTyped(frames[k], t + m)
            BY <2>4 DEF TypeInv, FramesTyped
          <5> QED
            BY <2>8, <5>1, <5>2
        <4> QED
          BY <4>1, <4>2
      <3> QED
        BY <3>2, <3>3
    <2>12. PICK l \in Nat \ {0} : l = Len(frames)
      BY <1>2
    <2> HIDE DEF back
    <2>13. /\ frames' \in Seq(Elements(back) \cup {g}) /\ Len(frames') = l + 1
           /\ frames'[l + 1] = g
           /\ \A k \in 1 .. l : frames'[k] = back[k]
      BY <2>1, <2>11, <2>12, AddTop
    <2>14. frames' \in Seq(Elements(frames'))
      BY <2>13, SequenceOfElements
    <2>15. \A k \in 1 .. l + 1 : FrameTyped(frames'[k], t2 + m)
      BY <2>7, <2>11, <2>12, <2>13
    <2>16. ASSUME NEW k \in 1 .. l
           PROVE  frames'[k + 1].base - frames'[k].base \in 0 .. 255
      <3>1. CASE k = l
        <4>1. frames'[k + 1].base = base /\ frames'[k].base = Top.base
          BY <2>11, <2>12, <2>13, <3>1 DEF g, Frame, Top
        <4> QED
          BY <1>2, <2>6, <4>1
      <3>2. CASE k # l
        <4>1. k + 1 \in 1 .. l /\ k \in 1 .. l - 1
          BY <3>2
        <4>2. frames'[k + 1].base = frames[k + 1].base /\ frames'[k].base = frames[k].base
          BY <2>11, <2>12, <2>13, <4>1
        <4>3. frames[k + 1].base - frames[k].base \in 0 .. 255
          BY <2>12, <4>1 DEF TypeInv, FramesTyped
        <4> QED
          BY <4>2, <4>3
      <3> QED
        BY <3>1, <3>2
    <2>17. FramesTyped'
      <3>1. (threshold + fb.maxRegisters)' = t2 + m /\ Len(frames') - 1 = l
        BY <1>3, <2>4, <2>13
      <3> QED
        BY <1>3, <2>13, <2>14, <2>15, <2>16, <3>1
           DEF FramesTyped, FrameTyped, Elements, Objects, FieldsOf
    <2> QED
      BY <1>1, <1>3, <1>4, <2>5, <2>17, StepTyped
  <1> QED
    BY <1>5, <1>6

\* The instructions that compute with registers.
LEMMA RegisterStep ==
  ASSUME TypeInv, LoadInt \/ Move \/ Invert \/ Operate \/ ExtCall
  PROVE  TypeInv'
  <1>1. CASE LoadInt
    <2>1. frames # <<>> /\ Op = "LOAD_REG_INT" /\ Write(Byte(1), fb.ints[Byte(2) + 1])
      BY <1>1 DEF LoadInt, Running
    <2>2. /\ Byte(1) \in 0 .. 255 /\ Byte(2) \in 0 .. 255 /\ Byte(2) < Len(fb.ints)
      BY <2>1, TwoOperands, TypedTop
    <2>3. fb.ints \in Seq(Int32)
      BY DEF TypeInv, Verified
    <2>4. Byte(2) + 1 \in 1 .. Len(fb.ints)
      <3>1. PICK l \in Nat : l = Len(fb.ints)
        BY <2>3, LenProperties
      <3>2. PICK k \in 0 .. 255 : k = Byte(2)
        BY <2>2
      <3>3. k < l
        BY <2>2, <3>1, <3>2
      <3>4. k + 1 \in 1 .. l
        BY <3>3
      <3> QED
        BY <3>1, <3>2, <3>4
    <2>5. fb.ints[Byte(2) + 1] \in Int32
      BY <2>3, <2>4, ElementOfSeq
    <2> QED
      BY <2>1, <2>2, <2>5, WriteTyped
  <1>2. CASE Move
    <2>1. frames # <<>> /\ InRegisters /\ Op = "MOVE_REG_REG" /\ Write(Byte(1), Reg(Byte(2)))
      BY <1>2 DEF Move, Running
    <2> QED
      BY <2>1, TwoOperands, OperandRegisters, WriteTyped
  <1>3. CASE Invert
    <2>1. frames # <<>> /\ InRegisters /\ Op = "BIT_INV" /\ Write(Byte(1), BitInv(Reg(Byte(1))))
      BY <1>3 DEF Invert, Running
    <2>2. Byte(1) \in 0 .. 255 /\ Reg(Byte(1)) \in Int32
      BY <2>1, OneOperand, OperandRegisters
    <2>3. BitInv(Reg(Byte(1))) \in Int32
      BY <2>2, OperationsFit
    <2> QED
      BY <2>1, <2>2, <2>3, WriteTyped
  <1>4. CASE Operate
    <2>1. PICK op \in BinaryOps : /\ frames # <<>> /\ InRegisters /\ Op = op
                                  /\ Write(Byte(1), Binary(op, Reg(Byte(1)), Reg(Byte(2))))
      BY <1>4 DEF Operate, Running
    <2>2. Byte(1) \in 0 .. 255 /\ Reg(Byte(1)) \in Int32 /\ Reg(Byte(2)) \in Int32
      BY <2>1, TwoOperands, OperandRegisters
    <2>3. Binary(op, Reg(Byte(1)), Reg(Byte(2))) \in Int32
      BY <2>1, <2>2, OperationsFit
    <2>4. Op \notin {"JUMP", "RETURN", "ENDOFCODE"}
      BY <2>1 DEF BinaryOps
    <2> QED
      BY <2>1, <2>2, <2>3, <2>4, WriteTyped
  <1>5. CASE ExtCall
    <2>1. frames # <<>> /\ InRegisters /\ Op = "EXT_CALL" /\ Write(Byte(3), Reg(Byte(3)))
      BY <1>5 DEF ExtCall, Running
    <2> QED
      BY <2>1, ThreeOperands, OperandRegisters, WriteTyped
  <1> QED
    BY <1>1, <1>2, <1>3, <1>4, <1>5

\* An array that is written, and extended, at an index that is not the largest.
LEMMA ExtendedTyped ==
  ASSUME NEW s, ArrayTyped(s), NEW i \in Int32, i >= 0, i # TwoTo[INT_BITS - 1] - 1,
         NEW value \in Int32
  PROVE  ArrayTyped(Extended(s, i, value))
  <1>1. PICK h \in Nat : h = TwoTo[INT_BITS - 1] /\ h >= 2
    BY Widths
  <1>2. i \in 0 .. h - 2
    BY <1>1 DEF Int32
  <1>3. s \in Seq(Int32) /\ Len(s) \in Nat /\ Len(s) \in Int32
    BY LenProperties DEF ArrayTyped
  <1>4. PICK l \in Nat : l = Len(s)
    BY <1>3
  <1>5. CASE i < l
    <2>1. i + 1 \in 1 .. Len(s)
      BY <1>2, <1>4, <1>5
    <2>2. /\ [s EXCEPT ![i + 1] = value] \in Seq(Int32)
          /\ Len([s EXCEPT ![i + 1] = value]) = Len(s)
      BY <1>3, <2>1, ExceptSeq
    <2>3. Extended(s, i, value) = [s EXCEPT ![i + 1] = value]
      BY <1>4, <1>5 DEF Extended
    <2> QED
      BY <1>3, <2>2, <2>3 DEF ArrayTyped
  <1>6. CASE ~(i < l)
    <2>1. PICK d \in Nat : d = i - l
      BY <1>2, <1>6
    <2> DEFINE zeros == [k \in 1 .. d |-> 0]
    <2>2. zeros \in [1 .. d -> Int32]
      BY SmallNumbers
    <2>3. zeros \in Seq(Int32) /\ Len(zeros) = d
      BY <2>2
    <2>4. Extended(s, i, value) = s \o zeros \o <<value>>
      BY <1>4, <1>6, <2>1 DEF Extended
    <2> HIDE DEF zeros
    <2>5. s \o zeros \in Seq(Int32) /\ Len(s \o zeros) = l + d
      BY <1>3, <1>4, <2>3, ConcatProperties
    <2>6. <<value>> \in Seq(Int32) /\ Len(<<value>>) = 1
      OBVIOUS
    <2>7. /\ s \o zeros \o <<value>> \in Seq(Int32)
          /\ Len(s \o zeros \o <<value>>) = l + d + 1
      BY <2>5, <2>6, ConcatProperties
    <2>8. l + d + 1 \in Int32
      <3>1. l + d + 1 = i + 1
        BY <1>2, <2>1
      <3>2. i + 1 \in -h .. h - 1
        BY <1>2
      <3> QED
        BY <1>1, <3>1, <3>2 DEF Int32
    <2> QED
      BY <2>4, <2>7, <2>8 DEF ArrayTyped
  <1> QED
    BY <1>5, <1>6

\* What an instruction reads from a field.
LEMMA ValueTyped ==
  ASSUME FieldsTyped, NEW n \in DOMAIN fields, NEW member, NEW i \in Int32
  PROVE  ValueOf(n, member, i) \in Int32
  <1>1. CASE n \in SFields[script]
    BY <1>1 DEF FieldsTyped, ValueOf
  <1>2. CASE n \notin SFields[script]
    <2>1. fields[n] \in Seq(Int32) /\ Len(fields[n]) \in Int32
      BY <1>2 DEF FieldsTyped, FieldsOf, ArrayTyped
    <2>2. CASE member = LENGTH_IDX
      BY <1>2, <2>1, <2>2 DEF ValueOf
    <2>3. CASE member # LENGTH_IDX /\ member # OBJECT_IDX /\ i \in 0 .. Len(fields[n]) - 1
      <3>1. Len(fields[n]) \in Nat
        BY <2>1, LenProperties
      <3>2. i + 1 \in 1 .. Len(fields[n])
        BY <2>3, <3>1
      <3>3. fields[n][i + 1] \in Int32
        BY <2>1, <3>2, ElementOfSeq
      <3> QED
        BY <1>2, <2>3, <3>3 DEF ValueOf
    <2>4. CASE /\ member # LENGTH_IDX
               /\ ~(member # LENGTH_IDX /\ member # OBJECT_IDX /\ i \in 0 .. Len(fields[n]) - 1)
      BY <1>2, <2>4, SmallNumbers DEF ValueOf
    <2> QED
      BY <2>2, <2>3, <2>4
  <1> QED
    BY <1>1, <1>2

\* The instructions that choose a field.
LEMMA FieldStep ==
  ASSUME TypeInv, FieldPush \/ FieldPop \/ FieldUse \/ FieldIdx
  PROVE  TypeInv'
  <1>1. /\ frames # <<>> /\ InRegisters
        /\ Op \in {"FIELD_PUSH", "FIELD_POP", "FIELD_USE_INT", "FIELD_IDX_REG"}
        /\ UNCHANGED <<world, fields, regs, threshold, invoking, posted, todo>>
    BY DEF FieldPush, FieldPop, FieldUse, FieldIdx, Running
  <1>2. UNCHANGED <<script, fb>>
    BY <1>1 DEF world
  <1>3. FrameTyped(Top, threshold + fb.maxRegisters)
    BY <1>1, TypedTop
  <1>4. /\ Top.cur \in Objects /\ Top.idx \in Int32 /\ Top.pcur \in Objects /\ Top.pidx \in Int32
        /\ ScriptNode \in Objects
    BY <1>3 DEF FrameTyped, Objects
  <1>5. \E cur \in Objects, idx \in Int32, pcur \in Objects, pidx \in Int32 :
          Use(cur, idx, pcur, pidx, {})
    <2>1. CASE FieldPush
      BY <1>4, <2>1 DEF FieldPush
    <2>2. CASE FieldPop
      BY <1>4, <2>2 DEF FieldPop
    <2>3. CASE FieldUse
      <3>1. Used(script, Top.cur, Byte(1)) \in Objects
        BY DEF Used, Objects
      <3> QED
        BY <1>4, <2>3, <3>1 DEF FieldUse
    <2>4. CASE FieldIdx
      <3>1. Reg(Byte(1)) \in Int32
        BY <1>1, <2>4, OperandRegisters DEF FieldIdx, Running
      <3> QED
        BY <1>4, <2>4, <3>1 DEF FieldIdx
    <2> QED
      BY <2>1, <2>2, <2>3, <2>4
  <1>6. FramesTyped'
    BY <1>1, <1>2, <1>5, UseTyped
  <1>7. FieldsTyped' /\ CallsTyped' /\ RegsTyped'
    BY <1>1, <1>2
       DEF TypeInv, FieldsTyped, CallsTyped, CalledFields, hasFunction, FieldsOf, RegsTyped
  <1> QED
    BY <1>1, <1>6, <1>7, StepTyped

LEMMA FieldGetTyped == ASSUME TypeInv, FieldGet PROVE TypeInv'
  <1>1. /\ frames # <<>> /\ InRegisters /\ Op = "FIELD_GET_INT_REG"
        /\ UNCHANGED <<world, fields, threshold, invoking, posted, todo>>
    BY DEF FieldGet, Running
  <1>2. UNCHANGED <<script, fb>>
    BY <1>1 DEF world
  <1>3. FrameTyped(Top, threshold + fb.maxRegisters) /\ Byte(2) \in 0 .. 255
    BY <1>1, TypedTop, TwoOperands
  <1>4. Top.idx \in Int32 /\ Top.pcur \in Objects /\ Top.pidx \in Int32 /\ ScriptNode \in Objects
    BY <1>3 DEF FrameTyped, Objects
  <1>5. FramesTyped'
    <2>1. PICK written \in SUBSET (0 .. 255) : Use(ScriptNode, -1, Top.pcur, Top.pidx, written)
      BY <1>3 DEF FieldGet
    <2> QED
      BY <1>1, <1>2, <1>4, <2>1, SmallNumbers, UseTyped
  <1>6. RegsTyped'
    <2>1. CASE Top.cur \in DOMAIN fields
      <3>1. ValueOf(Top.cur, Byte(1), Top.idx) \in Int32
        BY <1>4, <2>1, ValueTyped DEF TypeInv
      <3>2. regs' = [regs EXCEPT ![Top.base + Byte(2)] = ValueOf(Top.cur, Byte(1), Top.idx)]
        BY <2>1 DEF FieldGet
      <3> QED
        BY <1>1, <1>2, <3>1, <3>2, RegisterWritten DEF TypeInv
    <2>2. CASE Top.cur \notin DOMAIN fields
      <3>1. regs' = regs
        BY <2>2 DEF FieldGet
      <3> QED
        BY <1>1, <1>2, <3>1 DEF TypeInv, RegsTyped
    <2> QED
      BY <2>1, <2>2
  <1>7. FieldsTyped' /\ CallsTyped'
    BY <1>1, <1>2 DEF TypeInv, FieldsTyped, CallsTyped, CalledFields, hasFunction, FieldsOf
  <1> QED
    BY <1>1, <1>5, <1>6, <1>7, StepTyped

LEMMA FieldSetTyped == ASSUME TypeInv, FieldSet PROVE TypeInv'
  <1> DEFINE n == Top.cur
             value == Reg(Byte(2))
             single == n \in SFields[script]
             written == single \/ (n \in MFields[script] /\ Top.idx >= 0)
  <1>1. /\ frames # <<>> /\ InRegisters /\ Op = "FIELD_SET_INT_REG" /\ ~TooLong
        /\ UNCHANGED <<world, regs, threshold, invoking, todo>>
        /\ Use(ScriptNode, -1, Top.pcur, Top.pidx, {})
    BY DEF FieldSet, Running
  <1>2. UNCHANGED <<script, fb>>
    BY <1>1 DEF world
  <1>3. FrameTyped(Top, threshold + fb.maxRegisters) /\ value \in Int32
    BY <1>1, TypedTop, OperandRegisters
  <1>4. Top.idx \in Int32 /\ Top.pcur \in Objects /\ Top.pidx \in Int32 /\ ScriptNode \in Objects
    BY <1>3 DEF FrameTyped, Objects
  <1>5. FramesTyped'
    BY <1>1, <1>2, <1>4, SmallNumbers, UseTyped
  <1>6. RegsTyped'
    BY <1>1, <1>2 DEF TypeInv, RegsTyped
  <1>7. FieldsTyped'
    <2>1. FieldsTyped
      BY DEF TypeInv
    <2>2. CASE single
      <3>1. fields' = [fields EXCEPT ![n] = value]
        BY <2>2 DEF FieldSet
      <3>2. n \notin MFields[script]
        BY <2>2, FieldKinds DEF TypeInv
      <3> QED
        BY <1>2, <1>3, <2>1, <3>1, <3>2 DEF FieldsTyped, FieldsOf
    <2>3. CASE ~single /\ n \in MFields[script] /\ Top.idx >= 0
      <3>1. PICK a : a = Extended(fields[n], Top.idx, value)
        OBVIOUS
      <3>2. fields' = [fields EXCEPT ![n] = a]
        BY <2>3, <3>1 DEF FieldSet
      <3>3. Top.idx # TwoTo[INT_BITS - 1] - 1 /\ ArrayTyped(fields[n])
        BY <1>1, <2>1, <2>3 DEF TooLong, FieldsTyped
      <3>4. ArrayTyped(a)
        BY <1>3, <1>4, <2>3, <3>1, <3>3, ExtendedTyped
      <3> QED
        BY <1>2, <2>1, <2>3, <3>2, <3>4 DEF FieldsTyped, FieldsOf
    <2>4. CASE ~written
      <3>1. fields' = fields
        BY <2>4 DEF FieldSet
      <3> QED
        BY <1>2, <2>1, <3>1 DEF FieldsTyped, FieldsOf
    <2> QED
      BY <2>2, <2>3, <2>4
  <1>8. CallsTyped'
    <2>1. posted \in Seq(CalledFields) /\ todo \in Seq(CalledFields) /\ CalledFields' = CalledFields
      BY <1>2 DEF TypeInv, CallsTyped, CalledFields, hasFunction
    <2>2. CASE written /\ hasFunction(n)
      <3>1. n \in CalledFields
        BY <2>2, FieldKinds DEF TypeInv, CalledFields, hasFunction
      <3>2. posted' = Append(posted, n)
        BY <2>2 DEF FieldSet
      <3>3. posted' \in Seq(CalledFields)
        BY <2>1, <3>1, <3>2
      <3> QED
        BY <1>1, <2>1, <3>3 DEF CallsTyped
    <2>3. CASE ~(written /\ hasFunction(n))
      <3>1. posted' = posted
        BY <2>3 DEF FieldSet
      <3> QED
        BY <1>1, <2>1, <3>1 DEF CallsTyped
    <2> QED
      BY <2>2, <2>3
  <1> QED
    BY <1>1, <1>5, <1>6, <1>7, <1>8, StepTyped

\* The instructions that only go on elsewhere.
LEMMA JumpStep ==
  ASSUME TypeInv, Nop \/ JumpAlways \/ JumpZero \/ JumpNZero
  PROVE  TypeInv'
  <1>1. frames # <<>> /\ Op \in {"NOP", "JUMP", "JUMP_ZERO", "JUMP_NZERO"}
    BY DEF Nop, JumpAlways, JumpZero, JumpNZero, Running
  <1>2. /\ Op # "JUMP" => NextPc \in fb.functions[Top.fn].starts
        /\ Op = "JUMP" => Target(1) \in fb.functions[Top.fn].starts
        /\ Op \in {"JUMP_ZERO", "JUMP_NZERO"} => Target(2) \in fb.functions[Top.fn].starts
    BY <1>1, TypedTop
  <1>3. \E pc \in fb.functions[Top.fn].starts : Jump(pc)
    BY <1>2 DEF Nop, JumpAlways, JumpZero, JumpNZero, Running
  <1> QED
    BY <1>1, <1>3, JumpTyped

\* The instructions that end a call.
LEMMA ReturnStep == ASSUME TypeInv, ReturnValue \/ EndOfCode PROVE TypeInv'
  <1>1. /\ frames # <<>> /\ InRegisters
        /\ UNCHANGED <<world, fields, threshold, invoking, posted, todo>>
        /\ \E result : Pop(result)
    BY DEF ReturnValue, EndOfCode, Running
  <1>2. UNCHANGED <<script, fb>>
    BY <1>1 DEF world
  <1>3. FramesTyped'
    BY <1>1, <1>2, PopTyped
  <1>4. RegsTyped'
    <2>1. CASE ReturnValue
      <3>1. Reg(Byte(1)) \in Int32
        BY <1>1, <2>1, OperandRegisters DEF ReturnValue, Running
      <3>2. regs' = [regs EXCEPT ![Top.base] = Reg(Byte(1))]
        BY <2>1 DEF ReturnValue
      <3> QED
        BY <1>1, <1>2, <3>1, <3>2, RegisterWritten DEF TypeInv
    <2>2. CASE EndOfCode
      <3>1. regs' = regs
        BY <2>2 DEF EndOfCode
      <3> QED
        BY <1>1, <1>2, <3>1 DEF TypeInv, RegsTyped
    <2> QED
      BY <2>1, <2>2
  <1>5. FieldsTyped' /\ CallsTyped'
    BY <1>1, <1>2 DEF TypeInv, FieldsTyped, CallsTyped, CalledFields, hasFunction, FieldsOf
  <1> QED
    BY <1>1, <1>3, <1>4, <1>5, StepTyped

\* An exception, of a register or of an array.
LEMMA ThrowTyped == ASSUME TypeInv, Throw PROVE TypeInv'
  <1>1. /\ UNCHANGED <<script, fb, fields, regs, threshold, invoking, posted>>
        /\ frames' = <<>> /\ todo' = <<>> /\ fault' = TRUE
    BY DEF Throw
  <1>2. FramesTyped'
    BY <1>1 DEF FramesTyped
  <1>3. FieldsTyped' /\ RegsTyped'
    BY <1>1 DEF TypeInv, FieldsTyped, FieldsOf, RegsTyped
  <1>4. CallsTyped'
    BY <1>1 DEF TypeInv, CallsTyped, CalledFields, hasFunction
  <1> QED
    BY <1>1, <1>2, <1>3, <1>4 DEF TypeInv, Verified

LEMMA InstructionTyped ==
  ASSUME TypeInv, REGISTERS_BANK \in Nat, Instruction
  PROVE  TypeInv'
  <1>1. CASE LoadInt \/ Move \/ Invert \/ Operate \/ ExtCall
    BY <1>1, RegisterStep
  <1>2. CASE Nop \/ JumpAlways \/ JumpZero \/ JumpNZero
    BY <1>2, JumpStep
  <1>3. CASE IntCall
    BY <1>3, IntCallTyped
  <1>4. CASE ReturnValue \/ EndOfCode
    BY <1>4, ReturnStep
  <1>5. CASE FieldPush \/ FieldPop \/ FieldUse \/ FieldIdx
    BY <1>5, FieldStep
  <1>6. CASE FieldSet
    BY <1>6, FieldSetTyped
  <1>7. CASE FieldGet
    BY <1>7, FieldGetTyped
  <1>8. CASE OutOfBounds \/ ArrayTooLong
    BY <1>8, ThrowTyped DEF OutOfBounds, ArrayTooLong
  <1> QED
    BY <1>1, <1>2, <1>3, <1>4, <1>5, <1>6, <1>7, <1>8 DEF Instruction

-------------------------------------------------------------------------------
(* Calls from the scene *)

\* A step that leaves the calls on the stack and their registers as they are.
LEMMA StackTyped ==
  ASSUME FramesTyped, RegsTyped, UNCHANGED <<script, fb, regs, threshold, frames>>
  PROVE  FramesTyped' /\ RegsTyped'
  <1>1. FramesTyped'
    BY DEF FramesTyped, FrameTyped, Elements, Objects, FieldsOf
  <1>2. RegsTyped'
    BY DEF RegsTyped
  <1> QED
    BY <1>1, <1>2

LEMMA FieldChangedTyped ==
  ASSUME TypeInv, NEW n \in Routed[script], NEW value \in RouteValues, FieldChanged(n, value)
  PROVE  TypeInv'
  <1>1. UNCHANGED <<script, fb, threshold, todo, fault>> /\ fields' = [fields EXCEPT ![n] = value]
    BY DEF FieldChanged
  <1>2. n \in SFields[script] /\ value \in Int32 /\ n \notin MFields[script]
    BY RoutedFields, FieldKinds DEF TypeInv
  <1>3. FieldsTyped'
    BY <1>1, <1>2 DEF TypeInv, FieldsTyped, FieldsOf
  <1>4. posted \in Seq(CalledFields) /\ todo \in Seq(CalledFields) /\ CalledFields' = CalledFields
    BY <1>1 DEF TypeInv, CallsTyped, CalledFields, hasFunction
  <1>5. hasFunction(n) => n \in CalledFields
    BY <1>2 DEF CalledFields
  <1>6. CASE hasFunction(n) /\ Invoke(n, value) /\ invoking' = TRUE /\ posted' = posted
    <2>1. RegsTyped' /\ FramesTyped'
      BY <1>1, <1>2, <1>5, <1>6, InvokeTyped
    <2>2. CallsTyped'
      BY <1>1, <1>4, <1>6 DEF CallsTyped
    <2> QED
      BY <1>1, <1>3, <1>6, <2>1, <2>2 DEF TypeInv, Verified
  <1>7. CASE UNCHANGED <<regs, frames, invoking>> /\ (posted' = posted \/
                                     (hasFunction(n) /\ posted' = Append(posted, n)))
    <2>1. FramesTyped' /\ RegsTyped'
      BY <1>1, <1>7, StackTyped DEF TypeInv
    <2>2. posted' \in Seq(CalledFields)
      BY <1>4, <1>5, <1>7
    <2>3. CallsTyped'
      BY <1>1, <1>4, <2>2 DEF CallsTyped
    <2> QED
      BY <1>1, <1>3, <1>7, <2>1, <2>3 DEF TypeInv, Verified
  <1> QED
    BY <1>6, <1>7 DEF FieldChanged

LEMMA PostponedTyped == ASSUME TypeInv, invokePostponedCalls PROVE TypeInv'
  <1> DEFINE calls == posted \o todo
  <1>1. UNCHANGED <<script, fb, fields, threshold, invoking, fault>> /\ posted' = <<>> /\ invoking
    BY DEF invokePostponedCalls
  <1>2. posted \in Seq(CalledFields) /\ todo \in Seq(CalledFields) /\ CalledFields' = CalledFields
    BY <1>1 DEF TypeInv, CallsTyped, CalledFields, hasFunction
  <1>3. calls \in Seq(CalledFields)
    BY <1>2, ConcatProperties
  <1> HIDE DEF calls
  <1>4. calls # <<>> /\ Invoke(Head(calls), fields[Head(calls)]) /\ todo' = Tail(calls)
    BY DEF invokePostponedCalls, calls
  <1>5. Head(calls) \in CalledFields /\ Tail(calls) \in Seq(CalledFields)
    BY <1>3, <1>4
  <1>6. fields[Head(calls)] \in Int32
    BY <1>5 DEF TypeInv, FieldsTyped, CalledFields
  <1>7. RegsTyped' /\ FramesTyped'
    BY <1>1, <1>4, <1>5, <1>6, InvokeTyped
  <1>8. CallsTyped'
    BY <1>1, <1>2, <1>4, <1>5 DEF CallsTyped
  <1>9. FieldsTyped'
    BY <1>1 DEF TypeInv, FieldsTyped, FieldsOf
  <1> QED
    BY <1>1, <1>7, <1>8, <1>9 DEF TypeInv, Verified

-------------------------------------------------------------------------------
(* The type invariant *)

LEMMA InitTypeInv == ASSUME Assumed, Init PROVE TypeInv
  <1>1. script \in Scripts /\ fb = Banks[script] /\ Verified(fb)
    BY DEF Assumed, Init
  <1>2. PICK m \in Nat \ {0} : m = fb.maxRegisters
    BY <1>1 DEF Verified
  <1>3. RegsTyped
    <2>1. 2 * m = m + m /\ 2 * m - 1 = m + m - 1
      OBVIOUS
    <2>2. threshold = m /\ regs = [r \in 0 .. m + m - 1 |-> 0]
      BY <1>2, <2>1 DEF Init
    <2> QED
      BY <1>2, <2>2, SmallNumbers DEF RegsTyped
  <1>4. FieldsTyped
    <2>1. ArrayTyped(<<>>)
      BY SmallNumbers DEF ArrayTyped
    <2>2. SFields[script] \cap MFields[script] = {}
      BY <1>1, FieldKinds
    <2> QED
      BY <2>1, <2>2, SmallNumbers DEF FieldsTyped, FieldsOf, Init
  <1>5. CallsTyped
    BY DEF CallsTyped, Init
  <1>6. FramesTyped
    <2>1. CASE hasFunction(0)
      <3>1. 0 \in DOMAIN fb.functions /\ 0 \in fb.functions[0].starts
        BY <1>1, <2>1 DEF Verified, hasFunction
      <3>2. PICK g : g = Frame(0, 0, 2 * m, {})
        OBVIOUS
      <3>3. FrameTyped(g, m + m)
        BY <3>1, <3>2, SmallNumbers DEF FrameTyped, FrameFields, Frame, Objects
      <3>4. frames = <<g>> /\ threshold = m
        BY <1>2, <2>1, <3>2 DEF Init
      <3>5. frames \in [1 .. 1 -> {g}] /\ Len(frames) = 1 /\ frames[1] = g
        BY <3>4
      <3>6. frames \in Seq(Elements(frames))
        BY <3>5, FunctionIsSequence
      <3>7. 1 .. Len(frames) - 1 = {}
        BY <3>5
      <3> QED
        BY <1>2, <3>3, <3>4, <3>5, <3>6, <3>7 DEF FramesTyped
    <2>2. CASE ~hasFunction(0)
      BY <2>2 DEF Init, FramesTyped
    <2> QED
      BY <2>1, <2>2
  <1> QED
    BY <1>1, <1>3, <1>4, <1>5, <1>6 DEF TypeInv, Init

LEMMA NextTypeInv ==
  ASSUME REGISTERS_BANK \in Nat, TypeInv, [Next]_vars
  PROVE  TypeInv'
  <1>1. CASE Calls
    BY <1>1, FieldChangedTyped DEF Calls
  <1>2. CASE Instruction
    BY <1>2, InstructionTyped
  <1>3. CASE invokePostponedCalls
    BY <1>3, PostponedTyped
  <1>4. CASE Invoked \/ UNCHANGED vars
    <2>1. /\ UNCHANGED <<script, fb, fields, regs, threshold, frames, posted, todo, fault>>
          /\ invoking' = invoking \/ frames = <<>>
      BY <1>4 DEF Invoked, vars
    <2>2. FramesTyped' /\ RegsTyped'
      BY <2>1, StackTyped DEF TypeInv
    <2>3. FieldsTyped' /\ CallsTyped'
      BY <2>1 DEF TypeInv, FieldsTyped, CallsTyped, CalledFields, hasFunction, FieldsOf
    <2> QED
      BY <2>1, <2>2, <2>3 DEF TypeInv, Verified
  <1> QED
    BY <1>1, <1>2, <1>3, <1>4 DEF Next, Run

LEMMA TypeInvTypes == ASSUME TypeInv PROVE TypeOK
  <1>1. /\ frames \in Seq(Elements(frames)) /\ DOMAIN frames = 1 .. Len(frames)
        /\ posted \in Seq(CalledFields) /\ DOMAIN posted = 1 .. Len(posted)
        /\ todo \in Seq(CalledFields) /\ DOMAIN todo = 1 .. Len(todo)
    BY LenProperties DEF TypeInv, FramesTyped, CallsTyped
  <1>2. \A k \in DOMAIN frames : FrameType(frames[k])
    BY <1>1 DEF TypeInv, FramesTyped, FrameTyped, FrameType, FieldsTyped, Objects, hasFunction
  <1>3. /\ \A k \in DOMAIN posted : hasFunction(posted[k])
        /\ \A k \in DOMAIN todo : hasFunction(todo[k])
    BY <1>1, ElementOfSeq DEF CalledFields
  <1>4. \A n \in MFields[script] : \A i \in DOMAIN fields[n] : fields[n][i] \in Int32
    <2> SUFFICES ASSUME NEW n \in MFields[script], NEW i \in DOMAIN fields[n]
                 PROVE  fields[n][i] \in Int32
      OBVIOUS
    <2>1. fields[n] \in Seq(Int32)
      BY DEF TypeInv, FieldsTyped, ArrayTyped
    <2> QED
      BY <2>1
  <1>5. /\ DOMAIN regs = 0 .. threshold + fb.maxRegisters - 1
        /\ \A r \in DOMAIN regs : regs[r] \in Int32
    BY DEF TypeInv, RegsTyped
  <1>6. \A n \in SFields[script] : fields[n] \in Int32
    BY DEF TypeInv, FieldsTyped
  <1> QED
    BY <1>2, <1>3, <1>4, <1>5, <1>6 DEF TypeOK, TypeInv

\* Whatever the scripts are, and whatever the width of an integer, the values in
\* registers, fields and arrays stay integers of that width, with the lengths
\* and indices of arrays among them; a call stays at the instructions that the
\* compiler wrote, the objects it uses are the script, a field of it or none,
\* and only functions that exist are postponed (Script.java, Function.java,
\* MFInt32.java), provided that the compiler keeps its promise.
THEOREM TypesKept == ASSUME Assumed PROVE Spec => []TypeOK
  <1>1. Init => TypeInv
    BY InitTypeInv
  <1>2. TypeInv /\ [Next]_vars => TypeInv'
    BY NextTypeInv DEF Assumed
  <1>3. TypeInv => TypeOK
    BY TypeInvTypes
  <1> QED
    BY <1>1, <1>2, <1>3, PTL DEF Spec

-------------------------------------------------------------------------------
(* A call leaves the registers of the calls below it alone                     *)

\* While a call is on top of another one, no step changes a register below the
\* first parameter: those that the calls below it have in use.
RegistersKept ==
  \A k \in 1 .. Len(frames) - 1 : \A r \in DOMAIN regs :
    r < frames[k + 1].base => regs'[r] = regs[r]

\* No call starts below the one that made it, or any other below it.
LEMMA StartsAscend ==
  ASSUME TypeInv, NEW k \in 1 .. Len(frames)
  PROVE  frames[k].base <= Top.base
  <1>1. PICK n \in Nat : n = Len(frames)
    BY DEF TypeInv, FramesTyped
  <1>2. \A j \in 1 .. n : frames[j].base \in Nat
    BY <1>1 DEF TypeInv, FramesTyped, FrameTyped
  <1> DEFINE S == {d \in Nat : d < n => frames[n - d].base <= frames[n].base}
  <1>3. 0 \in S
    <2>1. 0 < n => n - 0 = n /\ n \in 1 .. n
      BY <1>1
    <2>2. 0 < n => frames[n].base \in Nat
      BY <1>2, <2>1
    <2> QED
      BY <2>1, <2>2
  <1>4. ASSUME NEW d \in Nat, d \in S PROVE d + 1 \in S
    <2> SUFFICES ASSUME d + 1 < n PROVE frames[n - (d + 1)].base <= frames[n].base
      OBVIOUS
    <2>1. PICK j \in 1 .. n - 1 : j = n - (d + 1)
      BY <1>1
    <2>2. j + 1 = n - d /\ j \in 1 .. n /\ j + 1 \in 1 .. n /\ n \in 1 .. n /\ d < n
      BY <1>1, <2>1
    <2>3. frames[j + 1].base - frames[j].base \in 0 .. 255
      BY <1>1, <2>1 DEF TypeInv, FramesTyped
    <2>4. frames[j + 1].base <= frames[n].base
      BY <1>4, <2>2
    <2>5. PICK x \in Nat, y \in Nat, z \in Nat :
            x = frames[j].base /\ y = frames[j + 1].base /\ z = frames[n].base
      BY <1>2, <2>2
    <2>6. y - x \in 0 .. 255 /\ y <= z
      BY <2>3, <2>4, <2>5
    <2>7. x <= z
      BY <2>6
    <2> QED
      BY <2>1, <2>5, <2>7
  <1>5. \A d \in Nat : d \in S
    <2> HIDE DEF S
    <2> QED
      BY <1>3, <1>4, EveryNatural
  <1>6. n - k \in Nat /\ n - k < n /\ n - (n - k) = k
    BY <1>1
  <1> QED
    BY <1>1, <1>5, <1>6 DEF Top

\* What one step of the innermost call writes.
LEMMA WritesOwnRegisters ==
  ASSUME TypeInv, REGISTERS_BANK \in Nat, frames # <<>>, [Next]_vars,
         NEW r \in DOMAIN regs, r < Top.base
  PROVE  regs'[r] = regs[r]
  <1>1. /\ Top.base \in Nat /\ r \in Int
        /\ regs \in [0 .. threshold + fb.maxRegisters - 1 -> Int32]
    BY TypedTop DEF TypeInv, RegsTyped, FrameTyped
  <1>2. ASSUME NEW a \in 0 .. 255, NEW value, regs' = [regs EXCEPT ![Top.base + a] = value]
        PROVE  regs'[r] = regs[r]
    <2>1. PICK b \in Nat : b = Top.base
      BY <1>1
    <2>2. r # b + a
      BY <1>1, <2>1
    <2> QED
      BY <1>1, <1>2, <2>1, <2>2
  <1>3. CASE Calls
    <2>1. invoking
      BY DEF TypeInv
    <2>2. regs' = regs
      BY <1>3, <2>1 DEF Calls, FieldChanged
    <2> QED
      BY <2>2
  <1>4. CASE LoadInt \/ Move \/ Invert \/ Operate \/ ExtCall
    <2>1. \/ Op \in BinaryOps \cup {"BIT_INV", "LOAD_REG_INT", "MOVE_REG_REG"}
             /\ \E value : regs' = [regs EXCEPT ![Top.base + Byte(1)] = value]
          \/ Op = "EXT_CALL" /\ \E value : regs' = [regs EXCEPT ![Top.base + Byte(3)] = value]
      BY <1>4 DEF LoadInt, Move, Invert, Operate, ExtCall, Running, Write
    <2> QED
      BY <1>2, <2>1, OneOperand, TwoOperands, ThreeOperands
  <1>5. CASE ReturnValue
    <2>1. regs' = [regs EXCEPT ![Top.base] = Reg(Byte(1))]
      BY <1>5 DEF ReturnValue
    <2> QED
      BY <1>1, <2>1
  <1>6. CASE FieldGet
    <2>1. Op = "FIELD_GET_INT_REG"
          /\ \/ regs' = regs
             \/ \E value : regs' = [regs EXCEPT ![Top.base + Byte(2)] = value]
      BY <1>6 DEF FieldGet, Running
    <2> QED
      BY <1>2, <2>1, TwoOperands
  <1>7. CASE IntCall
    <2>1. PICK t \in Nat, m \in Nat, bank \in Nat :
            t = threshold /\ m = fb.maxRegisters /\ bank = REGISTERS_BANK
      BY DEF TypeInv, RegsTyped, Verified
    <2>2. Cardinality(DOMAIN regs) = t + m
      BY <2>1, TypedLength DEF TypeInv
    <2>3. \/ regs' = regs
          \/ \E nl \in {t + m, t + m + bank} :
               regs' = [q \in 0 .. nl - 1 |-> IF q < t + m THEN regs[q] ELSE 0]
      BY <1>7, <2>1, <2>2 DEF IntCall
    <2>4. r \in 0 .. t + m - 1
      BY <1>1, <2>1
    <2>5. ASSUME NEW nl \in {t + m, t + m + bank},
                 regs' = [q \in 0 .. nl - 1 |-> IF q < t + m THEN regs[q] ELSE 0]
          PROVE  regs'[r] = regs[r]
      <3>1. r \in 0 .. nl - 1 /\ r < t + m
        BY <2>4
      <3> QED
        BY <2>5, <3>1
    <2> QED
      BY <2>3, <2>5
  <1>8. CASE \/ Nop \/ JumpAlways \/ JumpZero \/ JumpNZero \/ EndOfCode
             \/ FieldPush \/ FieldPop \/ FieldUse \/ FieldIdx \/ FieldSet
             \/ OutOfBounds \/ ArrayTooLong
    BY <1>8 DEF Nop, JumpAlways, JumpZero, JumpNZero, Jump, EndOfCode, FieldPush, FieldPop,
       FieldUse, FieldIdx, FieldSet, OutOfBounds, ArrayTooLong, Throw
  <1>9. CASE invokePostponedCalls \/ Invoked \/ UNCHANGED vars
    BY <1>9 DEF invokePostponedCalls, Invoked, vars
  <1> QED
    BY <1>3, <1>4, <1>5, <1>6, <1>7, <1>8, <1>9 DEF Next, Run, Instruction

\* Whatever a function does, and the ones it calls, the registers its callers
\* have in use keep their values until it returns (Machine.run moves the start
\* of the registers to the first parameter; no function uses one before its own
\* start).
THEOREM CallersKeepRegisters == ASSUME Assumed PROVE Spec => [][RegistersKept]_vars
  <1>1. Init => TypeInv
    BY InitTypeInv
  <1>2. TypeInv /\ [Next]_vars => TypeInv'
    BY NextTypeInv DEF Assumed
  <1>3. ASSUME TypeInv, [Next]_vars PROVE RegistersKept
    <2> SUFFICES ASSUME NEW k \in 1 .. Len(frames) - 1, NEW r \in DOMAIN regs,
                        r < frames[k + 1].base
                 PROVE  regs'[r] = regs[r]
      BY DEF RegistersKept
    <2>1. PICK n \in Nat : n = Len(frames)
      BY <1>3 DEF TypeInv, FramesTyped
    <2>2. k + 1 \in 1 .. n /\ frames # <<>>
      BY <2>1
    <2>3. frames[k + 1].base <= Top.base /\ frames[k + 1].base \in Nat
      BY <1>3, <2>1, <2>2, StartsAscend DEF TypeInv, FramesTyped, FrameTyped
    <2>4. Top.base \in Nat
      BY <1>3, <2>2, TypedTop DEF FrameTyped
    <2>5. r \in Int
      BY <1>3 DEF TypeInv, RegsTyped
    <2>6. r < Top.base
      BY <2>3, <2>4, <2>5
    <2> QED
      BY <1>3, <2>2, <2>6, WritesOwnRegisters DEF Assumed
  <1> QED
    BY <1>1, <1>2, <1>3, PTL DEF Spec
===============================================================================
