------------------------------- MODULE CodeNotes -------------------------------
(* The notes of module Machine for any bank: which registers hold a value of   *)
(* the call at each instruction, and which objects may be in use, found by     *)
(* following all paths through all functions until nothing changes. Whether    *)
(* they are right does not matter here: Noted checks them.                     *)
EXTENDS Scripts, TLC

\* F(x). TLC evaluates x first, and not when it is used: a chain of evaluations
\* as long as the code would be too deep for it.
Strict(x, F(_)) == CHOOSE result \in {F(y) : y \in {x}} : TRUE

\* Before any path is followed: the script calls function 0, routes call those
\* of the fields.
FirstNotes(s, bank) ==
  LET registers == 0 .. bank.maxRegisters - 1
      unreached == [known |-> registers, cur |-> {}, pcur |-> {}]
      entry(fn) == [ known |-> CASE fn = 0 -> {}
                                 [] fn # 0 /\ fn \in FieldsOf(s) -> {0}
                                 [] OTHER -> registers,
                     cur |-> {ScriptNode}, pcur |-> {Nothing} ]
  IN [ at |-> [ fn \in DOMAIN bank.functions |->
                  (0 :> entry(fn)) @@ [pc \in bank.functions[fn].starts |-> unreached] ],
       returns |-> DOMAIN bank.functions ]

\* What holds when an instruction is reached in two ways.
Both(a, b) ==
  [ known |-> a.known \cap b.known, cur |-> a.cur \cup b.cur, pcur |-> a.pcur \cup b.pcur ]

\* The notes of a function after its instruction at pc, if there is one.
FollowedAt(s, code, pc, notes, returns) ==
  LET after == After(s, code, pc, notes[pc], returns)
      Join(q, all) == [all EXCEPT ![q] = Both(@, after)]
  IN IF pc \notin DOMAIN notes THEN notes
     ELSE IF notes[pc].cur = {} THEN notes
     ELSE FoldSet(Join, notes, Successors(code, pc) \cap DOMAIN notes)

\* After all of its instructions between two places, one half after the other.
RECURSIVE Followed(_, _, _, _, _, _)
Followed(s, code, from, to, notes, returns) ==
  LET middle == (from + to) \div 2
      Rest(half) == Followed(s, code, middle + 1, to, half, returns)
  IN IF from = to THEN FollowedAt(s, code, from, notes, returns)
     ELSE Strict(Followed(s, code, from, middle, notes, returns), Rest)

\* The registers that all calls of a function give it.
Given(bank, fn, at) ==
  LET code(c) == bank.functions[c].code
      calls(c) == { pc \in DOMAIN at[c] : /\ Opcode(code(c)[pc + 1]) = "INT_CALL"
                                          /\ code(c)[pc + 2] = fn /\ at[c][pc].cur # {} }
  IN { k \in at[fn][0].known :
         \A c \in DOMAIN at : \A pc \in calls(c) :
           k \in Params(at[c][pc].known, code(c)[pc + 3]) }

AllFollowed(s, bank, notes) ==
  LET code(fn) == bank.functions[fn].code
      Through(fn, at) ==
        (fn :> Followed(s, code(fn), 0, Len(code(fn)) - 1, at[fn], notes.returns)) @@ at
      Called(at) ==
        [ at |-> [fn \in DOMAIN at |-> [at[fn] EXCEPT ![0].known = Given(bank, fn, at)]],
          returns |-> { fn \in notes.returns :
                          \A pc \in DOMAIN at[fn] :
                            Opcode(code(fn)[pc + 1]) = "ENDOFCODE" => 0 \in at[fn][pc].known } ]
  IN Strict(FoldSet(Through, notes.at, DOMAIN notes.at), Called)

RECURSIVE Settled(_, _, _)
Settled(s, bank, notes) ==
  LET Again(next) == IF next = notes THEN notes ELSE Settled(s, bank, next)
  IN Strict(AllFollowed(s, bank, notes), Again)

CodeNotes ==
  [ s \in Scripts |-> {Settled(s, bank, FirstNotes(s, bank)) : bank \in {Banks[s]}} ]
===============================================================================
