---------------------------- MODULE ScriptSemantics ----------------------------
(* What the scripts of a scene mean: a reference interpreter of the part of    *)
(* ECMAScript that the scripts are written in, on the tree of a program, and the   *)
(* text of a program as a sequence of tokens. It knows nothing of registers,   *)
(* bytecode or of the parser: it is what both are compared with.               *)
(*                                                                             *)
(* A program is [fields, functions]: the declared fields <<name, type>> with   *)
(* type "SF" or "MF", and the functions [name, params, body]. Trees are        *)
(* records with the kind k.                                                    *)
EXTENDS Integers, Sequences

CONSTANT WIDTH   \* the width of an integer

-------------------------------------------------------------------------------
(* Trees *)

Num(v) == [k |-> "num", v |-> v]
Id(x) == [k |-> "id", x |-> x]
At(x, i) == [k |-> "at", x |-> x, i |-> i]
LengthOf(x) == [k |-> "length", x |-> x]
Bin(op, a, b) == [k |-> "bin", op |-> op, a |-> a, b |-> b]
Un(op, a) == [k |-> "un", op |-> op, a |-> a]
Tern(c, a, b) == [k |-> "tern", c |-> c, a |-> a, b |-> b]
Call(f, args) == [k |-> "call", x |-> f, args |-> args]
Floor(a) == [k |-> "floor", a |-> a]

None == [k |-> "none"]

Var(x, e) == [k |-> "var", x |-> x, e |-> e]
Assign(to, e) == [k |-> "assign", to |-> to, e |-> e]
Update(to, op, e) == [k |-> "update", to |-> to, op |-> op, e |-> e]
Step(to, op, pre) == [k |-> "step", to |-> to, op |-> op, pre |-> pre]
If(c, a, b) == [k |-> "if", c |-> c, a |-> a, b |-> b]
While(c, s) == [k |-> "while", c |-> c, s |-> s]
For(i, c, p, s) == [k |-> "for", i |-> i, c |-> c, p |-> p, s |-> s]
Switch(e, body) == [k |-> "switch", e |-> e, body |-> body]
Case(e) == [k |-> "case", e |-> e]
Default == [k |-> "default"]
Break == [k |-> "break"]
Continue == [k |-> "continue"]
Ret(e) == [k |-> "return", e |-> e]
Do(e) == [k |-> "do", e |-> e]
Block(body) == [k |-> "block", body |-> body]

Fun(name, params, body) == [name |-> name, params |-> params, body |-> body]

-------------------------------------------------------------------------------
(* The text of a program *)

\* How tight the operators of ECMAScript bind.
Binds ==
  [ times |-> 13, over |-> 13, mod |-> 13, plus |-> 12, minus |-> 12, shl |-> 11,
    sar |-> 11, shr |-> 11, lt |-> 10, le |-> 10, gt |-> 10, ge |-> 10, eq |-> 9,
    ne |-> 9, and |-> 8, xor |-> 7, or |-> 6, land |-> 5, lor |-> 4 ]

Symbol ==
  [ times |-> <<"*">>, over |-> <<"/">>, mod |-> <<"%">>, plus |-> <<"+">>,
    minus |-> <<"-">>, shl |-> <<"<","<">>, sar |-> <<">",">">>,
    shr |-> <<">",">",">">>, lt |-> <<"<">>, le |-> <<"<","=">>, gt |-> <<">">>,
    ge |-> <<">","=">>, eq |-> <<"=","=">>, ne |-> <<"!","=">>, and |-> <<"&">>,
    xor |-> <<"^">>, or |-> <<"|">>, land |-> <<"&","&">>, lor |-> <<"|","|">>,
    inc |-> <<"+","+">>, dec |-> <<"-","-">>, neg |-> <<"-">>, inv |-> <<"~">>,
    not |-> <<"!">> ]

Numerals == << "0", "1", "2", "3", "4", "5", "6", "7", "8", "9", "10", "11", "12",
               "13", "14", "15", "16", "17", "18", "19", "20" >>

\* A list of texts with a separator.
RECURSIVE Joined(_, _)
Joined(texts, sep) ==
  IF texts = <<>> THEN <<>>
  ELSE IF Len(texts) = 1 THEN texts[1]
  ELSE texts[1] \o sep \o Joined(Tail(texts), sep)

Strength(e) ==
  CASE e.k = "bin" -> Binds[e.op]
    [] e.k = "un" -> 14
    [] e.k = "tern" -> 3
    [] OTHER -> 20

\* An expression where operators of a strength up to min stand around it:
\* parentheses only when it needs them.
RECURSIVE Show(_, _)
Show(e, min) ==
  LET plain ==
        CASE e.k = "num" -> << Numerals[e.v + 1] >>
          [] e.k = "id" -> << e.x >>
          [] e.k = "at" -> << e.x, "[" >> \o Show(e.i, 0) \o << "]" >>
          [] e.k = "length" -> << e.x, ".", "length" >>
          [] e.k = "bin" -> Show(e.a, Binds[e.op]) \o << " " >> \o Symbol[e.op] \o << " " >>
                              \o Show(e.b, Binds[e.op] + 1)
          [] e.k = "un" -> Symbol[e.op] \o Show(e.a, 14)
          [] e.k = "tern" -> Show(e.c, 4) \o << " ", "?", " " >> \o Show(e.a, 4) \o << ":" >>
                               \o Show(e.b, 3)
          [] e.k = "call" -> << e.x, "(" >>
                               \o Joined([i \in DOMAIN e.args |-> Show(e.args[i], 0)], << "," >>)
                               \o << ")" >>
          [] e.k = "floor" -> << "Math", ".", "floor", "(" >> \o Show(e.a, 0) \o << ")" >>
          [] e.k = "none" -> <<>>
  IN IF Strength(e) < min THEN << "(" >> \o plain \o << ")" >> ELSE plain

\* An instruction, without its semicolon when bare.
RECURSIVE Text(_, _)
Text(s, bare) ==
  LET end == IF bare THEN <<>> ELSE << ";" >>
      all(body) == Joined([i \in DOMAIN body |-> Text(body[i], FALSE)], <<>>)
  IN CASE s.k = "none" -> end
       [] s.k = "var" -> << "var", s.x >>
                           \o (IF s.e.k = "none" THEN <<>> ELSE << "=" >> \o Show(s.e, 0)) \o end
       [] s.k = "assign" -> Show(s.to, 0) \o << "=" >> \o Show(s.e, 0) \o end
       [] s.k = "update" -> Show(s.to, 0) \o Symbol[s.op] \o << "=" >> \o Show(s.e, 0) \o end
       [] s.k = "step" -> (IF s.pre THEN Symbol[s.op] \o Show(s.to, 0)
                           ELSE Show(s.to, 0) \o Symbol[s.op]) \o end
       [] s.k = "if" -> << "if", "(" >> \o Show(s.c, 0) \o << ")" >> \o Text(s.a, FALSE)
                          \o (IF s.b.k = "none" THEN <<>> ELSE << "else" >> \o Text(s.b, FALSE))
       [] s.k = "while" -> << "while", "(" >> \o Show(s.c, 0) \o << ")" >> \o Text(s.s, FALSE)
       [] s.k = "for" -> << "for", "(" >> \o Text(s.i, FALSE) \o Show(s.c, 0) \o << ";" >>
                           \o Text(s.p, TRUE) \o << ")" >> \o Text(s.s, FALSE)
       [] s.k = "switch" -> << "switch", "(" >> \o Show(s.e, 0) \o << ")", "{" >>
                              \o all(s.body) \o << "}" >>
       [] s.k = "case" -> << "case" >> \o Show(s.e, 0) \o << ":" >>
       [] s.k = "default" -> << "default", ":" >>
       [] s.k = "break" -> << "break", ";" >>
       [] s.k = "continue" -> << "continue", ";" >>
       [] s.k = "return" -> << "return" >> \o Show(s.e, 0) \o << ";" >>
       [] s.k = "do" -> Show(s.e, 0) \o end
       [] s.k = "block" -> << "{" >> \o all(s.body) \o << "}" >>

Source(prog) ==
  Joined([ i \in DOMAIN prog.functions |->
             LET f == prog.functions[i]
             IN << "function", f.name, "(" >>
                  \o Joined([k \in DOMAIN f.params |-> << f.params[k] >>], << "," >>)
                  \o << ")" >> \o Text(Block(f.body), FALSE) ], <<>>)

-------------------------------------------------------------------------------
(* Integers *)

\* n wrapped to the width of an integer.
Wrap(n) == ((n + 2^(WIDTH - 1)) % 2^WIDTH) - 2^(WIDTH - 1)

Truth(b) == IF b THEN 1 ELSE 0

\* The bits of two integers, combined from the lowest on: And, Or or Xor.
RECURSIVE Bits(_, _, _, _)
Bits(op, a, b, n) ==
  LET x == a % 2
      y == b % 2
      bit == CASE op = "and" -> x = 1 /\ y = 1
               [] op = "or" -> x = 1 \/ y = 1
               [] op = "xor" -> x # y
  IN IF n = 0 THEN 0 ELSE Truth(bit) + 2 * Bits(op, a \div 2, b \div 2, n - 1)

\* Division rounds towards zero, and gives 0 when the divisor is 0.
Quotient(a, b) ==
  IF b = 0 THEN 0
  ELSE IF b < 0 THEN Wrap(-(IF a >= 0 THEN a \div (-b) ELSE -((-a) \div (-b))))
  ELSE IF a >= 0 THEN a \div b ELSE -((-a) \div b)

Result(op, a, b) ==
  CASE op = "times" -> Wrap(a * b)
    [] op = "over" -> Quotient(a, b)
    [] op = "mod" -> IF b = 0 THEN a ELSE a - b * Quotient(a, b)
    [] op = "plus" -> Wrap(a + b)
    [] op = "minus" -> Wrap(a - b)
    [] op = "shl" -> Wrap(a * 2^(b % WIDTH))
    [] op = "sar" -> a \div 2^(b % WIDTH)
    [] op = "shr" -> Wrap((a % 2^WIDTH) \div 2^(b % WIDTH))
    [] op = "lt" -> Truth(a < b)
    [] op = "le" -> Truth(a <= b)
    [] op = "gt" -> Truth(a > b)
    [] op = "ge" -> Truth(a >= b)
    [] op = "eq" -> Truth(a = b)
    [] op = "ne" -> Truth(a # b)
    [] op \in {"and", "or", "xor"} -> Wrap(Bits(op, a, b, WIDTH))
    [] op = "neg" -> Wrap(-a)
    [] op = "inv" -> -a - 1
    [] op = "not" -> Truth(a = 0)

-------------------------------------------------------------------------------
(* The interpreter. A state is                                                 *)
(*   [vars, fields, posted, flow, val]: the variables in scope, newest first,  *)
(*   the fields by name, the fields with a function that were written, how the *)
(*   last instruction ended (next, break, continue, return) and the last value *)

FunctionOf(prog, name) ==
  CHOOSE f \in {i \in DOMAIN prog.functions : prog.functions[i].name = name} : TRUE
IsFunction(prog, name) == \E i \in DOMAIN prog.functions : prog.functions[i].name = name

IsVar(st, x) == \E i \in DOMAIN st.vars : st.vars[i].x = x
Newest(st, x) == CHOOSE i \in DOMAIN st.vars :
                   st.vars[i].x = x /\ \A j \in 1 .. i - 1 : st.vars[j].x # x

\* The variables that are left when the newest ones go out of scope.
Outer(st, n) == [st EXCEPT !.vars = SubSeq(@, Len(@) - n + 1, Len(@))]

Declare(st, x, v) == [st EXCEPT !.vars = << [x |-> x, v |-> v] >> \o @]

Padded(s, i, v) ==
  IF i < Len(s) THEN [s EXCEPT ![i + 1] = v]
  ELSE s \o [k \in 1 .. i - Len(s) |-> 0] \o << v >>

\* A variable or a field gets a value; a field with a function calls it later.
Put(prog, st, x, i, v) ==
  LET written == [st EXCEPT !.fields[x] = IF i.k = "none" THEN v ELSE Padded(@, i.val, v)]
  IN IF IsVar(st, x) THEN [st EXCEPT !.vars[Newest(st, x)].v = v]
     ELSE IF i.k # "none" /\ i.val < 0 THEN st
     ELSE IF IsFunction(prog, x) THEN [written EXCEPT !.posted = Append(@, x)]
     ELSE written

RECURSIVE Eval(_, _, _), EvalAll(_, _, _), Exec(_, _, _), ExecAll(_, _, _),
          Repeat(_, _, _)

\* A call sees its parameters only; without a return its value is unknown.
Apply(prog, name, args, st) ==
  LET f == prog.functions[FunctionOf(prog, name)]
      params == [ i \in DOMAIN f.params |->
                    [x |-> f.params[i], v |-> IF i \in DOMAIN args THEN args[i] ELSE 0] ]
      done == ExecAll(prog, f.body, [st EXCEPT !.vars = params])
  IN [done EXCEPT !.vars = st.vars, !.flow = "next"]

\* The values of a list of expressions, from left to right.
EvalAll(prog, es, st) ==
  IF es = <<>> THEN [st EXCEPT !.val = <<>>]
  ELSE LET a == Eval(prog, Head(es), st)
           rest == EvalAll(prog, Tail(es), a)
       IN [rest EXCEPT !.val = << a.val >> \o @]

Eval(prog, e, st) ==
  LET a == Eval(prog, e.a, st)
      b == Eval(prog, e.b, a)
      i == Eval(prog, e.i, st)
      c == Eval(prog, e.c, st)
      args == EvalAll(prog, e.args, st)
  IN CASE e.k = "num" -> [st EXCEPT !.val = e.v]
       [] e.k = "id" -> [st EXCEPT !.val = IF IsVar(st, e.x) THEN st.vars[Newest(st, e.x)].v
                                           ELSE st.fields[e.x]]
       [] e.k = "at" -> [i EXCEPT !.val = IF @ \in 0 .. Len(i.fields[e.x]) - 1
                                          THEN i.fields[e.x][@ + 1] ELSE 0]
       [] e.k = "length" -> [st EXCEPT !.val = Len(st.fields[e.x])]
       [] e.k = "bin" ->
            CASE e.op = "land" -> IF a.val = 0 THEN a ELSE b
              [] e.op = "lor" -> IF a.val # 0 THEN a ELSE b
              [] OTHER -> [b EXCEPT !.val = Result(e.op, a.val, b.val)]
       [] e.k = "un" -> [a EXCEPT !.val = Result(e.op, a.val, 0)]
       [] e.k = "tern" -> IF c.val # 0 THEN Eval(prog, e.a, c) ELSE Eval(prog, e.b, c)
       [] e.k = "call" -> Apply(prog, e.x, args.val, args)
       [] e.k = "floor" -> a

\* A loop whose test holds or is not there: its body, then the instruction p.
Repeat(prog, s, st) ==
  LET c == IF s.c.k = "none" THEN [st EXCEPT !.val = 1] ELSE Eval(prog, s.c, st)
      b == Exec(prog, s.s, c)
      p == Exec(prog, s.p, [b EXCEPT !.flow = "next"])
  IN CASE c.val = 0 -> c
       [] c.val # 0 /\ b.flow = "return" -> b
       [] c.val # 0 /\ b.flow = "break" -> [b EXCEPT !.flow = "next"]
       [] OTHER -> Repeat(prog, s, p)

\* The instructions of a switch from the case of its value, or from the default.
Chosen(prog, s, v, st) ==
  LET equal == {i \in DOMAIN s.body : s.body[i].k = "case"
                                      /\ Eval(prog, s.body[i].e, st).val = v}
      default == {i \in DOMAIN s.body : s.body[i].k = "default"}
      from == IF equal # {} THEN equal ELSE default
      first == CHOOSE i \in from : \A j \in from : i <= j
  IN IF from = {} THEN <<>> ELSE SubSeq(s.body, first, Len(s.body))

Exec(prog, s, st) ==
  LET to == s.to
      i == IF to.k = "at" THEN Eval(prog, to.i, st) ELSE [st EXCEPT !.val = 0]
      index == IF to.k = "at" THEN [k |-> "at", val |-> i.val] ELSE None
      value == Eval(prog, s.e, i)
      old == Eval(prog, to, i)
      n == Len(st.vars)
      test == Eval(prog, s.c, st)
      e == Eval(prog, s.e, st)
      scoped(done) == Outer(done, n)
      switched == ExecAll(prog, Chosen(prog, s, e.val, e), e)
  IN CASE s.k \in {"none", "case", "default"} -> st
       [] s.k = "var" -> IF s.e.k = "none" THEN Declare(st, s.x, 0) ELSE Declare(e, s.x, e.val)
       [] s.k = "assign" -> Put(prog, value, to.x, index, value.val)
       [] s.k = "update" -> Put(prog, value, to.x, index, Result(s.op, old.val, value.val))
       [] s.k = "step" -> Put(prog, i, to.x, index,
                              Result(IF s.op = "inc" THEN "plus" ELSE "minus", old.val, 1))
       [] s.k = "if" -> IF test.val # 0 THEN Exec(prog, s.a, test) ELSE Exec(prog, s.b, test)
       [] s.k = "while" -> Repeat(prog, For(None, s.c, None, s.s), st)
       [] s.k = "for" -> scoped(Repeat(prog, s, Exec(prog, s.i, st)))
       [] s.k = "switch" -> scoped([switched EXCEPT !.flow = IF @ = "break" THEN "next" ELSE @])
       [] s.k \in {"break", "continue"} -> [st EXCEPT !.flow = s.k]
       [] s.k = "return" -> [e EXCEPT !.flow = "return"]
       [] s.k = "do" -> e
       [] s.k = "block" -> scoped(ExecAll(prog, s.body, st))

ExecAll(prog, body, st) ==
  IF body = <<>> \/ st.flow # "next" THEN st
  ELSE ExecAll(prog, Tail(body), Exec(prog, Head(body), st))

-------------------------------------------------------------------------------
(* A script in its scene *)

\* The functions of the fields that were written, the oldest write first; what
\* they write themselves comes directly after them.
RECURSIVE Drain(_, _, _)
Drain(prog, calls, st) ==
  IF calls = <<>> THEN st
  ELSE LET x == Head(calls)
           done == Apply(prog, x, << st.fields[x] >>, st)
       IN Drain(prog, done.posted \o Tail(calls), [done EXCEPT !.posted = <<>>])

\* initialize when the script is loaded, then one change after the other.
RECURSIVE Played(_, _, _)
Played(prog, changes, st) ==
  IF changes = <<>> THEN st
  ELSE LET x == Head(changes)[1]
           changed == [st EXCEPT !.fields[x] = Head(changes)[2]]
       IN Played(prog, Tail(changes),
                 Drain(prog, IF IsFunction(prog, x) THEN << x >> ELSE <<>>, changed))

Loaded(prog) ==
  LET names == {prog.fields[i].name : i \in DOMAIN prog.fields}
      type(x) == prog.fields[CHOOSE i \in DOMAIN prog.fields : prog.fields[i].name = x].type
      st == [ vars |-> <<>>, posted |-> <<>>, flow |-> "next", val |-> 0,
              fields |-> [x \in names |-> IF type(x) = "SF" THEN 0 ELSE <<>>] ]
      done == Apply(prog, "initialize", <<>>, st)
  IN IF IsFunction(prog, "initialize")
     THEN Drain(prog, done.posted, [done EXCEPT !.posted = <<>>]) ELSE st

\* The fields of a script after a sequence of changes <<field, value>>.
FieldsAfter(prog, changes) ==
  LET st == Played(prog, changes, Loaded(prog)) IN st.fields
===============================================================================
