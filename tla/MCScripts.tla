------------------------------- MODULE MCScripts -------------------------------
(* The scripts TLC compiles and runs. n is the value that was routed.          *)
EXTENDS CodeNotes

n == Id("n")
v == Id("v")
r == Id("r")
f == Id("f")
g == Id("g")
i == Id("i")
j == Id("j")
x == Id("x")
y == Id("y")

Fields == << [name |-> "v", type |-> "SF"], [name |-> "r", type |-> "MF"],
             [name |-> "f", type |-> "SF"], [name |-> "g", type |-> "SF"] >>

Script(functions) == [fields |-> Fields, functions |-> functions]
Handler(body) == Fun("v", <<"n", "t">>, body)
Inc(to) == Step(to, "inc", FALSE)
Dec(to) == Step(to, "dec", FALSE)
Plus(a, b) == Bin("plus", a, b)

\* A block is only allowed behind an instruction that takes one.
Inner(body) == If(Num(1), Block(body), None)

-------------------------------------------------------------------------------
(* Two operators in one expression, grouped either way: the text has           *)
(* parentheses where the group needs them, and none where it does not.         *)

Operators == << "times", "over", "plus", "minus", "shl", "lt", "ge", "eq", "and", "xor",
                "or", "land", "lor" >>

Pair(op, o, left) ==
  IF left THEN Bin(o, Bin(op, n, Num(3)), Plus(f, Num(2)))
  ELSE Bin(op, n, Bin(o, f, Num(3)))

Pairs(op) ==
  LET e(k) == Pair(op, Operators[(k + 1) \div 2], k % 2 = 1)
  IN Script(<< Handler([ k \in 1 .. 2 * Len(Operators) |->
                           Assign(At("r", Num(k % 8)), Plus(At("r", Num((k + 7) % 8)), e(k))) ]
                       \o << Assign(f, Plus(n, Num(1))) >>) >>)

-------------------------------------------------------------------------------
(* Control *)

\* Loops in loops, left and continued at both depths.
Loops == Script(<< Handler(<<
  For(Var("i", Num(0)), Bin("lt", i, Num(6)), Inc(i), Block(<<
    If(Bin("eq", i, n), Continue, None),
    Var("j", Num(0)),
    While(Bin("lt", j, Num(5)), Block(<<
      Inc(j),
      If(Bin("eq", Plus(i, j), Num(5)), Continue, None),
      If(Bin("gt", j, i), Break, None),
      Assign(f, Plus(Bin("times", f, Num(2)), Bin("xor", i, j))) >>)),
    If(Bin("gt", f, Num(20)), Assign(f, Bin("minus", f, Num(20))), Inc(g)) >>)),
  Assign(At("r", n), f) >>) >>)

\* A switch in a loop, with a default in the middle, falling through, left by a
\* break and by a continue.
Switches == Script(<< Handler(<<
  For(Var("i", Num(0)), Bin("le", i, Plus(n, Num(3))), Inc(i), Block(<<
    Switch(Plus(i, n), <<
      Case(Num(1)), Update(f, "plus", Num(1)),
      Case(Num(2)), Update(f, "plus", Num(2)), Break,
      Default, Update(g, "plus", Num(1)),
      Case(Num(4)), If(Bin("eq", i, Num(2)), Continue, None), Update(f, "plus", Num(4)), Break,
      Case(Num(5)), Inner(<< Update(g, "plus", Num(5)), Break >>),
      Case(Num(6)), Update(f, "times", Num(2)) >>),
    Switch(i, << Case(Num(3)), Update(g, "times", Num(2)) >>),
    Assign(At("r", i), Plus(f, g)) >>)) >>) >>)

\* Variables that hide others of the same name, at every depth, and the same
\* registers used for different variables one after the other.
Scopes == Script(<<
  Fun("x", <<"n", "y">>, <<
    Inner(<< Var("x", Plus(n, y)), Inner(<< Var("y", x), Inc(y), Assign(f, y) >>),
             Assign(g, Plus(x, y)) >>),
    Var("i", Num(7)),
    For(Var("i", Num(1)), Bin("lt", i, Num(4)), Inc(i), Block(<<
      Var("y", Bin("times", i, n)), Update(f, "plus", y) >>)),
    Ret(Plus(i, y)) >>),
  Handler(<<
    Var("i", Call("x", << n, Plus(n, Num(1)) >>)), Inner(<< Var("j", Num(9)), Var("y", j) >>),
    Var("y", None), Assign(At("r", Num(0)), Plus(i, y)),
    If(n, Block(<< Var("i", Num(5)), Assign(g, Plus(g, i)) >>), Assign(g, i)) >>) >>)

-------------------------------------------------------------------------------
(* Calls *)

\* Recursion that needs more registers, a call before the function is declared,
\* calls as parameters of calls, and a result that is not used.
Recursion == Script(<<
  Handler(<<
    Assign(f, Plus(Call("sum", << Plus(n, Num(2)) >>), Num(1))),
    Assign(g, Bin("minus", Call("sub", << Call("sub", << Num(9), n >>), Call("sum", << n >>) >>),
                  Call("sub", << n, f >>))),
    Do(Call("sum", << Num(2) >>)), Do(Floor(g)),
    Assign(At("r", Floor(n)), Floor(Plus(n, Call("sub", << f, g >>)))) >>),
  Fun("sum", <<"x">>, <<
    If(Bin("le", x, Num(0)), Ret(Num(0)), None),
    Var("y", Call("sum", << Bin("minus", x, Num(1)) >>)),
    Ret(Plus(x, y)) >>),
  Fun("sub", <<"x", "y">>, << Ret(Bin("minus", x, y)) >>) >>)

\* A function that needs more registers than the player adds at a time.
Wide == Script(<<
  Handler(<< Assign(f, Call("deep", << Plus(n, Num(4)) >>)) >>),
  Fun("deep", <<"x">>,
    [ k \in 1 .. 17 |-> Var("y", Plus(x, Num(k))) ] \o <<
      If(x, Ret(Plus(x, Call("deep", << Bin("minus", x, Num(1)) >>))), None),
      Ret(x) >>) >>)

\* Functions that write fields with functions: the calls are postponed, made in
\* the order of the writes, and each sees the last value of its field.
Postponed == Script(<<
  Fun("initialize", <<>>, << Assign(f, Num(1)), Assign(g, Num(2)), Assign(f, Num(3)) >>),
  Handler(<< Assign(f, n), Assign(At("r", LengthOf("r")), Num(1)), Assign(g, Plus(n, Num(1))),
             Assign(f, Plus(n, Num(2))) >>),
  Fun("f", <<"x">>, <<
    Assign(At("r", LengthOf("r")), Plus(x, Num(10))),
    If(Bin("eq", x, Num(3)), Assign(g, Num(0)), None) >>),
  Fun("g", <<"x">>, <<
    Assign(At("r", LengthOf("r")), Plus(x, Num(14))),
    If(Bin("eq", x, Num(0)), Assign(g, Num(5)), None) >>) >>)

-------------------------------------------------------------------------------
(* Fields, assignments and conditions *)

\* Arrays: extended, out of bounds, negative, updated at a fixed index.
Arrays == Script(<< Handler(<<
  Assign(At("r", n), Num(4)), Assign(At("r", Bin("minus", n, Num(4))), Num(5)),
  Update(At("r", Num(1)), "minus", Num(3)), Inc(At("r", Num(2))),
  Step(At("r", Num(0)), "dec", TRUE),
  Assign(At("r", Plus(LengthOf("r"), Num(1))), Plus(At("r", Num(1)), At("r", Num(20)))),
  Assign(f, At("r", Bin("minus", Num(1), n))), Assign(g, LengthOf("r")) >>) >>)

\* An index that no length follows, before and behind which fields are written.
Longest == Script(<< Handler(<<
  Assign(f, n), Assign(At("r", Bin("minus", Bin("shl", n, Num(15)), Num(1))), Num(1)),
  Assign(g, n) >>) >>)

\* The second operand of a logical operator is not always evaluated.
Conditions == Script(<<
  Fun("mark", <<"x">>, << Update(g, "plus", x), Ret(Bin("minus", x, Num(1))) >>),
  Handler(<<
    Var("y", Bin("land", Call("mark", << n >>), Bin("lor", Call("mark", << Num(2) >>), f))),
    If(Un("not", Bin("lor", Bin("eq", n, Num(0)), Call("mark", << Num(1) >>))), Inc(f), None),
    Assign(f, Plus(f, Tern(Bin("gt", n, Num(1)), Call("mark", << Num(3) >>), Un("neg", y)))),
    Assign(At("r", Num(0)), Tern(n, Tern(f, Num(1), Num(2)), Num(3))),
    While(Bin("land", Bin("lt", y, Num(4)), Un("inv", y)), Inc(y)),
    Assign(At("r", Num(1)), y) >>) >>)

\* Every assignment with an operator, steps before and after, shifts to the
\* right, and values that wrap around.
Updates == Script(<< Handler(<<
  Var("x", Plus(n, Num(20))),
  Update(x, "times", Num(20)), Update(x, "over", Num(3)), Update(x, "mod", Num(16)),
  Update(x, "shl", Num(2)), Update(x, "or", Num(3)), Update(x, "xor", Num(5)),
  Update(x, "and", Num(19)), Update(x, "minus", Plus(n, n)), Update(x, "plus", Num(1)),
  Step(x, "inc", TRUE), Dec(x), Step(f, "dec", TRUE), Inc(g),
  None,
  Assign(At("r", Num(0)), x), Update(x, "sar", Num(1)), Assign(At("r", Num(1)), x),
  Update(x, "times", Num(0)), Update(x, "minus", Num(12)), Update(x, "shr", Num(14)),
  Assign(At("r", Num(2)), Plus(x, Bin("sar", n, Num(1)))),
  Assign(At("r", Num(3)), Bin("shl", Num(3), Num(14))),
  For(None, Bin("lt", x, Num(20)), Update(x, "plus", Num(7)), None),
  Assign(At("r", Num(4)), Bin("over", Un("neg", x), Plus(Num(2), n))) >>) >>)

MCPrograms == [k \in 1 .. Len(Operators) |-> Pairs(Operators[k])] \o
  << Longest, Loops, Switches, Scopes, Recursion, Wide, Postponed, Arrays, Conditions, Updates >>

MCScriptNumbers == DOMAIN MCPrograms
MCSFields == [s \in DOMAIN MCPrograms |-> Numbers(MCPrograms[s], {"SF"})]
MCMFields == [s \in DOMAIN MCPrograms |-> Numbers(MCPrograms[s], {"MF"})]

\* The scene changes v and, in the script of the postponed calls, f; in the one
\* before it also a field without a function.
MCRouted == [ s \in DOMAIN MCPrograms |->
                CASE s = Len(MCPrograms) - 3 -> {2, 4}
                  [] s = Len(MCPrograms) - 5 -> {2, 5}
                  [] OTHER -> {2} ]
===============================================================================
