----------------------------- MODULE CodeGenerator -----------------------------
(* The generation of bytecode from the Code objects of a function              *)
(* (Code::generate in Code.cpp), and the compilation of a whole script         *)
(* (class Scripter of Scripter.cpp) into what the player loads: the bank of    *)
(* its functions.                                                              *)
EXTENDS Scripter

RECURSIVE generate(_, _, _), generateAll(_, _)

\* The instruction of a binary operator.
BinaryOp ==
  [ INC |-> "ADD_REG_REG", PLUS |-> "ADD_REG_REG", DEC |-> "SUB_REG_REG",
    MINUS |-> "SUB_REG_REG", MULT |-> "MUL_REG_REG", DIV |-> "DIV_REG_REG",
    MODULO |-> "MOD_REG_REG", EQUAL |-> "TEST_EQU", NOTEQUAL |-> "TEST_NEQ",
    GREATER |-> "TEST_GRT", GREATEQ |-> "TEST_GRE", LESSER |-> "TEST_LES",
    LESSEQ |-> "TEST_LEE", BIT_AND |-> "BIT_AND", BIT_OR |-> "BIT_OR",
    BIT_XOR |-> "BIT_XOR", BIT_LSHIFT |-> "BIT_LS", BIT_RSHIFT |-> "BIT_RS",
    BIT_RRSHIFT |-> "BIT_RRS" ]

\* The left operand in reg, the right one in a register of its own.
generateBinary(opcode, kids, g, reg) ==
  LET left == generate(kids[1], g, reg)
      reg2 == getRegister(left, FALSE)
      right == generate(kids[2], reg2, reg2.ret)
  IN freeRegister(add(right, opcode, << reg, reg2.ret >>), reg2.ret)

-------------------------------------------------------------------------------
(* Instructions that jump. Each one returns the emitter after it; h.ret is what *)
(* the operation before it returned, a register or a label.                    *)

\* The code of a test: jump to label when it is false.
generateTest(test, g, label) ==
  LET r == getRegister(g, FALSE)
      t == generate(test, r, r.ret)
  IN freeRegister(addJumpZero(t, r.ret, label, FALSE), r.ret)

generateIf(kids, g) ==
  LET else == getLabel(g)
      then == generate(kids[2], generateTest(kids[1], else, else.ret), -1)
      end == getLabel(then)
      third == generate(kids[3], setLabel(addJump(end, end.ret), else.ret), -1)
  IN IF kids[3] = NULL THEN setLabel(then, else.ret) ELSE setLabel(third, end.ret)

\* The body of a loop, between the labels its break and continue jump to.
generateBody(body, g, break, continue) ==
  LET b == generate(body, [g EXCEPT !.brk = break, !.cont = continue], -1)
  IN [b EXCEPT !.brk = g.brk, !.cont = g.cont]

generateWhile(kids, g) ==
  LET again == getLabel(g)
      end == getLabel(setLabel(again, again.ret))
      test == generateTest(kids[1], end, end.ret)
      body == generateBody(kids[2], test, end.ret, again.ret)
  IN setLabel(addJump(body, again.ret), end.ret)

\* Mutant: a continue in a for goes to the test.
generateForTest(kids, g) ==
  LET again == getLabel(g)
      end == getLabel(setLabel(again, again.ret))
      test == generateTest(kids[1], end, end.ret)
      body == generateBody(kids[2], test, end.ret, again.ret)
      post == generate(kids[3], body, -1)
  IN setLabel(addJump(post, again.ret), end.ret)

\* A continue in a for goes to the instruction after the body.
generateFor(kids, g) ==
  LET again == getLabel(g)
      end == getLabel(setLabel(again, again.ret))
      next == getLabel(generateTest(kids[1], end, end.ret))
      body == generateBody(kids[2], next, end.ret, next.ret)
      post == generate(kids[3], setLabel(body, next.ret), -1)
  IN setLabel(addJump(post, again.ret), end.ret)

\* One test and jump per case; the label of a case or default is kept in its node.
\* s is [g, instrs, default]: the instructions of the block with their labels.
switchCase(s, i, reg, caseReg) ==
  LET n == s.instrs[i]
      l == getLabel(s.g)
      value == generate(n.kids[1], l, caseReg)
      test == addJumpZero(add(value, "TEST_NEQ", << caseReg, reg >>), caseReg, l.ret, FALSE)
      instrs == [s.instrs EXCEPT ![i].val = l.ret]
  IN CASE n.op = "CASE" -> [s EXCEPT !.g = test, !.instrs = instrs]
       [] n.op = "DEFAULT" -> [g |-> l, instrs |-> instrs, default |-> l.ret]
       [] OTHER -> s

generateSwitch(kids, g) ==
  LET r == getRegister(g, FALSE)
      reg == r.ret
      end == getLabel(generate(kids[1], r, reg))
      c == getRegister(end, FALSE)
      instrs == kids[2][1].kids[1]
      s == FoldLeft(LAMBDA a, i : switchCase(a, i, reg, c.ret),
                    [g |-> c, instrs |-> instrs, default |-> end.ret],
                    [i \in DOMAIN instrs |-> i])
      jump == freeRegister(addJump(freeRegister(s.g, c.ret), s.default), reg)
      block == << [kids[2][1] EXCEPT !.kids = << s.instrs >>] >>
      body == generateBody(block, jump, end.ret, g.cont)
  IN setLabel(body, end.ret)

\* a && b and a || b: the second operand only when the first does not decide.
generateLogical(kids, g, reg, negate) ==
  LET l == getLabel(g)
      first == addJumpZero(generate(kids[1], l, reg), reg, l.ret, negate)
  IN setLabel(generate(kids[2], first, reg), l.ret)

generateTernary(kids, g, reg) ==
  LET else == getLabel(generate(kids[1], g, reg))
      second == getLabel(generate(kids[2], addJumpZero(else, reg, else.ret, FALSE), reg))
      third == generate(kids[3], setLabel(addJump(second, second.ret), else.ret), reg)
  IN setLabel(third, second.ret)

-------------------------------------------------------------------------------
(* Calls, variables and fields *)

\* The parameters lie side by side above all used registers; the result comes
\* back in the first of them. The call names what is called, their register and
\* for a native function their number.
generateCall(params, g, reg, op, callee, count) ==
  LET n == Len(params)
      r == getRegisters(g, n)
      loaded == FoldLeft(LAMBDA h, i : generate(params[i].kids[1], h, r.ret + i - 1), r,
                         [i \in DOMAIN params |-> i])
      called == add(loaded, op, callee \o << r.ret >> \o count)
      moved == IF reg >= 0 THEN add(called, "MOVE_REG_REG", << reg, r.ret >>) ELSE called
  IN freeRegisters(moved, r.ret, Max({n, 1}))

generateReturn(value, g) ==
  LET r == getRegister(g, FALSE)
      v == IF value = NULL THEN loadInt(r, r.ret, 0) ELSE generate(value, r, r.ret)
  IN freeRegister(add(v, "RETURN", << r.ret >>), r.ret)

\* The variable is known before its value is computed, and keeps its register.
generateNewVar(name, value, g) ==
  LET r == getRegister(g, FALSE)
      v == addVar(r, name, r.ret)
  IN IF value = NULL THEN loadInt(v, r.ret, 0) ELSE generate(value, v, r.ret)

\* The value first, then the index and the write.
generateAssign(kids, g, reg) ==
  LET r == IF reg < 0 THEN getRegister(g, FALSE) ELSE [g EXCEPT !.ret = reg]
      written == generate(kids[1], generate(kids[2], r, r.ret), r.ret)
      done == IF kids[2] = NULL THEN r ELSE written
  IN IF reg < 0 THEN freeRegister(done, r.ret) ELSE done

\* name[index]: the field is pushed while the index is computed.
generateIndex(index, next, g, reg) ==
  LET r == getRegister(add(g, "FIELD_PUSH", <<>>), FALSE)
      i == add(generate(index, r, r.ret), "FIELD_POP", <<>>)
      used == freeRegister(add(i, "FIELD_IDX_REG", << r.ret >>), r.ret)
  IN generate(next, used, reg)

\* A block's variables go with it.
generateBlock(instrs, g) ==
  LET b == generateAll(instrs, [g EXCEPT !.level = @ + 1])
  IN [removeVars(b, b.level) EXCEPT !.level = @ - 1]

-------------------------------------------------------------------------------
(* One instruction or expression, with the register for its value (or -1). A   *)
(* variable that is out of scope ends the compilation, and so does a test or   *)
(* an operand that is not there: the compiler follows a null pointer.          *)

generate(code, g, reg) ==
  LET n == Head(code)
      kids == n.kids
      var == findVar(g.vars, n.val).index
  IN IF code = NULL THEN Exit(g)
     ELSE IF g.err THEN g
     ELSE CASE n.op = "THEEND" -> add(g, "ENDOFCODE", <<>>)
            [] n.op = "NOP" -> add(g, "NOP", <<>>)
            [] n.op = "INT" -> loadInt(g, reg, n.val)
            [] n.op = "IF" -> generateIf(kids, g)
            [] n.op = "WHILE" -> generateWhile(kids, g)
            [] n.op = "FOR" -> generateFor(kids, g)
            [] n.op = "CONTINUE" -> addJump(g, g.cont)
            [] n.op = "BREAK" -> addJump(g, g.brk)
            [] n.op \in {"CASE", "DEFAULT"} -> setLabel(g, n.val)
            [] n.op = "SWITCH" -> generateSwitch(kids, g)
            [] n.op = "BLOCK" -> generateBlock(kids[1], g)
            [] n.op = "CALL_STATIC" ->
                 generateCall(kids[1], g, reg, "EXT_CALL", n.val, << Len(kids[1]) >>)
            [] n.op = "CALL_FUNCTION" ->
                 generateCall(kids[1], g, reg, "INT_CALL", << n.val >>, <<>>)
            [] n.op = "RETURN" -> generateReturn(kids[1], g)
            [] n.op = "NEW_VAR" -> generateNewVar(n.val, kids[1], g)
            [] n.op = "ASSIGN" -> generateAssign(kids, g, reg)
            [] n.op \in {"GET_VAR", "SET_VAR"} ->
                 IF ~hasVar(g.vars, n.val) THEN Exit(g)
                 ELSE add(g, "MOVE_REG_REG", IF n.op = "GET_VAR" THEN << reg, var >> ELSE << var, reg >>)
            [] n.op = "SET_FIELD" -> add(g, "FIELD_SET_INT_REG", << n.val, reg >>)
            [] n.op = "GET_FIELD" -> add(g, "FIELD_GET_INT_REG", << n.val, reg >>)
            [] n.op = "USE_FIELD" -> generate(Tail(code), add(g, "FIELD_USE_INT", << n.val >>), reg)
            [] n.op = "USE_IDX_FIELD" -> generateIndex(kids[1], Tail(code), g, reg)
            [] n.op \in DOMAIN BinaryOp -> generateBinary(BinaryOp[n.op], kids, g, reg)
            [] n.op = "LOG_AND" -> generateLogical(kids, g, reg, FALSE)
            [] n.op = "LOG_OR" -> generateLogical(kids, g, reg, TRUE)
            [] n.op = "BIT_INV" -> add(generate(kids[1], g, reg), "BIT_INV", << reg >>)
            [] n.op = "TERNARY_COMP" -> generateTernary(kids, g, reg)
            [] OTHER -> g

generateAll(code, g) ==
  IF code = NULL \/ g.err THEN g ELSE generateAll(Tail(code), generate(code, g, -1))

-------------------------------------------------------------------------------
(* A function and a script *)

\* The parameters get the first registers. So do, for a moment, all variables of
\* the body, which counts in the number of registers of the function.
setParamsIndex(g, vars) ==
  LET taken == FoldLeft(LAMBDA h, v : getRegister(h, FALSE), g, vars)
  IN [taken EXCEPT !.vars = [i \in DOMAIN vars |-> [vars[i] EXCEPT !.index = Len(vars) - i]]]

generateFunction(p, ints) ==
  LET g == removeVars(setParamsIndex(NewByteCode(ints), p.vars), 1)
  IN removeVars(generateAll(p.ret, g), 1)

\* One function after the other, until the input has no more: s is the bank
\* [functions, ints, maxRegisters] with the state of the parser.
RECURSIVE getFunctions(_)
getFunctions(s) ==
  LET p == parse(s.parser)
      q == allocIndex(p, FunctionName(s.parser))
      g == generateFunction(p, s.ints)
      index == q.ret
      f == [code |-> g.code, starts |-> g.starts]
  IN IF p.err \/ p.ret = NULL THEN [s EXCEPT !.parser = p]
     ELSE IF g.err \/ index > 252 \/ g.max + 1 > 254 THEN [s EXCEPT !.parser = Fail(q)]
     ELSE getFunctions([ parser |-> q, ints |-> g.ints,
                         functions |-> (index :> f) @@ s.functions,
                         maxRegisters |-> Max({s.maxRegisters, g.max + 1}) ])

\* The bank of a script with the given fields: a sequence of [name, type], the
\* first of which has number 2 (number 1 is the url). Compilation fails when a
\* function is called that is not defined.
Compile(fields, tokens) ==
  LET numbered == [ i \in DOMAIN fields |->
                      [name |-> fields[i].name, type |-> fields[i].type, number |-> i + 1] ]
      parser == [ in |-> tokens, vars |-> <<>>, level |-> 0, loop |-> FALSE, switch |-> 0,
                  fields |-> numbered, number |-> Len(fields) + 2, err |-> FALSE, ret |-> NULL ]
      s == getFunctions([ parser |-> parser, ints |-> <<>>, functions |-> <<>>,
                          maxRegisters |-> 0 ])
      undefined == \E i \in DOMAIN s.parser.fields : s.parser.fields[i].type = "SFTmp"
  IN [ error |-> s.parser.err \/ undefined, maxRegisters |-> s.maxRegisters,
       ints |-> s.ints, functions |-> s.functions ]
===============================================================================
