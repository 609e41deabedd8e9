------------------------------- MODULE Scripter -------------------------------
(* The parser of the scripts of a scene: class Function of Scripter.cpp over   *)
(* the characters and tokens Tokenizer.h delivers, and the Code objects it     *)
(* builds (Code.cpp).                                                          *)
(*                                                                             *)
(* The input is a sequence of strings: identifiers and integer literals are    *)
(* one string each, every other character is a string of its own, and " " is   *)
(* the blank that separates two characters that must not be read as one        *)
(* operator. Strings, floats, comments and line numbers are left out.          *)
(*                                                                             *)
(* A parser state p is a record:                                               *)
(*   in      what is left of the input                                         *)
(*   vars    m_vars, newest first     level   m_blockLevel                     *)
(*   loop    m_inLoop                 switch  m_switchLevel                    *)
(*   fields  the fields of the Script node, functions included, each with the  *)
(*           number Node::addField gave it     number  m_fieldNumber           *)
(*   err     the compiler has called exit                                      *)
(*   ret     what the last operation returned                                  *)
(*                                                                             *)
(* A Code object with the m_next chain behind it is a sequence of nodes        *)
(* [op, val, kids]: the type without its CODE_ prefix, m_ival or m_name, and   *)
(* m_first, m_second, m_third. NULL is the empty sequence.                     *)
EXTENDS Emitter

CONSTANTS IntOf,     \* the integer literals of the scripts, with their values
          Externs    \* the external classes: name -> [id, methods: name -> id]

OBJECT_IDX == 254
LENGTH_IDX == 255

NULL == <<>>

New(op, val, kids) == << [op |-> op, val |-> val, kids |-> kids] >>

-------------------------------------------------------------------------------
(* The tokenizer *)

Punctuation == { "+", "-", "*", "/", "%", "&", "|", "^", "~", "!", "=", "<", ">",
                 "?", ":", ";", ",", ".", "(", ")", "[", "]", "{", "}", " ", "" }

\* An error ends the compilation: nothing is left to read.
Fail(p) == [p EXCEPT !.err = TRUE, !.in = <<>>, !.ret = NULL]

Peek(p) == IF p.in = <<>> THEN "" ELSE Head(p.in)

\* n characters are eaten.
Eat(p, n) == [p EXCEPT !.in = SubSeq(@, n + 1, Len(@))]

skipSpace(p) == IF Peek(p) = " " THEN Eat(p, 1) ELSE p

\* Whether c comes next, blanks apart (check with pushBack).
Ahead(p, c) == Peek(skipSpace(p)) = c

\* c is eaten when it comes next (check without pushBack).
Check(p, c) == IF Ahead(p, c) THEN Eat(skipSpace(p), 1) ELSE skipSpace(p)

\* c must come next.
ensure(p, c) == IF Ahead(p, c) THEN Check(p, c) ELSE Fail(p)

\* The identifier that comes next, or "" when none does: it is not eaten.
Token(p) == LET s == Peek(skipSpace(p))
            IN IF s \in Punctuation \cup DOMAIN IntOf THEN "" ELSE s

EatToken(p) == Eat(skipSpace(p), 1)

Keywords == { "", "var", "if", "while", "for", "return", "continue", "break",
              "case", "default" }

Return(p, code) == [p EXCEPT !.ret = code]

-------------------------------------------------------------------------------
(* Operators *)

OpTokens ==
  [ INC |-> <<"+","+">>, PLUS |-> <<"+">>, DEC |-> <<"-","-">>, MINUS |-> <<"-">>,
    DIV |-> <<"/">>, MULT |-> <<"*">>, MODULO |-> <<"%">>,
    LOG_AND |-> <<"&","&">>, BIT_AND |-> <<"&">>,
    LOG_OR |-> <<"|","|">>, BIT_OR |-> <<"|">>,
    EQUAL |-> <<"=","=">>, NOTEQUAL |-> <<"!","=">>,
    LESSEQ |-> <<"<","=">>, BIT_LSHIFT |-> <<"<","<">>, LESSER |-> <<"<">>,
    GREATEQ |-> <<">","=">>, BIT_RRSHIFT |-> <<">",">",">">>,
    BIT_RSHIFT |-> <<">",">">>, GREATER |-> <<">">>,
    BIT_XOR |-> <<"^">>, TERNARY_COMP |-> <<"?">> ]

\* The operators that may be joined with an assignment.
SelfOps == { "PLUS", "MINUS", "DIV", "MULT", "MODULO", "BIT_AND", "BIT_OR",
             "BIT_XOR", "BIT_LSHIFT", "BIT_RSHIFT", "BIT_RRSHIFT" }

\* The longest operator that comes next, "ERROR" when there is none.
OperatorAt(in) ==
  LET fits == {op \in DOMAIN OpTokens : IsPrefix(OpTokens[op], in)}
  IN IF fits = {} THEN "ERROR"
     ELSE CHOOSE op \in fits : \A o \in fits : Len(OpTokens[o]) <= Len(OpTokens[op])

\* With pushBack the operator is only looked at. The second character of a
\* shift to the right is eaten all the same: its CHECK does not push it back.
parseOperation(p, pushBack) ==
  LET q == skipSpace(p)
      op == OperatorAt(q.in)
      eaten == CASE op = "ERROR" -> 0
                 [] op # "ERROR" /\ ~pushBack -> Len(OpTokens[op])
                 [] pushBack /\ op \in {"BIT_RSHIFT", "BIT_RRSHIFT"} -> 1
                 [] OTHER -> 0
  IN Return(Eat(q, eaten), op)

checkOperation(p) == parseOperation(p, TRUE)

getOpArity(op) ==
  CASE op \in {"INC", "DEC"} -> 1
    [] op = "TERNARY_COMP" -> 3
    [] op = "ERROR" -> 0
    [] OTHER -> 2

\* Mutant: the bit operators bind tighter than the comparisons.
getOpPrecedenceBits(op) ==
  CASE op \in {"INC", "DEC"} -> 12
    [] op \in {"MULT", "DIV", "MODULO"} -> 10
    [] op \in {"PLUS", "MINUS"} -> 9
    [] op \in {"BIT_LSHIFT", "BIT_RSHIFT", "BIT_RRSHIFT", "BIT_AND", "BIT_XOR", "BIT_OR"} -> 8
    [] op \in {"GREATER", "GREATEQ", "LESSER", "LESSEQ"} -> 7
    [] op \in {"EQUAL", "NOTEQUAL"} -> 6
    [] op = "LOG_AND" -> 2
    [] op = "LOG_OR" -> 1
    [] OTHER -> 0

getOpPrecedence(op) ==
  CASE op \in {"INC", "DEC"} -> 12
    [] op \in {"MULT", "DIV", "MODULO"} -> 10
    [] op \in {"PLUS", "MINUS"} -> 9
    [] op \in {"BIT_LSHIFT", "BIT_RSHIFT", "BIT_RRSHIFT"} -> 8
    [] op \in {"GREATER", "GREATEQ", "LESSER", "LESSEQ"} -> 7
    [] op \in {"EQUAL", "NOTEQUAL"} -> 6
    [] op = "BIT_AND" -> 5
    [] op = "BIT_XOR" -> 4
    [] op = "BIT_OR" -> 3
    [] op = "LOG_AND" -> 2
    [] op = "LOG_OR" -> 1
    [] OTHER -> 0

isOpRightAssociative(op) == op = "TERNARY_COMP"

\* "=", an operator joined with "=", or "ERROR"; eaten unless it is an error.
parseAssign(p) ==
  LET q == skipSpace(p)
      self == {op \in SelfOps : IsPrefix(Append(OpTokens[op], "="), q.in)}
      op == CHOOSE o \in self : TRUE
  IN IF self # {} THEN [Eat(q, Len(OpTokens[op]) + 1) EXCEPT !.ret = op]
     ELSE IF Peek(q) = "=" THEN [Eat(q, 1) EXCEPT !.ret = "ASSIGN"]
     ELSE [q EXCEPT !.ret = "ERROR"]

-------------------------------------------------------------------------------
(* Code objects *)

\* A copy that reads what the original writes, and the other way round for a
\* variable.
RECURSIVE cloneInvertAccess(_)
cloneInvertAccess(code) ==
  [ i \in DOMAIN code |->
      [ op |-> CASE code[i].op = "SET_VAR" -> "GET_VAR"
                 [] code[i].op = "GET_VAR" -> "SET_VAR"
                 [] code[i].op = "SET_FIELD" -> "GET_FIELD"
                 [] OTHER -> code[i].op,
        val |-> code[i].val,
        kids |-> [ k \in DOMAIN code[i].kids |-> cloneInvertAccess(code[i].kids[k]) ] ] ]

\* self = self operation value
selfAssign(operation, self, value) ==
  LET compute == New(operation, 0, << cloneInvertAccess(self), value >>)
  IN New("ASSIGN", 0, << self, compute >>)

-------------------------------------------------------------------------------
(* The fields and functions of the Script node *)

Field(p, name) == SelectSeq(p.fields, LAMBDA f : f.name = name)

addField(p, name, type) ==
  [p EXCEPT !.fields = << [name |-> name, type |-> type, number |-> p.number] >> \o @,
            !.number = @ + 1]

\* The index of a function that may not have been declared yet.
FunctionIndex(p, name) ==
  IF Field(p, name) # <<>> THEN Return(p, Field(p, name)[1].number)
  ELSE IF name = "initialize" THEN Return(p, 0)
  ELSE [addField(p, name, "SFTmp") EXCEPT !.ret = p.number]

-------------------------------------------------------------------------------
(* Expressions *)

RECURSIVE parseExpr(_, _), parseExprRec(_, _, _), parseRight(_, _, _),
          parseUnaryExpr(_), parseParams(_), MoreParams(_)

\* name[index]: the index is an expression of its own.
parseIndex(p, lvalue) ==
  LET e == parseExpr(Check(p, "["), 0)
  IN IF Ahead(p, "[")
     THEN Return(ensure(e, "]"), lvalue \o New("USE_IDX_FIELD", 0, << e.ret >>))
     ELSE Return(p, lvalue)

\* The path of a field: name, name[index] or name.member. Without an index a
\* multiple field is used as an object, and "length" is its only member. A name
\* that is no field, or that is a function, is read as a function reference.
parseFieldPath(p, token, codeField) ==
  LET known == Field(p, token)
      field == known[1]
      isFunction == field.type \in {"SFTmp", "SFDefined"}
      use == New("USE_FIELD", field.number, <<>>)
      q == parseIndex(p, use)
      array == Ahead(p, "[")
      index == IF ~array /\ field.type = "MF" THEN OBJECT_IDX ELSE 0
  IN CASE known = <<>> /\ codeField = "GET_FIELD" ->
            LET f == FunctionIndex(p, token) IN Return(f, New("INT", f.ret, <<>>))
       [] known = <<>> /\ codeField # "GET_FIELD" -> Fail(p)
       [] known # <<>> /\ isFunction /\ codeField = "GET_FIELD" ->
            Return(p, New("INT", field.number, <<>>))
       [] OTHER ->
            IF ~Ahead(q, ".") THEN Return(q, q.ret \o New(codeField, index, <<>>))
            ELSE LET r == Check(q, ".")
                 IN IF Token(r) = "length" /\ field.type = "MF" /\ ~array
                    THEN Return(EatToken(r), q.ret \o New(codeField, LENGTH_IDX, <<>>))
                    ELSE Fail(r)

parseFieldAccess(p, token, codeVar, codeField) ==
  IF hasVar(p.vars, token)
  THEN LET q == parseIndex(p, New(codeVar, token, <<>>))
       IN IF Ahead(q, ".") THEN Return(EatToken(Check(q, ".")), q.ret)
          ELSE Return(q, q.ret \o New(codeField, 0, <<>>))
  ELSE parseFieldPath(p, token, codeField)

parseLValue(p) == parseFieldAccess(EatToken(p), Token(p), "SET_VAR", "SET_FIELD")

parseInternFunc(p, name) ==
  LET f == FunctionIndex(p, name)
      args == parseParams(f)
  IN Return(args, New("CALL_FUNCTION", f.ret, << args.ret >>))

\* Class.method (parameters), with the parameters left out or not.
parseExternFunc(p, class) ==
  LET q == ensure(p, ".")
      method == Token(q)
      args == parseParams(EatToken(q))
      call(code) == New("CALL_STATIC", << Externs[class].id, Externs[class].methods[method] >>,
                        << code >>)
  IN CASE ~(method \in DOMAIN Externs[class].methods) -> Fail(q)
       [] OTHER -> IF Ahead(EatToken(q), "(") THEN Return(args, call(args.ret))
                   ELSE Return(EatToken(q), call(NULL))

MoreParams(p) ==
  IF ~Ahead(p, ",") THEN p
  ELSE LET e == parseExpr(Check(p, ","), 0)
       IN IF e.ret = NULL THEN Fail(e)
          ELSE MoreParams(Return(e, p.ret \o New("PARAM", 0, << e.ret >>)))

parseParams(p) ==
  LET e == parseExpr(ensure(p, "("), 0)
      args == MoreParams(Return(e, New("PARAM", 0, << e.ret >>)))
  IN IF e.ret = NULL THEN ensure(e, ")") ELSE ensure(args, ")")

parseIdent(p, token) ==
  IF Ahead(p, "(") THEN parseInternFunc(p, token)
  ELSE parseFieldAccess(p, token, "GET_VAR", "GET_FIELD")

parseVarOrVal(p) ==
  LET s == Token(p)
      q == EatToken(p)
      literal == Peek(skipSpace(p))
  IN CASE s = "true" -> Return(q, New("INT", 1, <<>>))
       [] s \in {"false", "null"} -> Return(q, New("INT", 0, <<>>))
       [] s \in DOMAIN Externs -> parseExternFunc(q, s)
       [] s \notin DOMAIN Externs \cup {"", "true", "false", "null"} -> parseIdent(q, s)
       [] OTHER -> IF literal \in DOMAIN IntOf
                   THEN Return(q, New("INT", IntOf[literal], <<>>))
                   ELSE Return(skipSpace(p), NULL)

\* ++x or --x: twice the same sign, blanks or not in between.
isPreOperator(p) ==
  LET c == Peek(skipSpace(p)) IN c \in {"+", "-"} /\ Ahead(EatToken(p), c)

parsePreOperator(p) ==
  LET q == Check(EatToken(p), Peek(skipSpace(p)))
      lvalue == parseLValue(q)
      operation == IF Ahead(p, "-") THEN "MINUS" ELSE "PLUS"
  IN IF Token(q) = "" \/ lvalue.ret = NULL THEN Fail(q)
     ELSE Return(lvalue, selfAssign(operation, lvalue.ret, New("INT", 1, <<>>)))

parseUnaryExpr(p) ==
  LET c == Peek(skipSpace(p))
      e == parseUnaryExpr(EatToken(p))
  IN CASE isPreOperator(p) -> parsePreOperator(p)
       [] c = "-" /\ ~isPreOperator(p) ->
            Return(e, New("MULT", 0, << New("INT", -1, <<>>), e.ret >>))
       [] c = "~" -> Return(e, New("BIT_INV", 0, << e.ret >>))
       [] c = "!" -> Return(e, New("EQUAL", 0, << e.ret, New("INT", 0, <<>>) >>))
       [] c = "(" -> ensure(parseExpr(EatToken(p), 0), ")")
       [] OTHER -> parseVarOrVal(p)

parseExpr(p, minPrecedence) ==
  LET left == parseUnaryExpr(p) IN parseExprRec(left, left.ret, minPrecedence)

\* The operators that bind tighter than the one on the left go to its right
\* operand first.
parseRight(p, right, precedence) ==
  LET q == checkOperation(p)
      lookahead == getOpPrecedence(q.ret)
      higher == \/ getOpArity(q.ret) = 2 /\ lookahead > precedence
                \/ isOpRightAssociative(q.ret) /\ lookahead = precedence
      r == parseExprRec(q, right, lookahead)
  IN IF higher THEN parseRight(r, r.ret, precedence) ELSE Return(q, right)

parseExprRec(p, left, minPrecedence) ==
  LET q == checkOperation(p)
      op == q.ret
      precedence == getOpPrecedence(op)
      operand == parseUnaryExpr(parseOperation(q, FALSE))
      right == parseRight(operand, operand.ret, precedence)
      \* left ? second : third
      second == parseExpr(parseOperation(q, FALSE), precedence)
      third == parseExpr(Check(second, ":"), precedence)
  IN CASE getOpArity(op) = 2 /\ precedence >= minPrecedence ->
            parseExprRec(right, New(op, 0, << left, right.ret >>), minPrecedence)
       [] getOpArity(op) = 1 -> Fail(q)
       [] getOpArity(op) = 3 ->
            IF Ahead(second, ":")
            THEN Return(third, New(op, 0, << left, second.ret, third.ret >>))
            ELSE Fail(second)
       [] OTHER -> Return(q, left)

-------------------------------------------------------------------------------
(* Instructions *)

RECURSIVE parseInstr(_, _), parseBlock(_), MoreInstrs(_)

\* ( expression )
parseTest(p) == ensure(parseExpr(ensure(p, "("), 0), ")")

parseLoopBlock(p) ==
  LET b == parseBlock([p EXCEPT !.loop = TRUE]) IN [b EXCEPT !.loop = p.loop]

parseVarDeclaration(p) ==
  LET name == Token(p)
      q == [EatToken(p) EXCEPT !.vars = << [name |-> name, level |-> p.level, index |-> -1] >> \o @]
      value == parseExpr(Check(q, "="), 0)
  IN CASE name = "" -> Fail(p)
       [] name # "" /\ Ahead(q, "=") ->
            Return(value, New("NEW_VAR", name, << value.ret >>))
       [] OTHER -> Return(q, New("NEW_VAR", name, << NULL >>))

\* The else part is looked for after the block: another word stays unread.
parseIf(p) ==
  LET test == parseTest(p)
      first == parseBlock(test)
      second == parseBlock(EatToken(first))
  IN IF Token(first) = "else"
     THEN Return(second, New("IF", 0, << test.ret, first.ret, second.ret >>))
     ELSE Return(first, New("IF", 0, << test.ret, first.ret, NULL >>))

parseWhile(p) ==
  LET test == parseTest(p)
      block == parseLoopBlock(test)
  IN Return(block, New("WHILE", 0, << test.ret, block.ret >>))

\* The variables of the header belong to a level of their own.
parseFor(p) ==
  LET init == parseInstr(ensure([p EXCEPT !.level = @ + 1], "("), TRUE)
      test == parseExpr(init, 0)
      post == parseInstr(ensure(test, ";"), FALSE)
      block == parseLoopBlock(ensure(post, ")"))
      loop == New("FOR", 0, << test.ret, block.ret, post.ret >>)
  IN Return([block EXCEPT !.level = @ - 1], New("BLOCK", 0, << init.ret \o loop >>))

\* Labels are only allowed in the block of the switch itself.
parseSwitch(p) ==
  LET test == parseTest(p)
      block == parseBlock([test EXCEPT !.switch = p.level + 1])
  IN IF ~Ahead(test, "{") THEN Fail(test)
     ELSE Return([block EXCEPT !.switch = p.switch],
                 New("SWITCH", 0, << test.ret, block.ret >>))

parseSwitchLabel(p, type, value) ==
  IF p.switch # p.level \/ (type = "CASE" /\ value = NULL) THEN Fail(p)
  ELSE Return(ensure(p, ":"), New(type, 0, << value >>))

parseReturn(p) ==
  LET e == parseExpr(Check(p, "("), 0)
      q == IF Ahead(p, "(") THEN ensure(e, ")") ELSE e
  IN Return(ensure(q, ";"), New("RETURN", 0, << e.ret >>))

\* lvalue = e, lvalue op= e, lvalue++ or lvalue--.
parseAssignment(p) ==
  LET lvalue == parseLValue(p)
      q == parseAssign(lvalue)
      value == parseExpr(q, 0)
      step == parseOperation(q, FALSE)
  IN CASE q.ret = "ASSIGN" -> Return(value, New("ASSIGN", 0, << lvalue.ret, value.ret >>))
       [] q.ret \in SelfOps -> Return(value, selfAssign(q.ret, lvalue.ret, value.ret))
       [] OTHER -> IF getOpArity(step.ret) = 1
                   THEN Return(step, selfAssign(step.ret, lvalue.ret, New("INT", 1, <<>>)))
                   ELSE Fail(step)

\* A jump out of a block, and the place it is allowed in.
parseJump(p, op, allowed) ==
  IF allowed THEN Return(ensure(p, ";"), New(op, 0, <<>>)) ELSE Fail(p)

\* An instruction that ends with a semicolon, except in the header of a for.
Ended(p, checkSemi) ==
  IF checkSemi THEN Return(ensure(p, ";"), p.ret) ELSE p

parseInstr(p, checkSemi) ==
  LET s == Token(p)
      q == EatToken(p)
      call == parseInternFunc(q, s)
      value == parseExpr(q, 0)
  IN CASE Peek(skipSpace(p)) \in {";", ")", "}"} ->
            Return(IF checkSemi THEN Check(p, ";") ELSE p, New("NOP", 0, <<>>))
       [] s \in DOMAIN Externs -> Ended(parseExternFunc(q, s), checkSemi)
       [] s = "var" -> Ended(parseVarDeclaration(q), checkSemi)
       [] s = "if" -> parseIf(q)
       [] s = "while" -> parseWhile(q)
       [] s = "for" -> parseFor(q)
       [] s = "return" -> parseReturn(q)
       [] s = "continue" -> parseJump(q, "CONTINUE", p.loop)
       [] s = "break" -> parseJump(q, "BREAK", p.loop \/ p.switch > 0)
       [] s = "switch" /\ Ahead(q, "(") -> parseSwitch(q)
       [] s = "case" -> parseSwitchLabel(value, "CASE", value.ret)
       [] s = "default" -> parseSwitchLabel(q, "DEFAULT", NULL)
       [] s \notin Keywords /\ Ahead(q, "(") -> Ended(call, checkSemi)
       [] s \notin Keywords /\ ~Ahead(q, "(") -> Ended(parseAssignment(p), checkSemi)
       [] OTHER -> IF s = "" /\ isPreOperator(p) THEN Ended(parsePreOperator(p), checkSemi)
                   ELSE Fail(p)

\* The instructions up to the brace that closes the block.
MoreInstrs(p) ==
  LET instr == parseInstr(p, TRUE)
  IN IF p.err \/ Ahead(p, "}") THEN p
     ELSE MoreInstrs(Return(instr, p.ret \o instr.ret))

\* One instruction, or a block with a level of its own.
parseBlock(p) ==
  LET first == parseInstr([Check(p, "{") EXCEPT !.level = @ + 1], TRUE)
      body == MoreInstrs(first)
  IN IF ~Ahead(p, "{") THEN parseInstr(p, TRUE)
     ELSE Return([ensure(body, "}") EXCEPT !.level = @ - 1], New("BLOCK", 0, << body.ret >>))

-------------------------------------------------------------------------------
(* A function: its name, its parameters (variables of level 0) and its body,   *)
(* with the end of its code behind it                                          *)

RECURSIVE parseArgs(_)
parseArgs(p) ==
  LET q == [EatToken(p) EXCEPT !.vars = << [name |-> Token(p), level |-> 0, index |-> -1] >> \o @]
  IN IF Token(p) = "" THEN p
     ELSE IF Ahead(q, ",") THEN parseArgs(Check(q, ",")) ELSE q

\* The end of the input is no function: NULL.
parse(p) ==
  LET fresh == [p EXCEPT !.vars = <<>>, !.level = 0, !.loop = FALSE, !.switch = 0]
      name == EatToken(fresh)
      body == parseBlock(ensure(parseArgs(ensure(EatToken(name), "(")), ")"))
  IN CASE Token(p) = "" -> Return(p, NULL)
       [] Token(p) # "" /\ (Token(p) # "function" \/ Token(name) = "") -> Fail(p)
       [] OTHER -> Return(body, body.ret \o New("THEEND", 0, <<>>))

\* The name of the function that comes next.
FunctionName(p) == Token(EatToken(p))

\* The index of a function that is declared: a field of its name, which the
\* function then observes, the index it was called with, or a new one.
allocIndex(p, name) ==
  LET q == FunctionIndex(p, name)
  IN [q EXCEPT !.fields = [ i \in DOMAIN @ |->
        IF @[i].name = name /\ @[i].type = "SFTmp"
        THEN [@[i] EXCEPT !.type = "SFDefined"] ELSE @[i] ] ]
===============================================================================
