------------------------------- MODULE Register -------------------------------
(* The integer operations of a register of the script machine (Register.java   *)
(* and the operators of Function.java). A Java int has 32 bits; the width is a *)
(* constant so that its limits can be reached by small values.                 *)
EXTENDS Integers, FiniteSetsExt

CONSTANT INT_BITS

ASSUME WidthAssumption == INT_BITS \in Nat /\ INT_BITS >= 2

\* The powers of two, as a function: the provers know nothing of exponents.
TwoTo[n \in 0 .. INT_BITS] == IF n = 0 THEN 1 ELSE 2 * TwoTo[n - 1]

Int32 == -TwoTo[INT_BITS - 1] .. TwoTo[INT_BITS - 1] - 1

\* n as a signed integer of that width.
Word(n) ==
  LET m == n % TwoTo[INT_BITS]
  IN IF m >= TwoTo[INT_BITS - 1] THEN m - TwoTo[INT_BITS] ELSE m

\* The operands of & | and ^, bit by bit.
Bit(n, i) == (n \div TwoTo[i]) % 2
And == [x \in {0, 1} |-> [y \in {0, 1} |-> x * y]]
Or  == [x \in {0, 1} |-> [y \in {0, 1} |-> x + y - x * y]]
Xor == [x \in {0, 1} |-> [y \in {0, 1} |-> (x + y) % 2]]

Bitwise(a, b, op) ==
  Word(MapThenSumSet(LAMBDA i : op[Bit(a, i)][Bit(b, i)] * TwoTo[i], 0 .. INT_BITS - 1))

Abs(n) == IF n < 0 THEN -n ELSE n

\* Integer division truncates towards zero; a division by zero gives 0.
Div(a, b) ==
  LET q == Abs(a) \div Abs(b)
  IN IF b = 0 THEN 0 ELSE IF (a < 0) = (b < 0) THEN Word(q) ELSE Word(-q)

\* A modulo that is not positive leaves the value alone.
Mod(a, b) == IF b > 0 THEN a - b * Div(a, b) ELSE a

\* Only the low bits of a shift count matter.
Shift(b) == b % INT_BITS

Bool(b) == IF b THEN 1 ELSE 0

\* Comparisons look at the sign of the difference.
TestValue(a, b) == Word(a - b)

\* The new value of a register a after a binary instruction with a register b.
Binary(op, a, b) ==
  CASE op = "ADD_REG_REG" -> Word(a + b)
    [] op = "SUB_REG_REG" -> Word(a - b)
    [] op = "MUL_REG_REG" -> Word(a * b)
    [] op = "DIV_REG_REG" -> Div(a, b)
    [] op = "MOD_REG_REG" -> Mod(a, b)
    [] op = "TEST_EQU" -> Bool(TestValue(a, b) = 0)
    [] op = "TEST_NEQ" -> Bool(TestValue(a, b) # 0)
    [] op = "TEST_GRT" -> Bool(TestValue(a, b) > 0)
    [] op = "TEST_GRE" -> Bool(TestValue(a, b) >= 0)
    [] op = "TEST_LES" -> Bool(TestValue(a, b) < 0)
    [] op = "TEST_LEE" -> Bool(TestValue(a, b) <= 0)
    [] op = "BIT_AND" -> Bitwise(a, b, And)
    [] op = "BIT_OR" -> Bitwise(a, b, Or)
    [] op = "BIT_XOR" -> Bitwise(a, b, Xor)
    [] op = "BIT_LS" -> Word(a * TwoTo[Shift(b)])
    [] op = "BIT_RS" -> a \div TwoTo[Shift(b)]
    [] op = "BIT_RRS" -> Word((a % TwoTo[INT_BITS]) \div TwoTo[Shift(b)])

BitInv(a) == -a - 1
===============================================================================
