----------------------------- MODULE RegisterProofs -----------------------------
(* The operations of a register, for every width of an integer: they give       *)
(* integers of that width (OperationsFit), the two parts of a division belong   *)
(* together (DivisionIsWhole), and a comparison of two registers is right when  *)
(* their difference fits (ComparisonsAreRight).                                 *)
EXTENDS ByteCode, Register, FiniteSetTheorems, WellFoundedInduction, TLAPS

-------------------------------------------------------------------------------
(* Natural numbers *)

\* A set of naturals has a smallest element.
LEMMA SmallestElement ==
  ASSUME NEW S, S \subseteq Nat, S # {}
  PROVE  \E m \in S : \A n \in S : m <= n
  <1> DEFINE T == {0 .. m : m \in S}
             R == StrictSubsetOrdering(Nat)
  <1>1. T \subseteq FiniteSubsetsOf(Nat) /\ T # {}
    <2>1. ASSUME NEW m \in S PROVE 0 .. m \in FiniteSubsetsOf(Nat)
      <3>1. m \in Int /\ 0 .. m \in SUBSET Nat
        OBVIOUS
      <3> QED
        BY <3>1, FS_Interval DEF FiniteSubsetsOf
    <2> QED
      BY <2>1
  <1>2. PICK x \in T : \A y \in T : ~(<<y, x>> \in R)
    <2> HIDE DEF T, R
    <2>1. IsWellFoundedOn(R, FiniteSubsetsOf(Nat))
      BY FS_StrictSubsetOrderingWellFounded DEF R
    <2> QED
      BY <1>1, <2>1, WFMin
  <1>3. PICK m \in S : x = 0 .. m
    OBVIOUS
  <1>4. ASSUME NEW n \in S, n < m PROVE FALSE
    <2>1. /\ 0 .. n \in T /\ 0 .. n \subseteq 0 .. m /\ m \in 0 .. m /\ m \notin 0 .. n
          /\ {0 .. n, 0 .. m} \subseteq SUBSET Nat
      BY <1>4
    <2>2. <<0 .. n, x>> \in R
      BY <1>3, <2>1 DEF StrictSubsetOrdering
    <2> QED
      BY <1>2, <2>1, <2>2
  <1> QED
    BY <1>4

\* A set with 0 and with the next of each of its naturals has all of them.
LEMMA EveryNatural ==
  ASSUME NEW S, 0 \in S, \A n \in Nat : n \in S => n + 1 \in S
  PROVE  \A n \in Nat : n \in S
  <1> SUFFICES ASSUME NEW x \in Nat, x \notin S PROVE FALSE
    OBVIOUS
  <1> DEFINE T == {n \in Nat : n \notin S}
  <1>1. T \subseteq Nat /\ x \in T
    OBVIOUS
  <1>2. PICK m \in T : \A n \in T : m <= n
    <2> HIDE DEF T
    <2> QED
      BY <1>1, SmallestElement
  <1>3. m \in Nat /\ m # 0 /\ m \notin S
    OBVIOUS
  <1>4. m - 1 \in Nat /\ m - 1 \notin T /\ m - 1 + 1 = m
    BY <1>2, <1>3
  <1> QED
    BY <1>3, <1>4

-------------------------------------------------------------------------------
(* Powers of two *)

\* f doubles from 1, up to n.
Doubles(f, n) ==
  /\ f = [k \in 0 .. n |-> IF k = 0 THEN 1 ELSE 2 * f[k - 1]]
  /\ \A k \in 0 .. n : f[k] \in Nat \ {0}

LEMMA DoublesExist == \A n \in Nat : \E f : Doubles(f, n)
  <1> DEFINE S == {n \in Nat : \E f : Doubles(f, n)}
  <1>1. 0 \in S
    <2> DEFINE f == [k \in 0 .. 0 |-> 1]
    <2>1. f = [k \in 0 .. 0 |-> IF k = 0 THEN 1 ELSE 2 * f[k - 1]]
      OBVIOUS
    <2>2. Doubles(f, 0)
      BY <2>1 DEF Doubles
    <2> QED
      BY <2>2
  <1>2. ASSUME NEW n \in Nat, n \in S PROVE n + 1 \in S
    <2>1. PICK f : Doubles(f, n)
      BY <1>2
    <2> DEFINE g == [k \in 0 .. n + 1 |-> IF k = n + 1 THEN 2 * f[n] ELSE f[k]]
    <2>2. ASSUME NEW k \in 0 .. n + 1
          PROVE  g[k] = (IF k = 0 THEN 1 ELSE 2 * g[k - 1]) /\ g[k] \in Nat \ {0}
      <3>1. CASE k = n + 1
        <4>1. k # 0 /\ k - 1 = n /\ g[k - 1] = f[n] /\ g[k] = 2 * f[n]
          BY <3>1
        <4>2. f[n] \in Nat \ {0}
          BY <2>1 DEF Doubles
        <4> HIDE DEF g
        <4> QED
          BY <4>1, <4>2
      <3>2. CASE k # n + 1
        <4>1. g[k] = f[k] /\ k \in 0 .. n /\ (k # 0 => g[k - 1] = f[k - 1])
          BY <3>2
        <4>2. f[k] = (IF k = 0 THEN 1 ELSE 2 * f[k - 1]) /\ f[k] \in Nat \ {0}
          BY <2>1, <4>1 DEF Doubles
        <4> HIDE DEF g
        <4> QED
          BY <4>1, <4>2
      <3> QED
        BY <3>1, <3>2
    <2>3. g = [k \in 0 .. n + 1 |-> g[k]]
      OBVIOUS
    <2>4. Doubles(g, n + 1)
      <3> HIDE DEF g
      <3> QED
        BY <2>2, <2>3 DEF Doubles
    <2> QED
      BY <2>4
  <1> QED
    <2> HIDE DEF S
    <2>1. \A n \in Nat : n \in S
      BY <1>1, <1>2, EveryNatural
    <2> QED
      BY <2>1 DEF S

\* There is only one such function.
LEMMA DoublesAgree ==
  ASSUME NEW n \in Nat, NEW f, NEW g, Doubles(f, n),
         g = [k \in 0 .. n |-> IF k = 0 THEN 1 ELSE 2 * g[k - 1]]
  PROVE  \A k \in 0 .. n : g[k] = f[k]
  <1> DEFINE S == {k \in Nat : k \in 0 .. n => g[k] = f[k]}
  <1>1. 0 \in S
    BY DEF Doubles
  <1>2. ASSUME NEW k \in Nat, k \in S PROVE k + 1 \in S
    <2> SUFFICES ASSUME k + 1 \in 0 .. n PROVE g[k + 1] = f[k + 1]
      OBVIOUS
    <2>1. k \in 0 .. n /\ k + 1 # 0 /\ k + 1 - 1 = k
      OBVIOUS
    <2>2. f[k + 1] = 2 * f[k]
      BY <2>1 DEF Doubles
    <2>3. g[k + 1] = 2 * g[k]
      BY <2>1
    <2> QED
      BY <1>2, <2>1, <2>2, <2>3
  <1> QED
    <2> HIDE DEF S
    <2>1. \A k \in Nat : k \in S
      BY <1>1, <1>2, EveryNatural
    <2>2. \A k \in Nat : k \in 0 .. n => g[k] = f[k]
      BY <2>1 DEF S
    <2> QED
      BY <2>2

\* TwoTo is what its equation says.
LEMMA PowersOfTwo ==
  /\ \A n \in 0 .. INT_BITS : TwoTo[n] \in Nat \ {0}
  /\ TwoTo[0] = 1
  /\ \A n \in 1 .. INT_BITS : TwoTo[n] = 2 * TwoTo[n - 1]
  <1>1. INT_BITS \in Nat
    BY WidthAssumption
  <1>2. PICK f : Doubles(f, INT_BITS)
    BY <1>1, DoublesExist
  <1>3. TwoTo = [n \in 0 .. INT_BITS |-> IF n = 0 THEN 1 ELSE 2 * TwoTo[n - 1]]
    <2>1. f = [n \in 0 .. INT_BITS |-> IF n = 0 THEN 1 ELSE 2 * f[n - 1]]
      BY <1>2 DEF Doubles
    <2> QED
      BY <2>1 DEF TwoTo
  <1>4. \A n \in 0 .. INT_BITS : TwoTo[n] = f[n]
    <2> DEFINE t == TwoTo
    <2>1. t = [n \in 0 .. INT_BITS |-> IF n = 0 THEN 1 ELSE 2 * t[n - 1]]
      BY <1>3
    <2> HIDE DEF t
    <2>2. \A n \in 0 .. INT_BITS : t[n] = f[n]
      BY <1>1, <1>2, <2>1, DoublesAgree
    <2> QED
      BY <2>2 DEF t
  <1>5. \A n \in 0 .. INT_BITS : TwoTo[n] \in Nat \ {0}
    BY <1>2, <1>4 DEF Doubles
  <1>6. TwoTo[0] = 1
    BY <1>1, <1>3
  <1>7. \A n \in 1 .. INT_BITS : TwoTo[n] = 2 * TwoTo[n - 1]
    BY <1>1, <1>3
  <1> QED
    BY <1>5, <1>6, <1>7

-------------------------------------------------------------------------------
(* Sums over finite sets *)

First(s) == CHOOSE x \in s : TRUE

\* What MapThenSumSet computes of a set that belongs to D: the values in d,
\* taken one by one.
Sums(it, d, D) ==
  it = [s \in D |-> IF s = {} THEN 0 ELSE d[First(s)] + it[s \ {First(s)}]]

SmallSubsets(S, n) == {s \in SUBSET S : Cardinality(s) <= n}

\* A subset and its size, without the first element.
LEMMA OneLess ==
  ASSUME NEW S, IsFiniteSet(S), NEW s \in SUBSET S, s # {}
  PROVE  /\ First(s) \in S /\ s \ {First(s)} \in SUBSET S
         /\ Cardinality(s) \in Nat \ {0}
         /\ Cardinality(s \ {First(s)}) = Cardinality(s) - 1
  <1>1. First(s) \in s
    BY DEF First
  <1>2. IsFiniteSet(s)
    BY FS_Subset
  <1>3. Cardinality(s) \in Nat /\ Cardinality(s) # 0
    BY <1>2, FS_CardinalityType, FS_EmptySet
  <1>4. Cardinality(s \ {First(s)}) = Cardinality(s) - 1
    BY <1>1, <1>2, FS_RemoveElement
  <1> QED
    BY <1>1, <1>3, <1>4

LEMMA OnlyEmpty ==
  ASSUME NEW S, IsFiniteSet(S), NEW s \in SUBSET S, Cardinality(s) <= 0
  PROVE  s = {}
  <1>1. s # {} => Cardinality(s) \in Nat \ {0}
    BY OneLess
  <1> QED
    BY <1>1

LEMMA SumsExist ==
  ASSUME NEW S, IsFiniteSet(S), NEW d
  PROVE  \A n \in Nat : \E it : Sums(it, d, SmallSubsets(S, n))
  <1> DEFINE N == {n \in Nat : \E it : Sums(it, d, SmallSubsets(S, n))}
  <1>1. 0 \in N
    <2> DEFINE it == [s \in SmallSubsets(S, 0) |-> 0]
    <2>1. ASSUME NEW s \in SmallSubsets(S, 0) PROVE s = {}
      BY OnlyEmpty DEF SmallSubsets
    <2>2. Sums(it, d, SmallSubsets(S, 0))
      BY <2>1 DEF Sums
    <2> QED
      BY <2>2
  <1>2. ASSUME NEW n \in Nat, n \in N PROVE n + 1 \in N
    <2>1. PICK it : Sums(it, d, SmallSubsets(S, n))
      BY <1>2
    <2> DEFINE jt == [s \in SmallSubsets(S, n + 1) |->
                        IF s = {} THEN 0 ELSE d[First(s)] + it[s \ {First(s)}]]
    <2>2. ASSUME NEW s \in SmallSubsets(S, n) PROVE s \in SmallSubsets(S, n + 1) /\ jt[s] = it[s]
      <3>1. s \in SUBSET S /\ Cardinality(s) <= n
        BY DEF SmallSubsets
      <3>2. Cardinality(s) \in Nat
        BY <3>1, FS_Subset, FS_CardinalityType
      <3>3. s \in SmallSubsets(S, n + 1)
        BY <3>1, <3>2 DEF SmallSubsets
      <3>4. it[s] = IF s = {} THEN 0 ELSE d[First(s)] + it[s \ {First(s)}]
        BY <2>1 DEF Sums
      <3> QED
        BY <3>3, <3>4
    <2>3. ASSUME NEW s \in SmallSubsets(S, n + 1), s # {}
          PROVE  s \ {First(s)} \in SmallSubsets(S, n)
      <3>1. s \in SUBSET S /\ Cardinality(s) <= n + 1
        BY DEF SmallSubsets
      <3> QED
        BY <2>3, <3>1, OneLess DEF SmallSubsets
    <2>4. ASSUME NEW s \in SmallSubsets(S, n + 1)
          PROVE  jt[s] = IF s = {} THEN 0 ELSE d[First(s)] + jt[s \ {First(s)}]
      <3>1. s # {} => jt[s \ {First(s)}] = it[s \ {First(s)}]
        <4> HIDE DEF jt
        <4> QED
          BY <2>2, <2>3
      <3> QED
        BY <3>1
    <2>5. jt = [s \in SmallSubsets(S, n + 1) |-> jt[s]]
      OBVIOUS
    <2>6. Sums(jt, d, SmallSubsets(S, n + 1))
      <3> HIDE DEF jt
      <3> QED
        BY <2>4, <2>5 DEF Sums
    <2> QED
      BY <2>6
  <1> QED
    <2> HIDE DEF N
    <2>1. \A n \in Nat : n \in N
      BY <1>1, <1>2, EveryNatural
    <2> QED
      BY <2>1 DEF N

\* A sum of integers is one.
LEMMA SumsAreIntegers ==
  ASSUME NEW S, IsFiniteSet(S), NEW d, \A x \in S : d[x] \in Int,
         NEW it, Sums(it, d, SUBSET S)
  PROVE  \A s \in SUBSET S : it[s] \in Int
  <1> DEFINE N == {n \in Nat : \A s \in SUBSET S : Cardinality(s) <= n => it[s] \in Int}
  <1>1. ASSUME NEW s \in SUBSET S
        PROVE  /\ s = {} => it[s] = 0
               /\ s # {} => it[s] = d[First(s)] + it[s \ {First(s)}]
    BY DEF Sums
  <1>2. 0 \in N
    <2>1. ASSUME NEW s \in SUBSET S, Cardinality(s) <= 0 PROVE it[s] \in Int
      <3>1. s = {}
        BY <2>1, OnlyEmpty
      <3>2. it[s] = 0
        BY <1>1, <3>1
      <3> QED
        BY <3>2
    <2> QED
      BY <2>1
  <1>3. ASSUME NEW n \in Nat, n \in N PROVE n + 1 \in N
    <2>1. ASSUME NEW s \in SUBSET S, Cardinality(s) <= n + 1 PROVE it[s] \in Int
      <3>1. CASE s = {}
        <4>1. it[s] = 0
          BY <1>1, <3>1
        <4> QED
          BY <4>1
      <3>2. CASE s # {}
        <4>1. First(s) \in S /\ s \ {First(s)} \in SUBSET S
              /\ Cardinality(s \ {First(s)}) <= n
          BY <2>1, <3>2, OneLess
        <4>2. it[s \ {First(s)}] \in Int
          BY <1>3, <4>1
        <4>3. it[s] = d[First(s)] + it[s \ {First(s)}]
          BY <1>1, <3>2
        <4> QED
          BY <4>1, <4>2, <4>3
      <3> QED
        BY <3>1, <3>2
    <2> QED
      BY <2>1
  <1>4. ASSUME NEW s \in SUBSET S PROVE it[s] \in Int
    <2>1. Cardinality(s) \in Nat
      BY FS_Subset, FS_CardinalityType
    <2>2. \A n \in Nat : n \in N
      <3> HIDE DEF N
      <3> QED
        BY <1>2, <1>3, EveryNatural
    <2> QED
      BY <2>1, <2>2
  <1> QED
    BY <1>4

\* The two together, for a function on a finite set.
LEMMA SumsOfIntegers ==
  ASSUME NEW S, IsFiniteSet(S), NEW d, \A x \in S : d[x] \in Int
  PROVE  /\ \E it : Sums(it, d, SUBSET S)
         /\ \A it : Sums(it, d, SUBSET S) => it[S] \in Int
  <1>1. Cardinality(S) \in Nat
    BY FS_CardinalityType
  <1>2. SmallSubsets(S, Cardinality(S)) = SUBSET S
    BY FS_Subset DEF SmallSubsets
  <1>3. \E it : Sums(it, d, SUBSET S)
    <2>1. PICK it : Sums(it, d, SmallSubsets(S, Cardinality(S)))
      BY <1>1, SumsExist
    <2> QED
      BY <1>2, <2>1
  <1> QED
    BY <1>3, SumsAreIntegers

-------------------------------------------------------------------------------
(* Words *)

LEMMA Widths ==
  /\ TwoTo[INT_BITS - 1] \in Nat /\ TwoTo[INT_BITS - 1] >= 2
  /\ TwoTo[INT_BITS] = 2 * TwoTo[INT_BITS - 1]
  <1>1. INT_BITS \in Nat /\ INT_BITS >= 2
    BY WidthAssumption
  <1>2. INT_BITS \in 1 .. INT_BITS /\ INT_BITS - 1 \in 1 .. INT_BITS
        /\ INT_BITS - 1 - 1 \in 0 .. INT_BITS
    BY <1>1
  <1>3. TwoTo[INT_BITS - 1 - 1] \in Nat \ {0}
    BY <1>2, PowersOfTwo
  <1>4. TwoTo[INT_BITS - 1] = 2 * TwoTo[INT_BITS - 1 - 1]
    BY <1>2, PowersOfTwo
  <1>5. TwoTo[INT_BITS] = 2 * TwoTo[INT_BITS - 1]
    BY <1>2, PowersOfTwo
  <1> QED
    BY <1>3, <1>4, <1>5

LEMMA WordFits ==
  ASSUME NEW n \in Int
  PROVE  Word(n) \in Int32
  <1>1. PICK h \in Nat : h = TwoTo[INT_BITS - 1] /\ h >= 2 /\ TwoTo[INT_BITS] = 2 * h
    BY Widths
  <1>2. n % (2 * h) \in 0 .. 2 * h - 1
    BY <1>1
  <1> QED
    BY <1>1, <1>2 DEF Word, Int32

\* What a sum or a difference of two integers becomes.
LEMMA WordOf ==
  ASSUME NEW h \in Nat, h = TwoTo[INT_BITS - 1], NEW n \in -(2 * h) .. 2 * h - 1
  PROVE  Word(n) = IF n >= h THEN n - 2 * h ELSE IF n < -h THEN n + 2 * h ELSE n
  <1>1. h >= 2 /\ TwoTo[INT_BITS] = 2 * h
    BY Widths
  <1>2. n % (2 * h) = IF n >= 0 THEN n ELSE n + 2 * h
    BY <1>1
  <1> QED
    BY <1>1, <1>2 DEF Word

\* An integer that fits is its own word.
LEMMA WordOfFitting ==
  ASSUME NEW n \in Int32
  PROVE  Word(n) = n
  <1>1. PICK h \in Nat : h = TwoTo[INT_BITS - 1] /\ h >= 2
    BY Widths
  <1>2. n \in -h .. h - 1
    BY <1>1 DEF Int32
  <1> QED
    BY <1>1, <1>2, WordOf

-------------------------------------------------------------------------------
(* Division *)

\* A quotient of naturals is not larger than the dividend.
LEMMA Quotient ==
  ASSUME NEW n \in Nat, NEW m \in Nat \ {0}
  PROVE  /\ n \div m \in Nat /\ n \div m <= n
         /\ m * (n \div m) \in Int
         /\ n - m * (n \div m) >= 0 /\ n - m * (n \div m) < m
  <1>1. n \div m \in Int /\ n = m * (n \div m) + (n % m) /\ n % m \in 0 .. m - 1
    OBVIOUS
  <1>2. PICK q \in Int : q = n \div m
    BY <1>1
  <1>3. PICK r \in 0 .. m - 1 : r = n % m
    BY <1>1
  <1>4. n = m * q + r
    BY <1>1, <1>2, <1>3
  <1>5. q >= 0
    BY <1>3, <1>4
  <1>6. q <= n
    BY <1>3, <1>4, <1>5
  <1> QED
    BY <1>2, <1>3, <1>4, <1>5, <1>6

LEMMA DivFits ==
  ASSUME NEW a \in Int32, NEW b \in Int32
  PROVE  Div(a, b) \in Int32
  <1>1. PICK h \in Nat : h = TwoTo[INT_BITS - 1] /\ h >= 2
    BY Widths
  <1>2. a \in -h .. h - 1 /\ b \in -h .. h - 1
    BY <1>1 DEF Int32
  <1>3. CASE b = 0
    BY <1>1, <1>3 DEF Div, Int32
  <1>4. CASE b # 0
    <2>1. Abs(a) \in Nat /\ Abs(b) \in Nat \ {0}
      BY <1>2, <1>4 DEF Abs
    <2>2. Abs(a) \div Abs(b) \in Int /\ -(Abs(a) \div Abs(b)) \in Int
      BY <2>1, Quotient
    <2> QED
      BY <1>4, <2>2, WordFits DEF Div
  <1> QED
    BY <1>3, <1>4

\* The quotient by a positive number fits, so that it is not wrapped.
LEMMA DivByPositive ==
  ASSUME NEW a \in Int32, NEW b \in Int32, b > 0
  PROVE  /\ a >= 0 => Div(a, b) = a \div b
         /\ a < 0 => Div(a, b) = -((-a) \div b)
  <1>1. PICK h \in Nat : h = TwoTo[INT_BITS - 1] /\ h >= 2
    BY Widths
  <1>2. a \in -h .. h - 1 /\ b \in 1 .. h - 1
    BY <1>1 DEF Int32
  <1>3. CASE a >= 0
    <2>1. a \div b \in Int32
      BY <1>1, <1>2, <1>3, Quotient DEF Int32
    <2> QED
      BY <1>2, <1>3, <2>1, WordOfFitting DEF Div, Abs
  <1>4. CASE a < 0
    <2>1. -a \in Nat /\ b \in Nat \ {0}
      BY <1>2, <1>4
    <2>2. PICK q \in Nat : q = (-a) \div b /\ q <= -a
      BY <2>1, Quotient
    <2>3. -q \in Int32
      BY <1>1, <1>2, <2>2 DEF Int32
    <2>4. Word(-q) = -q
      BY <2>3, WordOfFitting
    <2>5. Abs(a) \div Abs(b) = q /\ b # 0 /\ (a < 0) # (b < 0)
      BY <1>2, <1>4, <2>2 DEF Abs
    <2>6. Div(a, b) = Word(-q)
      BY <2>5 DEF Div
    <2> QED
      BY <1>2, <1>4, <2>2, <2>4, <2>6
  <1> QED
    BY <1>2, <1>3, <1>4

\* The modulo has the sign of the dividend, and less than the divisor is left:
\* Register.div and Register.mod belong together, at the limits too.
THEOREM DivisionIsWhole ==
  ASSUME NEW a \in Int32, NEW b \in Int32, b > 0
  PROVE  /\ a = b * Div(a, b) + Mod(a, b)
         /\ a >= 0 => Mod(a, b) \in 0 .. b - 1
         /\ a < 0 => Mod(a, b) \in -(b - 1) .. 0
         /\ Mod(a, b) \in Int32
  <1>1. PICK h \in Nat : h = TwoTo[INT_BITS - 1] /\ h >= 2
    BY Widths
  <1>2. a \in -h .. h - 1 /\ b \in 1 .. h - 1 /\ b \in Nat \ {0}
    BY <1>1 DEF Int32
  <1>3. PICK q \in Int : q = Div(a, b)
    BY <1>2, DivFits DEF Int32
  <1>4. Mod(a, b) = a - b * q /\ b * q \in Int
    BY <1>2, <1>3 DEF Mod
  <1>5. CASE a >= 0
    <2>1. q = a \div b
      BY <1>3, <1>5, DivByPositive
    <2>2. a - b * q >= 0 /\ a - b * q < b
      BY <1>2, <1>5, <2>1, Quotient
    <2> QED
      BY <1>1, <1>2, <1>3, <1>4, <1>5, <2>2 DEF Int32
  <1>6. CASE a < 0
    <2>1. -a \in Nat
      BY <1>2, <1>6
    <2>2. PICK p \in Nat : p = (-a) \div b
      BY <1>2, <2>1, Quotient
    <2>3. q = -p
      BY <1>3, <1>6, <2>2, DivByPositive
    <2>4. -a - b * p >= 0 /\ -a - b * p < b
      BY <1>2, <2>1, <2>2, Quotient
    <2>5. b * q = -(b * p) /\ b * p \in Int
      BY <1>2, <2>2, <2>3
    <2>6. Mod(a, b) = -(-a - b * p)
      BY <1>2, <1>4, <2>5
    <2> QED
      BY <1>1, <1>2, <1>3, <1>4, <1>6, <2>4, <2>5, <2>6 DEF Int32
  <1> QED
    BY <1>2, <1>5, <1>6

-------------------------------------------------------------------------------
(* Comparisons *)

\* Two registers compare as their integers do when the difference fits in an
\* integer, and are found equal only when they are, whatever they hold
\* (Register.testValue, Function.run). A difference that does not fit has the
\* wrong sign.
THEOREM ComparisonsAreRight ==
  ASSUME NEW a \in Int32, NEW b \in Int32
  PROVE  /\ Binary("TEST_EQU", a, b) = Bool(a = b)
         /\ Binary("TEST_NEQ", a, b) = Bool(a # b)
         /\ a - b \in Int32 =>
              /\ Binary("TEST_GRT", a, b) = Bool(a > b)
              /\ Binary("TEST_GRE", a, b) = Bool(a >= b)
              /\ Binary("TEST_LES", a, b) = Bool(a < b)
              /\ Binary("TEST_LEE", a, b) = Bool(a <= b)
         /\ a - b \notin Int32 => Binary("TEST_LES", a, b) = Bool(a > b)
  <1>1. PICK h \in Nat : h = TwoTo[INT_BITS - 1] /\ h >= 2 /\ TwoTo[INT_BITS] = 2 * h
    BY Widths
  <1>2. a \in -h .. h - 1 /\ b \in -h .. h - 1 /\ a - b \in Int
    BY <1>1 DEF Int32
  <1>3. PICK n \in Int : n = a - b
    BY <1>2
  <1>4. PICK d \in Int : d = TestValue(a, b)
    BY <1>2, WordFits DEF TestValue, Int32
  <1>5. d = IF n >= h THEN n - 2 * h ELSE IF n < -h THEN n + 2 * h ELSE n
    <2>1. n \in -(2 * h) .. 2 * h - 1 /\ d = Word(n)
      BY <1>1, <1>2, <1>3, <1>4 DEF TestValue
    <2> QED
      BY <1>1, <2>1, WordOf
  <1>6. n \in Int32 <=> n \in -h .. h - 1
    BY <1>1 DEF Int32
  <1>7. d = 0 <=> a = b
    BY <1>1, <1>2, <1>3, <1>5
  <1>8. n \in Int32 => d = n
    BY <1>1, <1>5, <1>6
  <1>9. n \notin Int32 => (d < 0 <=> n > 0)
    BY <1>1, <1>2, <1>3, <1>5, <1>6
  <1>10. /\ Binary("TEST_EQU", a, b) = Bool(d = 0)
         /\ Binary("TEST_NEQ", a, b) = Bool(d # 0)
         /\ Binary("TEST_GRT", a, b) = Bool(d > 0)
         /\ Binary("TEST_GRE", a, b) = Bool(d >= 0)
         /\ Binary("TEST_LES", a, b) = Bool(d < 0)
         /\ Binary("TEST_LEE", a, b) = Bool(d <= 0)
    BY <1>4 DEF Binary
  <1> QED
    BY <1>2, <1>3, <1>7, <1>8, <1>9, <1>10 DEF Bool

-------------------------------------------------------------------------------
(* All operations *)

LEMMA BitIsBit ==
  ASSUME NEW n \in Int, NEW i \in 0 .. INT_BITS - 1
  PROVE  Bit(n, i) \in {0, 1}
  <1>1. INT_BITS \in Nat /\ i \in 0 .. INT_BITS
    BY WidthAssumption
  <1>2. PICK p \in Nat \ {0} : p = TwoTo[i]
    BY <1>1, PowersOfTwo
  <1>3. n \div p \in Int
    BY <1>2
  <1> QED
    BY <1>2, <1>3 DEF Bit

LEMMA ShiftIsSmall ==
  ASSUME NEW b \in Int
  PROVE  Shift(b) \in 0 .. INT_BITS - 1 /\ TwoTo[Shift(b)] \in Nat \ {0}
  <1>1. INT_BITS \in Nat /\ INT_BITS >= 2
    BY WidthAssumption
  <1>2. Shift(b) \in 0 .. INT_BITS - 1
    BY <1>1 DEF Shift
  <1>3. Shift(b) \in 0 .. INT_BITS
    BY <1>1, <1>2
  <1> QED
    BY <1>2, <1>3, PowersOfTwo

LEMMA BitwiseFits ==
  ASSUME NEW a \in Int, NEW b \in Int, NEW op, \A x, y \in {0, 1} : op[x][y] \in {0, 1}
  PROVE  Bitwise(a, b, op) \in Int32
  <1> DEFINE S == 0 .. INT_BITS - 1
             Value(i) == op[Bit(a, i)][Bit(b, i)] * TwoTo[i]
             d == [i \in S |-> Value(i)]
             it == CHOOSE it : it = [s \in SUBSET S |->
                     IF s = {} THEN 0 ELSE Value(CHOOSE x \in s : TRUE)
                                           + it[s \ {CHOOSE x \in s : TRUE}]]
  <1>1. IsFiniteSet(S)
    BY WidthAssumption, FS_Interval
  <1>2. \A i \in S : d[i] = Value(i) /\ Value(i) \in Int
    <2> SUFFICES ASSUME NEW i \in S PROVE Value(i) \in Int
      OBVIOUS
    <2>1. TwoTo[i] \in Int
      <3>1. i \in 0 .. INT_BITS
        BY WidthAssumption
      <3> QED
        BY <3>1, PowersOfTwo
    <2>2. op[Bit(a, i)][Bit(b, i)] \in {0, 1}
      BY BitIsBit
    <2> QED
      BY <2>1, <2>2
  <1> HIDE DEF S, Value, d
  <1>3. PICK jt : Sums(jt, d, SUBSET S)
    BY <1>1, <1>2, SumsOfIntegers
  <1>4. ASSUME NEW kt
        PROVE  Sums(kt, d, SUBSET S) <=>
                 kt = [s \in SUBSET S |-> IF s = {} THEN 0 ELSE Value(CHOOSE x \in s : TRUE)
                                             + kt[s \ {CHOOSE x \in s : TRUE}]]
    <2>1. \A s \in SUBSET S : s # {} => d[First(s)] = Value(CHOOSE x \in s : TRUE)
      BY <1>2 DEF First
    <2> QED
      BY <2>1 DEF Sums, First
  <1>5. Sums(it, d, SUBSET S)
    BY <1>3, <1>4
  <1>6. it[S] \in Int
    <2> HIDE DEF it
    <2> QED
      BY <1>1, <1>2, <1>5, SumsOfIntegers
  <1>7. Bitwise(a, b, op) = Word(it[S])
    BY DEF Bitwise, MapThenSumSet, MapThenFoldSet, S, Value
  <1> QED
    BY <1>6, <1>7, WordFits

\* Every instruction on two registers, and the inversion of the bits, gives an
\* integer of the width of a register, whatever the registers hold: a division
\* or a modulo by zero, the smallest integer divided by -1, and shifts by more
\* than the width (Register.java, Function.run).
THEOREM OperationsFit ==
  ASSUME NEW a \in Int32, NEW b \in Int32
  PROVE  /\ BitInv(a) \in Int32
         /\ \A op \in BinaryOps : Binary(op, a, b) \in Int32
  <1>1. PICK h \in Nat : h = TwoTo[INT_BITS - 1] /\ h >= 2 /\ TwoTo[INT_BITS] = 2 * h
    BY Widths
  <1>2. a \in -h .. h - 1 /\ b \in -h .. h - 1 /\ a \in Int /\ b \in Int
    BY <1>1 DEF Int32
  <1>3. BitInv(a) \in Int32
    BY <1>1, <1>2 DEF BitInv, Int32
  <1>4. Word(a + b) \in Int32 /\ Word(a - b) \in Int32 /\ Word(a * b) \in Int32
    BY <1>2, WordFits
  <1>5. Div(a, b) \in Int32 /\ Mod(a, b) \in Int32
    <2>1. b <= 0 => Mod(a, b) = a
      BY <1>2 DEF Mod
    <2>2. b > 0 => Mod(a, b) \in Int32
      BY DivisionIsWhole
    <2> QED
      BY <1>2, <2>1, <2>2, DivFits
  <1>6. 0 \in Int32 /\ 1 \in Int32
    BY <1>1 DEF Int32
  <1>7. /\ Bitwise(a, b, And) \in Int32
        /\ Bitwise(a, b, Or) \in Int32
        /\ Bitwise(a, b, Xor) \in Int32
    <2>1. \A x, y \in {0, 1} : And[x][y] \in {0, 1}
      BY DEF And
    <2>2. \A x, y \in {0, 1} : Or[x][y] \in {0, 1}
      BY DEF Or
    <2>3. \A x, y \in {0, 1} : Xor[x][y] \in {0, 1}
      BY DEF Xor
    <2> QED
      BY <1>2, <2>1, <2>2, <2>3, BitwiseFits
  <1>8. PICK p \in Nat \ {0} : p = TwoTo[Shift(b)]
    BY <1>2, ShiftIsSmall
  <1>9. Word(a * p) \in Int32
    BY <1>2, WordFits
  <1>10. a \div p \in Int32
    <2>1. a \div p \in -h .. h - 1
      <3>1. PICK q \in Int : q = a \div p
        BY <1>2, <1>8
      <3>2. PICK r \in 0 .. p - 1 : a = p * q + r
        <4>1. a = p * (a \div p) + (a % p) /\ a % p \in 0 .. p - 1
          BY <1>2, <1>8
        <4> QED
          BY <3>1, <4>1
      <3>3. q <= h - 1
        <4>1. q >= h => p * q >= q
          BY <1>1, <1>8
        <4> QED
          BY <1>2, <1>8, <3>2, <4>1
      <3>4. q >= -h
        <4>1. q < -h => p * (q + 1) <= q + 1
          BY <1>1, <1>8
        <4> QED
          BY <1>2, <1>8, <3>2, <4>1
      <3> QED
        BY <3>1, <3>3, <3>4
    <2> QED
      BY <1>1, <2>1 DEF Int32
  <1>11. Word((a % TwoTo[INT_BITS]) \div p) \in Int32
    <2>1. a % (2 * h) \in Nat
      BY <1>1, <1>2
    <2>2. (a % (2 * h)) \div p \in Int
      BY <1>8, <2>1
    <2> QED
      BY <1>1, <2>2, WordFits
  <1>12. ASSUME NEW op \in BinaryOps PROVE Binary(op, a, b) \in Int32
    <2>1. CASE op \in {"ADD_REG_REG", "SUB_REG_REG", "MUL_REG_REG"}
      BY <1>4, <2>1 DEF Binary
    <2>2. CASE op \in {"DIV_REG_REG", "MOD_REG_REG"}
      BY <1>5, <2>2 DEF Binary
    <2>3. CASE op \in {"TEST_EQU", "TEST_NEQ", "TEST_GRT", "TEST_GRE", "TEST_LES", "TEST_LEE"}
      <3>1. Binary(op, a, b) \in {0, 1}
        BY <2>3 DEF Binary, Bool
      <3> QED
        BY <1>6, <3>1
    <2>4. CASE op \in {"BIT_AND", "BIT_OR", "BIT_XOR"}
      BY <1>7, <2>4 DEF Binary
    <2>5. CASE op \in {"BIT_LS", "BIT_RS", "BIT_RRS"}
      BY <1>8, <1>9, <1>10, <1>11, <2>5 DEF Binary
    <2> QED
      BY <2>1, <2>2, <2>3, <2>4, <2>5 DEF BinaryOps
  <1> QED
    BY <1>3, <1>12

================================================================================
