------------------------------ MODULE SceneProofs ------------------------------
(***************************************************************************)
(* What holds of a scene for all plays, callbacks and bounds, in three     *)
(* parts.                                                                  *)
(*                                                                         *)
(* Callbacks.  The objects the walk has before it, or m_cbList, and those  *)
(* of the pool are lists without a common object and without a cycle       *)
(* (Shape).  A called function may put objects in front of a list head     *)
(* that has gone to the pool; from then on stale is set and only the shape *)
(* is kept.  Before that the list is sorted and its head is the first of   *)
(* all that wait (CallbacksInOrder).                                       *)
(*                                                                         *)
(* Starts.  A scene has as many starts as it may still have (MostStarts):  *)
(* one for being shown and one for being loaded, of which a stop or a      *)
(* replacement takes one back; only a load that ends while the Inline is   *)
(* hidden and shown again uses both (StartsAsShown).                       *)
(*                                                                         *)
(* Sleep.  A frame that asks for no other one leaves nothing to do         *)
(* (Settled), and the wake-up it decides on is not after the first time at *)
(* which a callback or a sensor is due (WakesUpFor, SleepsNoLonger).       *)
(***************************************************************************)
EXTENDS Scene, FiniteSetTheorems, SequenceTheorems, WellFoundedInduction, TLAPS

-----------------------------------------------------------------------------
(* What Reached computes.                                                  *)

\* A set of naturals has a smallest element.
LEMMA Smallest ==
  ASSUME NEW S, S \subseteq Nat, S # {}
  PROVE  \E m \in S : \A n \in S : m <= n
  <1> DEFINE T == {0..m : m \in S}
             R == StrictSubsetOrdering(Nat)
  <1>1. IsWellFoundedOn(R, FiniteSubsetsOf(Nat))
    BY FS_StrictSubsetOrderingWellFounded
  <1>2. T \subseteq FiniteSubsetsOf(Nat) /\ T # {}
    <2>1. ASSUME NEW m \in S PROVE 0..m \in FiniteSubsetsOf(Nat)
      <3>1. m \in Int /\ 0..m \in SUBSET Nat
        OBVIOUS
      <3>2. IsFiniteSet(0..m)
        BY <3>1, FS_Interval
      <3> QED BY <3>1, <3>2 DEF FiniteSubsetsOf
    <2> QED BY <2>1
  <1>3. PICK x \in T : \A y \in T : ~(<<y, x>> \in R)
    <2> HIDE DEF T, R
    <2> QED BY <1>1, <1>2, WFMin
  <1>4. PICK m \in S : x = 0..m
    OBVIOUS
  <1>5. ASSUME NEW n \in S, n < m PROVE FALSE
    <2>1. /\ 0..n \in T /\ 0..n \subseteq 0..m /\ m \in 0..m /\ m \notin 0..n
          /\ {0..n, 0..m} \subseteq SUBSET Nat
      BY <1>5
    <2>2. <<0..n, x>> \in R
      BY <1>4, <2>1 DEF StrictSubsetOrdering
    <2> QED BY <1>3, <2>1, <2>2
  <1> QED
    BY <1>5

\* A set of naturals with 0 and the next of each element has them all.
LEMMA AllNaturals ==
  ASSUME NEW S, 0 \in S, \A n \in Nat : n \in S => n + 1 \in S
  PROVE  \A n \in Nat : n \in S
  <1> SUFFICES ASSUME NEW x \in Nat, x \notin S PROVE FALSE
    OBVIOUS
  <1> DEFINE T == {n \in Nat : n \notin S}
  <1>1. T \subseteq Nat /\ x \in T
    OBVIOUS
  <1>2. PICK m \in T : \A n \in T : m <= n
    <2> HIDE DEF T
    <2> QED BY <1>1, Smallest
  <1>3. m \in Nat /\ m # 0 /\ m \notin S
    OBVIOUS
  <1>4. m - 1 \in Nat /\ m - 1 + 1 = m
    BY <1>3
  <1>5. m - 1 \in S
    BY <1>2, <1>4
  <1> QED
    BY <1>3, <1>4, <1>5

\* One step along m_next.
After(nx, c) == IF c = Null THEN Null ELSE nx[c]
Steps(nx, c, n, W) == W = [k \in 0..n |-> IF k = 0 THEN c ELSE After(nx, W[k - 1])]

\* There is one walk of n steps, and a longer one begins with it.
LEMMA WalkExists ==
  ASSUME NEW nx, NEW c
  PROVE  \A n \in Nat : \E W : Steps(nx, c, n, W)
  <1> DEFINE S == {n \in Nat : \E W : Steps(nx, c, n, W)}
  <1>1. 0 \in S
    <2>1. Steps(nx, c, 0, [k \in 0..0 |-> c])
      BY DEF Steps
    <2> QED BY <2>1
  <1>2. ASSUME NEW n \in Nat, n \in S PROVE n + 1 \in S
    <2>1. PICK W : Steps(nx, c, n, W)
      BY <1>2
    <2> DEFINE V == [k \in 0..(n + 1) |-> IF k = n + 1 THEN After(nx, W[n]) ELSE W[k]]
    <2>2. ASSUME NEW k \in 0..(n + 1)
          PROVE  V[k] = IF k = 0 THEN c ELSE After(nx, V[k - 1])
      <3>1. CASE k = n + 1
        <4>1. k # 0 /\ k - 1 = n /\ V[k - 1] = W[n] /\ V[k] = After(nx, W[n])
          BY <3>1
        <4> HIDE DEF V
        <4> QED BY <4>1
      <3>2. CASE k # n + 1
        <4>1. V[k] = W[k] /\ k \in 0..n
          BY <3>2
        <4>2. k # 0 => V[k - 1] = W[k - 1]
          BY <3>2
        <4>3. W[k] = IF k = 0 THEN c ELSE After(nx, W[k - 1])
          BY <2>1, <4>1 DEF Steps
        <4> HIDE DEF V
        <4> QED BY <4>1, <4>2, <4>3
      <3> QED BY <3>1, <3>2
    <2>3. V = [k \in 0..(n + 1) |-> V[k]]
      OBVIOUS
    <2>4. Steps(nx, c, n + 1, V)
      <3> HIDE DEF V
      <3> QED BY <2>2, <2>3 DEF Steps
    <2> QED BY <2>4
  <1> QED
    <2> HIDE DEF S
    <2>1. \A n \in Nat : n \in S
      BY <1>1, <1>2, AllNaturals
    <2> QED BY <2>1 DEF S

LEMMA WalksAgree ==
  ASSUME NEW nx, NEW c, NEW n \in Nat, NEW m \in Nat, NEW W, NEW V,
         Steps(nx, c, n, W), Steps(nx, c, m, V)
  PROVE  \A k \in Nat : k <= n /\ k <= m => W[k] = V[k]
  <1> DEFINE S == {k \in Nat : k <= n /\ k <= m => W[k] = V[k]}
  <1>0. /\ \A k \in 0..n : W[k] = IF k = 0 THEN c ELSE After(nx, W[k - 1])
        /\ \A k \in 0..m : V[k] = IF k = 0 THEN c ELSE After(nx, V[k - 1])
    BY DEF Steps
  <1>1. 0 \in S
    BY <1>0
  <1>2. ASSUME NEW k \in Nat, k \in S PROVE k + 1 \in S
    <2> SUFFICES ASSUME k + 1 <= n, k + 1 <= m PROVE W[k + 1] = V[k + 1]
      OBVIOUS
    <2>1. k + 1 \in 0..n /\ k + 1 \in 0..m /\ k + 1 # 0 /\ k + 1 - 1 = k
      OBVIOUS
    <2>2. W[k] = V[k]
      BY <1>2
    <2> QED BY <1>0, <2>1, <2>2
  <1> QED
    <2> HIDE DEF S
    <2>1. \A k \in Nat : k \in S
      BY <1>1, <1>2, AllNaturals
    <2> QED BY <2>1 DEF S

\* Reached walks step by step.
LEMMA ReachedSteps ==
  ASSUME NEW nx, NEW c
  PROVE  /\ Reached(nx, c, 0) = c
         /\ \A n \in Nat : Reached(nx, c, n + 1) = After(nx, Reached(nx, c, n))
  <1> DEFINE Way(n) == CHOOSE W : Steps(nx, c, n, W)
  <1>1. ASSUME NEW n \in Nat PROVE Reached(nx, c, n) = Way(n)[n]
    BY DEF Reached, Steps, After
  <1>2. ASSUME NEW n \in Nat PROVE Steps(nx, c, n, Way(n))
    BY WalkExists
  <1> HIDE DEF Way
  <1>3. Reached(nx, c, 0) = c
    BY <1>1, <1>2 DEF Steps
  <1>4. ASSUME NEW n \in Nat PROVE Reached(nx, c, n + 1) = After(nx, Reached(nx, c, n))
    <2>1. Way(n + 1)[n + 1] = After(nx, Way(n + 1)[n])
      <3>1. n + 1 \in Nat /\ n + 1 \in 0..(n + 1) /\ n + 1 # 0 /\ n + 1 - 1 = n
        OBVIOUS
      <3> QED BY <1>2, <3>1 DEF Steps
    <2>2. Way(n + 1)[n] = Way(n)[n]
      BY <1>2, WalksAgree
    <2> QED BY <1>1, <2>1, <2>2
  <1> QED
    BY <1>3, <1>4

-----------------------------------------------------------------------------
(* Lists.  A list is given by the sequence of its objects.                 *)

At(q, i) == IF i <= Len(q) THEN q[i] ELSE Null

ListOf(nx, q, c) ==
  /\ \A i, j \in 1..Len(q) : q[i] = q[j] => i = j
  /\ c = At(q, 1)
  /\ \A i \in 1..Len(q) : nx[q[i]] = At(q, i + 1)

IsIn(c, q) == \E i \in 1..Len(q) : q[i] = c
Apart(q, r) == \A i \in 1..Len(q), j \in 1..Len(r) : q[i] # r[j]

\* q with c after its k-th object.
Inserted(q, k, c) == [i \in 1..(Len(q) + 1) |-> IF i <= k THEN q[i] ELSE IF i = k + 1 THEN c ELSE q[i - 1]]

\* The walk along a list finds its objects and then nothing.
LEMMA ReachedInList ==
  ASSUME NEW nx, NEW q \in Seq(Cells), NEW c, ListOf(nx, q, c)
  PROVE  \A n \in Nat : Reached(nx, c, n) = At(q, n + 1)
  <1> DEFINE S == {n \in Nat : Reached(nx, c, n) = At(q, n + 1)}
  <1>0. Len(q) \in Nat /\ \A i \in 1..Len(q) : q[i] \in Cells
    BY LenProperties, ElementOfSeq
  <1>1. 0 \in S
    BY ReachedSteps DEF ListOf
  <1>2. ASSUME NEW n \in Nat, n \in S PROVE n + 1 \in S
    <2>1. Reached(nx, c, n + 1) = After(nx, At(q, n + 1))
      <3>1. Reached(nx, c, n) = At(q, n + 1)
        BY <1>2
      <3>2. Reached(nx, c, n + 1) = After(nx, Reached(nx, c, n))
        BY ReachedSteps
      <3> QED BY <3>1, <3>2
    <2>2. CASE n + 1 <= Len(q)
      <3>1. n + 1 \in 1..Len(q) /\ At(q, n + 1) = q[n + 1] /\ q[n + 1] # Null
        BY <1>0, <2>2 DEF At, Cells, Null
      <3>2. nx[q[n + 1]] = At(q, n + 1 + 1)
        BY <3>1 DEF ListOf
      <3> QED BY <2>1, <3>1, <3>2 DEF After
    <2>3. CASE ~(n + 1 <= Len(q))
      <3>1. At(q, n + 1) = Null /\ At(q, n + 1 + 1) = Null
        BY <1>0, <2>3 DEF At
      <3> QED BY <2>1, <3>1 DEF After
    <2> QED BY <2>2, <2>3
  <1> QED
    <2> HIDE DEF S
    <2>1. \A n \in Nat : n \in S
      BY <1>1, <1>2, AllNaturals
    <2> QED BY <2>1 DEF S

\* The walk does not leave the objects.
LEMMA ReachedKind ==
  ASSUME NEW C, NEW nx \in [Cells -> C \cup {Null}], C \subseteq Cells, NEW c \in C \cup {Null}
  PROVE  \A n \in Nat : Reached(nx, c, n) \in C \cup {Null}
  <1> DEFINE S == {n \in Nat : Reached(nx, c, n) \in C \cup {Null}}
  <1>1. 0 \in S
    BY ReachedSteps
  <1>2. ASSUME NEW n \in Nat, n \in S PROVE n + 1 \in S
    <2>1. Reached(nx, c, n + 1) = After(nx, Reached(nx, c, n))
      BY ReachedSteps
    <2> QED BY <1>2, <2>1 DEF After
  <1> QED
    <2> HIDE DEF S
    <2>1. \A n \in Nat : n \in S
      BY <1>1, <1>2, AllNaturals
    <2> QED BY <2>1 DEF S

\* A list has no more objects than there are.
LEMMA ListIsShort ==
  ASSUME NEW q \in Seq(Cells), \A i, j \in 1..Len(q) : q[i] = q[j] => i = j
  PROVE  Len(q) <= MaxCalls
  <1>1. Len(q) \in Nat /\ q \in [1..Len(q) -> Cells] /\ MaxCalls \in Nat
    BY LenProperties, BoundsAssumption
  <1>2. IsFiniteSet(Cells) /\ Cardinality(Cells) = MaxCalls
    BY <1>1, FS_Interval DEF Cells
  <1>3. IsFiniteSet(1..Len(q)) /\ Cardinality(1..Len(q)) = Len(q)
    BY <1>1, FS_Interval
  <1>4. q \in Injection(1..Len(q), Cells)
    BY <1>1 DEF Injection, IsInjective
  <1> QED
    BY <1>2, <1>3, <1>4, FS_Injection

\* An object that joins a list.
LEMMA InsertedIs ==
  ASSUME NEW q \in Seq(Cells), NEW k \in 0..Len(q), NEW c \in Cells
  PROVE  LET r == Inserted(q, k, c)
         IN /\ r \in Seq(Cells) /\ Len(r) = Len(q) + 1 /\ r[k + 1] = c
            /\ \A i \in 1..k : r[i] = q[i]
            /\ \A i \in (k + 1)..Len(q) : r[i + 1] = q[i]
  <1> DEFINE r == Inserted(q, k, c)
  <1>1. Len(q) \in Nat /\ \A i \in 1..Len(q) : q[i] \in Cells
    BY LenProperties, ElementOfSeq
  <1>2. ASSUME NEW i \in 1..(Len(q) + 1)
        PROVE  (IF i <= k THEN q[i] ELSE IF i = k + 1 THEN c ELSE q[i - 1]) \in Cells
    BY <1>1
  <1>3. r \in [1..(Len(q) + 1) -> Cells]
    BY <1>2 DEF Inserted
  <1>4. r \in Seq(Cells) /\ Len(r) = Len(q) + 1
    <2>1. r \in Seq(Cells)
      <3>1. Len(q) + 1 \in Nat
        BY <1>1
      <3> HIDE DEF r
      <3> QED BY <1>3, <3>1, SeqDef
    <2>2. DOMAIN r = 1..(Len(q) + 1)
      BY <1>3
    <2> HIDE DEF r
    <2> QED BY <1>1, <2>1, <2>2, LenProperties
  <1>5. r[k + 1] = c /\ \A i \in 1..k : r[i] = q[i]
    BY <1>1 DEF Inserted
  <1>6. ASSUME NEW i \in (k + 1)..Len(q) PROVE r[i + 1] = q[i]
    BY <1>1 DEF Inserted
  <1> QED
    BY <1>4, <1>5, <1>6

\* A list whose links stay.
LEMMA ListStays ==
  ASSUME NEW nx, NEW ny, NEW q, NEW c, ListOf(nx, q, c), \A i \in 1..Len(q) : ny[q[i]] = nx[q[i]]
  PROVE  ListOf(ny, q, c)
  BY DEF ListOf

\* The empty list, and the first object of another.
LEMMA ListHead ==
  ASSUME NEW nx, NEW q \in Seq(Cells), NEW c, ListOf(nx, q, c)
  PROVE  /\ (c = Null) <=> (q = <<>>)
         /\ (c = Null) <=> (Len(q) = 0)
         /\ c # Null => /\ 1 \in 1..Len(q) /\ c = q[1] /\ c \in Cells
  <1>1. Len(q) \in Nat /\ \A i \in 1..Len(q) : q[i] \in Cells
    BY LenProperties, ElementOfSeq
  <1>2. Null \notin Cells
    BY DEF Null, Cells
  <1>3. c = IF 1 <= Len(q) THEN q[1] ELSE Null
    BY DEF ListOf, At
  <1>4. q = <<>> <=> Len(q) = 0
    BY EmptySeq
  <1> QED
    BY <1>1, <1>2, <1>3, <1>4

\* The first object is taken away.
LEMMA ListPop ==
  ASSUME NEW nx, NEW q \in Seq(Cells), NEW c, ListOf(nx, q, c), c # Null
  PROVE  /\ Tail(q) \in Seq(Cells) /\ Len(Tail(q)) = Len(q) - 1
         /\ \A i \in 1..Len(Tail(q)) : i + 1 \in 1..Len(q) /\ Tail(q)[i] = q[i + 1]
         /\ ListOf(nx, Tail(q), nx[c]) /\ ~IsIn(c, Tail(q))
  <1>1. q # <<>> /\ c = q[1] /\ 1 \in 1..Len(q) /\ Len(q) \in Nat
    BY ListHead, LenProperties
  <1>2. Tail(q) \in Seq(Cells) /\ Len(Tail(q)) = Len(q) - 1
    BY <1>1, HeadTailProperties
  <1>3. ASSUME NEW i \in 1..Len(Tail(q)) PROVE i + 1 \in 1..Len(q) /\ Tail(q)[i] = q[i + 1]
    BY <1>1, <1>2, HeadTailProperties
  <1>4. /\ \A i, j \in 1..Len(q) : q[i] = q[j] => i = j
        /\ \A i \in 1..Len(q) : nx[q[i]] = At(q, i + 1)
    BY DEF ListOf
  <1>5. ASSUME NEW i \in 1..Len(Tail(q)), NEW j \in 1..Len(Tail(q)), Tail(q)[i] = Tail(q)[j] PROVE i = j
    <2>1. q[i + 1] = q[j + 1] /\ i + 1 \in 1..Len(q) /\ j + 1 \in 1..Len(q)
      BY <1>3, <1>5
    <2>2. i + 1 = j + 1
      BY <1>4, <2>1
    <2> QED BY <1>1, <1>2, <2>2
  <1>6. ASSUME NEW i \in Nat PROVE At(Tail(q), i + 1) = At(q, i + 1 + 1)
    <2>1. CASE i + 1 <= Len(Tail(q))
      <3>1. i + 1 \in 1..Len(Tail(q)) /\ i + 1 + 1 <= Len(q)
        BY <1>1, <1>2, <2>1
      <3> QED BY <1>3, <3>1 DEF At
    <2>2. CASE ~(i + 1 <= Len(Tail(q)))
      <3>1. ~(i + 1 + 1 <= Len(q))
        BY <1>1, <1>2, <2>2
      <3> QED BY <2>2, <3>1 DEF At
    <2> QED BY <2>1, <2>2
  <1>7. nx[c] = At(Tail(q), 1)
    <2>1. 0 \in Nat /\ 0 + 1 = 1
      OBVIOUS
    <2>2. At(Tail(q), 1) = At(q, 1 + 1)
      BY <1>6, <2>1
    <2> QED BY <1>1, <1>4, <2>2
  <1>8. ASSUME NEW i \in 1..Len(Tail(q)) PROVE nx[Tail(q)[i]] = At(Tail(q), i + 1)
    <2>1. nx[Tail(q)[i]] = At(q, i + 1 + 1)
      BY <1>3, <1>4
    <2>2. i \in Nat
      BY <1>1, <1>2
    <2> QED BY <1>6, <2>1, <2>2
  <1>9. ~IsIn(c, Tail(q))
    <2> SUFFICES ASSUME NEW i \in 1..Len(Tail(q)), Tail(q)[i] = c PROVE FALSE
      BY DEF IsIn
    <2>1. i + 1 \in 1..Len(q) /\ q[i + 1] = q[1]
      BY <1>1, <1>3
    <2>2. i + 1 = 1
      BY <1>1, <1>4, <2>1
    <2> QED BY <1>1, <1>2, <2>2
  <1> QED
    BY <1>2, <1>3, <1>5, <1>7, <1>8, <1>9 DEF ListOf

\* The objects of a list with one more.
LEMMA InsertedApart ==
  ASSUME NEW q \in Seq(Cells), NEW k \in 0..Len(q), NEW c \in Cells
  PROVE  /\ \A x : IsIn(x, Inserted(q, k, c)) <=> (x = c \/ IsIn(x, q))
         /\ (~IsIn(c, q) /\ \A i, j \in 1..Len(q) : q[i] = q[j] => i = j)
              => \A i, j \in 1..Len(Inserted(q, k, c)) :
                   Inserted(q, k, c)[i] = Inserted(q, k, c)[j] => i = j
  <1> DEFINE r == Inserted(q, k, c)
  <1>1. /\ r \in Seq(Cells) /\ Len(r) = Len(q) + 1 /\ r[k + 1] = c /\ Len(q) \in Nat
        /\ \A i \in 1..k : r[i] = q[i]
        /\ \A i \in (k + 1)..Len(q) : r[i + 1] = q[i]
    BY InsertedIs, LenProperties
  <1> HIDE DEF r
  <1> DEFINE src(i) == IF i <= k THEN i ELSE i - 1
  <1>2. ASSUME NEW i \in 1..Len(r), i # k + 1 PROVE src(i) \in 1..Len(q) /\ r[i] = q[src(i)]
    <2>1. CASE i <= k
      BY <1>1, <2>1
    <2>2. CASE ~(i <= k)
      <3>1. i - 1 \in (k + 1)..Len(q) /\ i - 1 + 1 = i
        BY <1>1, <1>2, <2>2
      <3>2. i - 1 \in 1..Len(q) /\ r[i] = q[i - 1]
        BY <1>1, <3>1
      <3> QED BY <2>2, <3>2
    <2> QED BY <2>1, <2>2
  <1>3. k + 1 \in 1..Len(r)
    BY <1>1
  <1>4. ASSUME NEW x PROVE IsIn(x, r) <=> (x = c \/ IsIn(x, q))
    <2>1. ASSUME IsIn(x, r) PROVE x = c \/ IsIn(x, q)
      <3>1. PICK i \in 1..Len(r) : r[i] = x
        BY <2>1 DEF IsIn
      <3> QED BY <1>1, <1>2, <3>1 DEF IsIn
    <2>2. ASSUME x = c PROVE IsIn(x, r)
      BY <1>1, <1>3, <2>2 DEF IsIn
    <2>3. ASSUME IsIn(x, q) PROVE IsIn(x, r)
      <3>1. PICK i \in 1..Len(q) : q[i] = x
        BY <2>3 DEF IsIn
      <3>2. CASE i <= k
        <4>1. i \in 1..k /\ i \in 1..Len(r)
          BY <1>1, <3>2
        <4> QED BY <1>1, <3>1, <4>1 DEF IsIn
      <3>3. CASE ~(i <= k)
        <4>1. i \in (k + 1)..Len(q) /\ i + 1 \in 1..Len(r)
          BY <1>1, <3>3
        <4> QED BY <1>1, <3>1, <4>1 DEF IsIn
      <3> QED BY <3>2, <3>3
    <2> QED BY <2>1, <2>2, <2>3
  <1>5. ASSUME ~IsIn(c, q), \A i, j \in 1..Len(q) : q[i] = q[j] => i = j,
               NEW i \in 1..Len(r), NEW j \in 1..Len(r), r[i] = r[j]
        PROVE  i = j
    <2>1. CASE i = k + 1 \/ j = k + 1
      BY <1>1, <1>2, <1>5, <2>1 DEF IsIn
    <2>2. CASE i # k + 1 /\ j # k + 1
      <3>1. /\ src(i) \in 1..Len(q) /\ src(j) \in 1..Len(q)
            /\ r[i] = q[src(i)] /\ r[j] = q[src(j)]
        BY <1>2, <2>2
      <3>2. src(i) = src(j)
        <4> HIDE DEF src
        <4> QED BY <1>5, <3>1
      <3> QED BY <1>1, <2>2, <3>2
    <2> QED BY <2>1, <2>2
  <1> QED
    BY <1>4, <1>5 DEF r

\* An object is linked in: before the first one, or behind the k-th.
LEMMA ListPush ==
  ASSUME NEW nx, NEW ny, NEW q \in Seq(Cells), NEW h, ListOf(nx, q, h), NEW c \in Cells, ~IsIn(c, q),
         ny[c] = h, \A i \in 1..Len(q) : ny[q[i]] = nx[q[i]]
  PROVE  ListOf(ny, Inserted(q, 0, c), c)
  <1> DEFINE r == Inserted(q, 0, c)
  <1>1. /\ r \in Seq(Cells) /\ Len(r) = Len(q) + 1 /\ r[1] = c /\ Len(q) \in Nat
        /\ \A i \in 1..Len(q) : r[i + 1] = q[i]
    <2>1. 0 \in 0..Len(q) /\ Len(q) \in Nat
      BY LenProperties
    <2>2. r[0 + 1] = c /\ \A i \in (0 + 1)..Len(q) : r[i + 1] = q[i]
      BY <2>1, InsertedIs
    <2>3. r \in Seq(Cells) /\ Len(r) = Len(q) + 1
      BY <2>1, InsertedIs
    <2> HIDE DEF r
    <2> QED BY <2>1, <2>2, <2>3
  <1>2. \A i, j \in 1..Len(r) : r[i] = r[j] => i = j
    <2>1. 0 \in 0..Len(q)
      BY <1>1
    <2> QED BY <2>1, InsertedApart DEF ListOf
  <1> HIDE DEF r
  <1>3. c = At(r, 1)
    BY <1>1 DEF At
  <1>4. ASSUME NEW i \in 1..Len(r) PROVE ny[r[i]] = At(r, i + 1)
    <2>1. CASE i = 1
      <3>1. h = At(q, 1)
        BY DEF ListOf
      <3>2. At(q, 1) = At(r, 1 + 1)
        <4>1. CASE Len(q) = 0
          BY <1>1, <4>1 DEF At
        <4>2. CASE Len(q) # 0
          <5>1. 1 \in 1..Len(q) /\ 1 + 1 <= Len(r)
            BY <1>1, <4>2
          <5> QED BY <1>1, <5>1 DEF At
        <4> QED BY <4>1, <4>2
      <3> QED BY <1>1, <2>1, <3>1, <3>2
    <2>2. CASE i # 1
      <3>1. i - 1 \in 1..Len(q) /\ i - 1 + 1 = i
        BY <1>1, <2>2
      <3>2. r[i] = q[i - 1]
        BY <1>1, <3>1
      <3>3. ny[r[i]] = At(q, i)
        BY <3>1, <3>2 DEF ListOf
      <3>4. At(q, i) = At(r, i + 1)
        <4>1. CASE i <= Len(q)
          <5>1. i \in 1..Len(q) /\ i + 1 <= Len(r)
            BY <1>1, <4>1
          <5> QED BY <1>1, <5>1 DEF At
        <4>2. CASE ~(i <= Len(q))
          <5>1. ~(i + 1 <= Len(r))
            BY <1>1, <4>2
          <5> QED BY <4>2, <5>1 DEF At
        <4> QED BY <4>1, <4>2
      <3> QED BY <3>3, <3>4
    <2> QED BY <2>1, <2>2
  <1> QED
    BY <1>2, <1>3, <1>4 DEF ListOf, r

LEMMA ListInsert ==
  ASSUME NEW nx, NEW ny, NEW q \in Seq(Cells), NEW h, ListOf(nx, q, h), NEW c \in Cells, ~IsIn(c, q),
         NEW k \in 1..Len(q), ny[c] = nx[q[k]], ny[q[k]] = c,
         \A i \in 1..Len(q) : i # k => ny[q[i]] = nx[q[i]]
  PROVE  ListOf(ny, Inserted(q, k, c), h)
  <1> DEFINE r == Inserted(q, k, c)
  <1>0. k \in 0..Len(q) /\ Len(q) \in Nat
    BY LenProperties
  <1>1. /\ r \in Seq(Cells) /\ Len(r) = Len(q) + 1 /\ r[k + 1] = c
        /\ \A i \in 1..k : r[i] = q[i]
        /\ \A i \in (k + 1)..Len(q) : r[i + 1] = q[i]
    BY <1>0, InsertedIs
  <1>2. \A i, j \in 1..Len(r) : r[i] = r[j] => i = j
    BY <1>0, InsertedApart DEF ListOf
  <1> HIDE DEF r
  <1>3. h = At(r, 1)
    <2>1. h = q[1] /\ 1 \in 1..k /\ 1 <= Len(r)
      BY <1>0, <1>1 DEF ListOf, At
    <2> QED BY <1>1, <2>1 DEF At
  \* What follows the i-th object of q, for i at least k.
  <1>4. ASSUME NEW i \in k..Len(q) PROVE At(q, i + 1) = At(r, i + 1 + 1)
    <2>1. CASE i + 1 <= Len(q)
      <3>1. i + 1 \in (k + 1)..Len(q) /\ i + 1 + 1 <= Len(r)
        BY <1>0, <1>1, <2>1
      <3> QED BY <1>1, <2>1, <3>1 DEF At
    <2>2. CASE ~(i + 1 <= Len(q))
      <3>1. ~(i + 1 + 1 <= Len(r))
        BY <1>0, <1>1, <2>2
      <3> QED BY <2>2, <3>1 DEF At
    <2> QED BY <2>1, <2>2
  <1>5. ASSUME NEW i \in 1..Len(r) PROVE ny[r[i]] = At(r, i + 1)
    <2>1. CASE i < k
      <3>1. i \in 1..k /\ i \in 1..Len(q) /\ i # k /\ i + 1 \in 1..k /\ i + 1 <= Len(q) /\ i + 1 <= Len(r)
        BY <1>0, <1>1, <2>1
      <3>2. ny[r[i]] = q[i + 1]
        BY SMTT(30), <1>1, <3>1 DEF ListOf, At
      <3> QED BY <1>1, <3>1, <3>2 DEF At
    <2>2. CASE i = k
      <3>1. r[i] = q[k] /\ k + 1 <= Len(r)
        BY <1>0, <1>1, <2>2
      <3> QED BY <1>1, <2>2, <3>1 DEF At
    <2>3. CASE i = k + 1
      <3>1. ny[r[i]] = At(q, k + 1)
        BY <1>1, <2>3 DEF ListOf
      <3>2. k \in k..Len(q)
        BY <1>0
      <3> QED BY <1>4, <2>3, <3>1, <3>2
    <2>4. CASE i > k + 1
      <3>1. i - 1 \in (k + 1)..Len(q) /\ i - 1 + 1 = i /\ i - 1 # k /\ i - 1 \in 1..Len(q) /\ i - 1 \in k..Len(q)
        BY <1>0, <1>1, <2>4
      <3>2. r[i] = q[i - 1]
        BY <1>1, <3>1
      <3>3. ny[r[i]] = At(q, i)
        BY <3>1, <3>2 DEF ListOf
      <3>4. At(q, i - 1 + 1) = At(r, i - 1 + 1 + 1)
        BY <1>4, <3>1
      <3> QED BY <3>1, <3>3, <3>4
    <2> QED BY <1>0, <1>1, <2>1, <2>2, <2>3, <2>4
  <1> QED
    BY <1>2, <1>3, <1>5 DEF ListOf, r

-----------------------------------------------------------------------------
(* The callbacks.  The objects from the cursor of the walk, or from the     *)
(* head of m_cbList when there is none, are a list, and so are those of the *)
(* pool; they stay apart, whatever a called function does to the old head   *)
(* of m_cbList, which may be in the pool.  While no function has asked for  *)
(* a callback that the walk loses, the list is sorted and holds all that    *)
(* has not been invoked.                                                    *)

Times == {Immediate} \cup Nat

HeapKinds ==
  /\ due \in Seq(Times) /\ Len(due) <= MaxCalls /\ created \in 0..Len(due)
  /\ next \in [Cells -> (1..created) \cup {Null}]
  /\ fn \in [Cells -> 0..Len(due)] /\ time \in [Cells -> Times]
  /\ \A c \in 1..created : fn[c] \in 1..Len(due) /\ due[fn[c]] = time[c]
  /\ s_pool \in (1..created) \cup {Null} /\ m_cbList \in (1..created) \cup {Null}
  /\ cb \in (1..created) \cup {Null}
  /\ pc \in {"idle", "loop", "function", "hung"}
  /\ invoked \in Seq(Nat) /\ \A i \in 1..Len(invoked) : invoked[i] \in 1..Len(due)
  /\ now \in Nat
  /\ pc = "function" => cb # Null /\ time[cb] < now

Cursor == IF pc = "idle" THEN m_cbList ELSE cb
\* The first object of the list has been invoked when its function runs.
First == IF pc \in {"function", "hung"} THEN 2 ELSE 1

SortedBy(tm, q) == \A i, j \in 1..Len(q) : i < j => tm[q[i]] <= tm[q[j]]
Called(inv, r) == \E i \in 1..Len(inv) : inv[i] = r

\* L is the list from h and P the pool from s, of objects up to cr.
Lists(nx, cr, L, P, h, s) ==
  /\ ListOf(nx, L, h) /\ ListOf(nx, P, s) /\ Apart(L, P)
  /\ \A i \in 1..Len(L) : L[i] \in 1..cr
  /\ \A i \in 1..Len(P) : P[i] \in 1..cr

\* The list holds requests among the first n, each once; those from its place k on
\* have not been invoked, and unless some were lost they are all of these.
Contents(f, tm, n, inv, L, k, lost) ==
  /\ \A i, j \in 1..Len(L) : f[L[i]] = f[L[j]] => i = j
  /\ \A i \in k..Len(L) : ~Called(inv, f[L[i]])
  /\ ~lost => /\ SortedBy(tm, L)
              /\ \A r \in 1..n : Called(inv, r) \/ \E i \in k..Len(L) : f[L[i]] = r

Shape(L, P) ==
  /\ Lists(next, created, L, P, Cursor, s_pool)
  /\ Contents(fn, time, Len(due), invoked, L, First, stale)
  /\ pc = "hung" => stale

CallbackInv == HeapKinds /\ \E L, P \in Seq(Cells) : Shape(L, P)

\* The search finds a place behind the objects that are earlier.
LEMMA PlaceFound ==
  ASSUME NEW nx, NEW tm \in [Cells -> Times], NEW q \in Seq(Cells), NEW h, ListOf(nx, q, h), h # Null,
         NEW t \in Times, tm[h] <= t
  PROVE  /\ \E n \in 0..MaxCalls : InsertsAfter(nx, tm, h, t, n)
         /\ \A n \in 0..MaxCalls : InsertsAfter(nx, tm, h, t, n) =>
              /\ n + 1 \in 1..Len(q) /\ Reached(nx, h, n) = q[n + 1] /\ Reached(nx, h, n + 1) = nx[q[n + 1]]
              /\ \A i \in 1..(n + 1) : tm[q[i]] <= t
              /\ n + 2 <= Len(q) => t <= tm[q[n + 2]]
  <1>1. /\ Len(q) \in Nat /\ Len(q) <= MaxCalls /\ MaxCalls \in Nat /\ 1 \in 1..Len(q) /\ h = q[1]
        /\ \A i \in 1..Len(q) : q[i] \in Cells /\ q[i] # Null /\ tm[q[i]] \in Int
    <2>1. Len(q) <= MaxCalls
      BY ListIsShort DEF ListOf
    <2>2. Len(q) \in Nat /\ 1 \in 1..Len(q) /\ h = q[1] /\ MaxCalls \in Nat
      BY ListHead, LenProperties, BoundsAssumption
    <2>3. ASSUME NEW i \in 1..Len(q) PROVE q[i] \in Cells /\ q[i] # Null /\ tm[q[i]] \in Int
      <3>1. q[i] \in Cells
        BY ElementOfSeq
      <3> QED BY <3>1 DEF Cells, Null, Times, Immediate
    <2> QED BY <2>1, <2>2, <2>3
  <1>2. t \in Int
    BY DEF Times, Immediate
  <1>3. \A n \in Nat : Reached(nx, h, n) = At(q, n + 1)
    BY ReachedInList
  <1>4. \E n \in 0..MaxCalls : InsertsAfter(nx, tm, h, t, n)
    <2> DEFINE S == {n \in Nat : n + 1 <= Len(q) /\ (n + 2 <= Len(q) => t <= tm[q[n + 2]])}
    <2>1. Len(q) - 1 \in S
      BY <1>1
    <2>2. PICK m \in S : \A n \in S : m <= n
      <3>1. S \subseteq Nat /\ S # {}
        BY <2>1
      <3> HIDE DEF S
      <3> QED BY <3>1, Smallest
    <2>3. m \in 0..MaxCalls /\ m + 1 \in 1..Len(q) /\ m \in Nat
      BY <1>1
    <2>4. Reached(nx, h, m) # Null
      BY <1>1, <1>3, <2>3 DEF At
    <2>5. Reached(nx, h, m + 1) = Null \/ t <= tm[Reached(nx, h, m + 1)]
      <3>1. Reached(nx, h, m + 1) = At(q, m + 2)
        <4>1. m + 1 \in Nat /\ m + 1 + 1 = m + 2
          BY <2>3
        <4> QED BY <1>3, <4>1
      <3>2. CASE m + 2 <= Len(q)
        BY <3>1, <3>2 DEF At
      <3>3. CASE ~(m + 2 <= Len(q))
        BY <3>1, <3>3 DEF At
      <3> QED BY <3>2, <3>3
    <2>6. ASSUME NEW k \in 1..m PROVE t > tm[Reached(nx, h, k)]
      <3>1. k \in Nat /\ k - 1 \in Nat /\ k + 1 <= Len(q) /\ k + 1 \in 1..Len(q) /\ k - 1 + 2 = k + 1
        BY <1>1, <2>3
      <3>2. Reached(nx, h, k) = q[k + 1]
        BY <1>3, <3>1 DEF At
      <3>3. k - 1 \notin S
        <4>1. ~(m <= k - 1)
          BY <2>3, <3>1
        <4> HIDE DEF S
        <4> QED BY <2>2, <4>1
      <3>4. ~(t <= tm[q[k + 1]])
        BY <1>1, <3>1, <3>3
      <3> QED BY <1>1, <1>2, <3>1, <3>2, <3>4
    <2> QED BY <2>3, <2>4, <2>5, <2>6 DEF InsertsAfter
  <1>5. ASSUME NEW n \in 0..MaxCalls, InsertsAfter(nx, tm, h, t, n)
        PROVE  /\ n + 1 \in 1..Len(q) /\ Reached(nx, h, n) = q[n + 1] /\ Reached(nx, h, n + 1) = nx[q[n + 1]]
               /\ \A i \in 1..(n + 1) : tm[q[i]] <= t
               /\ n + 2 <= Len(q) => t <= tm[q[n + 2]]
    <2>0. n \in Nat /\ n + 1 \in Nat /\ n + 1 + 1 = n + 2
      BY <1>1
    <2>1. Reached(nx, h, n) = At(q, n + 1) /\ Reached(nx, h, n) # Null
      BY <1>3, <1>5, <2>0 DEF InsertsAfter
    <2>2. n + 1 \in 1..Len(q) /\ Reached(nx, h, n) = q[n + 1]
      BY <1>1, <2>0, <2>1 DEF At
    <2>3. Reached(nx, h, n + 1) = nx[q[n + 1]]
      <3>1. Reached(nx, h, n + 1) = After(nx, Reached(nx, h, n))
        BY <2>0, ReachedSteps
      <3> QED BY <2>1, <2>2, <3>1 DEF After
    <2>4. ASSUME NEW i \in 1..(n + 1) PROVE tm[q[i]] <= t
      <3>1. CASE i = 1
        BY <1>1, <3>1
      <3>2. CASE i # 1
        <4>1. i - 1 \in 1..n /\ i - 1 \in Nat /\ i - 1 + 1 = i /\ i \in 1..Len(q)
          BY <2>0, <2>2, <3>2
        <4>2. t > tm[Reached(nx, h, i - 1)]
          BY <1>5, <4>1 DEF InsertsAfter
        <4>3. Reached(nx, h, i - 1) = q[i]
          <5>1. Reached(nx, h, i - 1) = At(q, i - 1 + 1)
            BY <1>3, <4>1
          <5> QED BY <4>1, <5>1 DEF At
        <4> QED BY <1>1, <1>2, <4>1, <4>2, <4>3
      <3> QED BY <3>1, <3>2
    <2>5. ASSUME n + 2 <= Len(q) PROVE t <= tm[q[n + 2]]
      <3>1. n + 2 \in 1..Len(q) /\ Reached(nx, h, n + 1) = q[n + 2]
        <4>1. n + 2 \in 1..Len(q)
          BY <1>1, <2>0, <2>5
        <4>2. Reached(nx, h, n + 1) = At(q, n + 2)
          BY <1>3, <2>0
        <4>3. At(q, n + 2) = q[n + 2]
          BY <2>5 DEF At
        <4> QED BY <4>1, <4>2, <4>3
      <3> QED BY <1>1, <1>5, <3>1 DEF InsertsAfter
    <2> QED BY <2>2, <2>3, <2>4, <2>5
  <1> QED
    BY <1>4, <1>5


\* The pool without the object that create() returns.
Rest(s, P) == IF s # Null THEN Tail(P) ELSE P
Popped(nx, s) == IF s # Null THEN nx[s] ELSE Null
Made(cr, s) == IF s # Null THEN s ELSE cr + 1
Count(cr, s) == IF s # Null THEN cr ELSE cr + 1

\* The object that create() returns is in no list.
LEMMA MadeIsFree ==
  ASSUME NEW L \in Seq(Cells), NEW P \in Seq(Cells), NEW nx, NEW cr \in Nat, cr < MaxCalls,
         NEW h, NEW s, Lists(nx, cr, L, P, h, s)
  PROVE  /\ Made(cr, s) \in Cells /\ Made(cr, s) \in 1..Count(cr, s) /\ Count(cr, s) \in cr..(cr + 1)
         /\ ~IsIn(Made(cr, s), L) /\ ~IsIn(Made(cr, s), Rest(s, P))
         /\ Rest(s, P) \in Seq(Cells)
         /\ Lists(nx, Count(cr, s), L, Rest(s, P), h, Popped(nx, s))
  <1>0. /\ Len(L) \in Nat /\ Len(P) \in Nat /\ MaxCalls \in Nat
        /\ ListOf(nx, L, h) /\ ListOf(nx, P, s) /\ Apart(L, P)
        /\ \A i \in 1..Len(L) : L[i] \in 1..cr
        /\ \A i \in 1..Len(P) : P[i] \in 1..cr
    BY LenProperties, BoundsAssumption DEF Lists
  <1>1. CASE s # Null
    <2>1. /\ Tail(P) \in Seq(Cells) /\ Len(Tail(P)) = Len(P) - 1
          /\ \A i \in 1..Len(Tail(P)) : i + 1 \in 1..Len(P) /\ Tail(P)[i] = P[i + 1]
          /\ ListOf(nx, Tail(P), nx[s]) /\ ~IsIn(s, Tail(P))
      BY <1>0, <1>1, ListPop
    <2>2. 1 \in 1..Len(P) /\ s = P[1] /\ s \in Cells
      BY <1>0, <1>1, ListHead
    <2>3. ~IsIn(s, L) /\ Apart(L, Tail(P))
      BY <1>0, <2>1, <2>2 DEF Apart, IsIn
    <2>4. s \in 1..cr /\ \A i \in 1..Len(Tail(P)) : Tail(P)[i] \in 1..cr
      BY <1>0, <2>1, <2>2
    <2>5. cr \in cr..(cr + 1)
      OBVIOUS
    <2> QED
      BY <1>0, <1>1, <2>1, <2>2, <2>3, <2>4, <2>5 DEF Made, Count, Rest, Popped, Lists
  <1>2. CASE s = Null
    <2>1. cr + 1 \in Cells /\ cr + 1 \in 1..(cr + 1) /\ cr + 1 \in cr..(cr + 1) /\ cr + 1 \notin 1..cr
      BY <1>0 DEF Cells
    <2>2. Len(P) = 0
      BY <1>0, <1>2, ListHead
    <2>3. ~IsIn(cr + 1, L) /\ ~IsIn(cr + 1, P)
      BY <1>0, <2>1 DEF IsIn
    <2>4. /\ \A i \in 1..Len(L) : L[i] \in 1..(cr + 1)
          /\ \A i \in 1..Len(P) : P[i] \in 1..(cr + 1)
      BY <1>0
    <2> QED
      BY <1>0, <1>2, <2>1, <2>3, <2>4 DEF Made, Count, Rest, Popped, Lists
  <1> QED
    BY <1>1, <1>2

\* Links outside the lists do not matter to them.
LEMMA ListsStay ==
  ASSUME NEW L \in Seq(Cells), NEW P \in Seq(Cells), NEW nx, NEW ny, NEW cr, NEW h, NEW s,
         Lists(nx, cr, L, P, h, s),
         \A x \in Cells : IsIn(x, L) \/ IsIn(x, P) => ny[x] = nx[x]
  PROVE  Lists(ny, cr, L, P, h, s)
  <1>1. /\ \A i \in 1..Len(L) : ny[L[i]] = nx[L[i]]
        /\ \A i \in 1..Len(P) : ny[P[i]] = nx[P[i]]
    BY ElementOfSeq DEF IsIn
  <1> QED
    BY <1>1, ListStays DEF Lists

\* An object that is in no list joins the list, at its head or behind the k-th.
LEMMA ListsPush ==
  ASSUME NEW L \in Seq(Cells), NEW P \in Seq(Cells), NEW nx, NEW ny, NEW cr \in Nat, NEW h, NEW s,
         Lists(nx, cr, L, P, h, s), NEW c \in Cells, c \in 1..cr, ~IsIn(c, L), ~IsIn(c, P),
         ny[c] = h, \A x \in Cells : x # c => ny[x] = nx[x]
  PROVE  Inserted(L, 0, c) \in Seq(Cells) /\ Lists(ny, cr, Inserted(L, 0, c), P, c, s)
  <1>0. Len(L) \in Nat /\ 0 \in 0..Len(L)
    BY LenProperties
  <1>1. ListOf(ny, Inserted(L, 0, c), c)
    BY ElementOfSeq, ListPush DEF Lists, IsIn
  <1>2. ListOf(ny, P, s)
    BY ElementOfSeq, ListStays DEF Lists, IsIn
  <1>3. \A x : IsIn(x, Inserted(L, 0, c)) <=> (x = c \/ IsIn(x, L))
    BY <1>0, InsertedApart
  <1>4. Inserted(L, 0, c) \in Seq(Cells)
    BY <1>0, InsertedIs
  <1> DEFINE r == Inserted(L, 0, c)
  <1> HIDE DEF r
  <1>5. Apart(r, P) /\ \A i \in 1..Len(r) : r[i] \in 1..cr
    BY <1>3 DEF r, IsIn, Apart, Lists
  <1> QED
    BY <1>1, <1>2, <1>4, <1>5 DEF Lists, r

LEMMA ListsInsert ==
  ASSUME NEW L \in Seq(Cells), NEW P \in Seq(Cells), NEW nx, NEW ny, NEW cr \in Nat, NEW h, NEW s,
         Lists(nx, cr, L, P, h, s), NEW c \in Cells, c \in 1..cr, ~IsIn(c, L), ~IsIn(c, P),
         NEW k \in 1..Len(L), ny[c] = nx[L[k]], ny[L[k]] = c, \A x \in Cells : x # c /\ x # L[k] => ny[x] = nx[x]
  PROVE  Inserted(L, k, c) \in Seq(Cells) /\ Lists(ny, cr, Inserted(L, k, c), P, h, s)
  <1>0. Len(L) \in Nat /\ k \in 0..Len(L)
    BY LenProperties
  <1>1. ListOf(ny, Inserted(L, k, c), h)
    <2>1. /\ ListOf(nx, L, h)
          /\ \A i \in 1..Len(L) : i # k => ny[L[i]] = nx[L[i]]
      BY ElementOfSeq DEF Lists, IsIn, ListOf
    <2> QED BY <2>1, ListInsert
  <1>2. ListOf(ny, P, s)
    BY ElementOfSeq, ListStays DEF Lists, IsIn, Apart
  <1>3. \A x : IsIn(x, Inserted(L, k, c)) <=> (x = c \/ IsIn(x, L))
    BY <1>0, InsertedApart
  <1>4. Inserted(L, k, c) \in Seq(Cells)
    BY <1>0, InsertedIs
  <1> DEFINE r == Inserted(L, k, c)
  <1> HIDE DEF r
  <1>5. Apart(r, P) /\ \A i \in 1..Len(r) : r[i] \in 1..cr
    BY ZenonT(60), <1>3 DEF r, IsIn, Apart, Lists
  <1> QED
    BY <1>1, <1>2, <1>4, <1>5 DEF Lists, r

\* The two lists are alike.
LEMMA ListsSwap ==
  ASSUME NEW L, NEW P, NEW nx, NEW cr, NEW h, NEW s, Lists(nx, cr, L, P, h, s)
  PROVE  Lists(nx, cr, P, L, s, h)
  BY DEF Lists, Apart

\* The field f of the object c becomes v.
Updated(g, f, c, v) == g[c] = v /\ \A x \in Cells : x # c => g[x] = f[x]
\* The time t belongs behind the k-th object.
Fits(tm, L, k, t) ==
  /\ \A i \in 1..k : tm[L[i]] <= t
  /\ \A i \in (k + 1)..Len(L) : t <= tm[L[i]]
Invoked(inv, n) == \A i \in 1..Len(inv) : inv[i] \in 1..n

\* The places of a list after an object has been inserted behind the k-th.
LEMMA InsertedPlaces ==
  ASSUME NEW L \in Seq(Cells), NEW k \in 0..Len(L), NEW c \in Cells, NEW r, r = Inserted(L, k, c)
  PROVE  /\ Len(r) = Len(L) + 1 /\ k + 1 \in 1..Len(r) /\ r[k + 1] = c
         /\ \A i \in 1..Len(r) : i # k + 1 =>
              \E l \in 1..Len(L) : /\ r[i] = L[l]
                                   /\ (i <= k /\ l = i) \/ (i > k + 1 /\ l = i - 1)
         /\ \A l \in 1..Len(L) :
              \E i \in 1..Len(r) : /\ r[i] = L[l]
                                   /\ (l <= k /\ i = l) \/ (l > k /\ i = l + 1)
  <1>1. /\ r \in Seq(Cells) /\ Len(r) = Len(L) + 1 /\ r[k + 1] = c /\ Len(L) \in Nat
        /\ \A i \in 1..k : r[i] = L[i]
        /\ \A i \in (k + 1)..Len(L) : r[i + 1] = L[i]
    BY InsertedIs, LenProperties
  <1>2. ASSUME NEW i \in 1..Len(r), i # k + 1
        PROVE  \E l \in 1..Len(L) : /\ r[i] = L[l]
                                    /\ (i <= k /\ l = i) \/ (i > k + 1 /\ l = i - 1)
    <2>1. CASE i <= k
      <3>1. i \in 1..k /\ i \in 1..Len(L)
        BY <1>1, <2>1
      <3> QED BY <1>1, <2>1, <3>1
    <2>2. CASE ~(i <= k)
      <3>1. i - 1 \in (k + 1)..Len(L) /\ i - 1 \in 1..Len(L) /\ i - 1 + 1 = i /\ i > k + 1
        BY <1>1, <1>2, <2>2
      <3>2. r[i] = L[i - 1]
        BY <1>1, <3>1
      <3> QED BY <3>1, <3>2
    <2> QED BY <2>1, <2>2
  <1>3. ASSUME NEW l \in 1..Len(L)
        PROVE  \E i \in 1..Len(r) : /\ r[i] = L[l]
                                    /\ (l <= k /\ i = l) \/ (l > k /\ i = l + 1)
    <2>1. CASE l <= k
      <3>1. l \in 1..k /\ l \in 1..Len(r)
        BY <1>1, <2>1
      <3>2. r[l] = L[l]
        BY <1>1, <3>1
      <3> QED BY <2>1, <3>1, <3>2
    <2>2. CASE ~(l <= k)
      <3>1. l \in (k + 1)..Len(L) /\ l + 1 \in 1..Len(r) /\ l > k
        BY <1>1, <2>2
      <3>2. r[l + 1] = L[l]
        BY <1>1, <3>1
      <3> QED BY <3>1, <3>2
    <2> QED BY <2>1, <2>2
  <1>4. k + 1 \in 1..Len(r)
    BY <1>1
  <1>5. \A i \in 1..Len(r) : i # k + 1 =>
          \E l \in 1..Len(L) : /\ r[i] = L[l]
                               /\ (i <= k /\ l = i) \/ (i > k + 1 /\ l = i - 1)
    BY <1>2
  <1>6. \A l \in 1..Len(L) :
          \E i \in 1..Len(r) : /\ r[i] = L[l]
                               /\ (l <= k /\ i = l) \/ (l > k /\ i = l + 1)
    BY <1>3
  <1>7. Len(r) = Len(L) + 1 /\ r[k + 1] = c
    BY <1>1
  <1> QED
    BY <1>4, <1>5, <1>6, <1>7

\* A new request: with its object in the list, in its order, or with the object lost.
LEMMA ContentsAdded ==
  ASSUME NEW L \in Seq(Cells), NEW n \in Nat, NEW f \in [Cells -> 0..n], NEW tm \in [Cells -> Times],
         NEW inv, Invoked(inv, n),
         NEW first \in {1, 2}, NEW lost, Contents(f, tm, n, inv, L, first, lost),
         NEW c \in Cells, ~IsIn(c, L), NEW t \in Times, NEW k \in (first - 1)..Len(L),
         NEW g, Updated(g, f, c, n + 1), NEW tn, Updated(tn, tm, c, t)
  PROVE  /\ Contents(g, tn, n + 1, inv, Inserted(L, k, c), first, TRUE)
         /\ ~lost /\ Fits(tm, L, k, t) => Contents(g, tn, n + 1, inv, Inserted(L, k, c), first, FALSE)
  <1> DEFINE r == Inserted(L, k, c)
  <1>0. Len(L) \in Nat /\ k \in 0..Len(L) /\ \A i \in 1..Len(L) : L[i] \in Cells /\ L[i] # c
    BY LenProperties, ElementOfSeq DEF IsIn
  <1>1. /\ Len(r) = Len(L) + 1 /\ k + 1 \in 1..Len(r) /\ r[k + 1] = c
        /\ \A i \in 1..Len(r) : i # k + 1 =>
             \E l \in 1..Len(L) : /\ r[i] = L[l]
                                  /\ (i <= k /\ l = i) \/ (i > k + 1 /\ l = i - 1)
        /\ \A l \in 1..Len(L) :
             \E i \in 1..Len(r) : /\ r[i] = L[l]
                                  /\ (l <= k /\ i = l) \/ (l > k /\ i = l + 1)
    BY <1>0, InsertedPlaces
  <1> HIDE DEF r
  <1>2. ASSUME NEW i \in 1..Len(L) PROVE g[L[i]] = f[L[i]] /\ tn[L[i]] = tm[L[i]] /\ f[L[i]] \in 0..n
    BY <1>0 DEF Updated
  <1>3. g[c] = n + 1 /\ tn[c] = t
    BY DEF Updated
  <1>5. ASSUME NEW i \in 1..Len(r), NEW j \in 1..Len(r), g[r[i]] = g[r[j]] PROVE i = j
    <2>0. ASSUME NEW l \in 1..Len(r), l # k + 1 PROVE g[r[l]] # n + 1
      <3>1. PICK e \in 1..Len(L) : r[l] = L[e]
        BY <1>1, <2>0
      <3>2. g[r[l]] \in 0..n
        BY <1>2, <3>1
      <3>3. n + 1 \notin 0..n
        OBVIOUS
      <3> QED BY <3>2, <3>3
    <2>1. CASE i = k + 1 \/ j = k + 1
      <3>1. g[r[k + 1]] = n + 1
        BY <1>1, <1>3
      <3> QED BY <1>5, <2>0, <2>1, <3>1
    <2>2. CASE i # k + 1 /\ j # k + 1
      <3>1. PICK d \in 1..Len(L) : r[i] = L[d] /\ ((i <= k /\ d = i) \/ (i > k + 1 /\ d = i - 1))
        BY <1>1, <2>2
      <3>2. PICK e \in 1..Len(L) : r[j] = L[e] /\ ((j <= k /\ e = j) \/ (j > k + 1 /\ e = j - 1))
        BY <1>1, <2>2
      <3>3. f[L[d]] = f[L[e]]
        BY <1>2, <1>5, <3>1, <3>2
      <3>4. d = e
        BY <3>3 DEF Contents
      <3> QED BY SMTT(30), <1>0, <3>1, <3>2, <3>4
    <2> QED BY <2>1, <2>2
  <1>6. ASSUME NEW i \in first..Len(r) PROVE ~Called(inv, g[r[i]])
    <2>0. i \in 1..Len(r)
      BY <1>0, <1>1
    <2>1. CASE i = k + 1
      <3>1. n + 1 \notin 1..n /\ g[r[i]] = n + 1
        BY <1>1, <1>3, <2>1
      <3> QED BY <3>1 DEF Called, Invoked
    <2>2. CASE i # k + 1
      <3>1. PICK l \in 1..Len(L) : r[i] = L[l] /\ ((i <= k /\ l = i) \/ (i > k + 1 /\ l = i - 1))
        BY <1>1, <2>0, <2>2
      <3>2. l \in first..Len(L)
        BY <1>0, <3>1
      <3>3. g[r[i]] = f[L[l]]
        BY <1>2, <3>1
      <3> QED BY <3>2, <3>3 DEF Contents
    <2> QED BY <2>1, <2>2
  <1>7. ASSUME ~lost, Fits(tm, L, k, t) PROVE SortedBy(tn, r)
    <2>1. SortedBy(tm, L) /\ Fits(tm, L, k, t)
      BY <1>7 DEF Contents
    <2>2. ASSUME NEW i \in 1..Len(r), NEW j \in 1..Len(r), i < j PROVE tn[r[i]] <= tn[r[j]]
      <3>0. i \in Nat /\ j \in Nat /\ k \in Nat /\ Len(L) \in Nat /\ i < j /\ i >= 1 /\ j <= Len(L) + 1
        BY <1>0, <1>1, <2>2
      <3>1. CASE i = k + 1
        <4>0. j # k + 1 /\ j > k + 1
          BY <3>0, <3>1
        <4>1. PICK l \in 1..Len(L) : r[j] = L[l] /\ ((j <= k /\ l = j) \/ (j > k + 1 /\ l = j - 1))
          BY <1>1, <2>2, <4>0
        <4>2. l \in (k + 1)..Len(L)
          BY SMTT(30), <3>0, <4>0, <4>1
        <4>3. tn[r[j]] = tm[L[l]]
          BY <1>2, <4>1
        <4> QED BY <1>1, <1>3, <2>1, <3>1, <4>2, <4>3 DEF Fits
      <3>2. CASE j = k + 1
        <4>0. i # k + 1 /\ i <= k
          BY <3>0, <3>2
        <4>1. PICK l \in 1..Len(L) : r[i] = L[l] /\ ((i <= k /\ l = i) \/ (i > k + 1 /\ l = i - 1))
          BY <1>1, <2>2, <4>0
        <4>2. l \in 1..k
          BY SMTT(30), <3>0, <4>0, <4>1
        <4>3. tn[r[i]] = tm[L[l]]
          BY <1>2, <4>1
        <4> QED BY <1>1, <1>3, <2>1, <3>2, <4>2, <4>3 DEF Fits
      <3>3. CASE i # k + 1 /\ j # k + 1
        <4>1. PICK d \in 1..Len(L) : r[i] = L[d] /\ ((i <= k /\ d = i) \/ (i > k + 1 /\ d = i - 1))
          BY <1>1, <3>3
        <4>2. PICK e \in 1..Len(L) : r[j] = L[e] /\ ((j <= k /\ e = j) \/ (j > k + 1 /\ e = j - 1))
          BY <1>1, <3>3
        <4>3. d < e
          BY SMTT(30), <3>0, <3>3, <4>1, <4>2
        <4>4. tm[L[d]] <= tm[L[e]]
          BY <2>1, <4>3 DEF SortedBy
        <4> QED BY <1>2, <4>1, <4>2, <4>4
      <3> QED BY <3>1, <3>2, <3>3
    <2> QED BY <2>2 DEF SortedBy
  <1>8. ASSUME ~lost, NEW q \in 1..(n + 1) PROVE Called(inv, q) \/ \E i \in first..Len(r) : g[r[i]] = q
    <2>1. CASE q = n + 1
      <3>1. k + 1 \in first..Len(r)
        BY <1>0, <1>1
      <3>2. g[r[k + 1]] = q
        BY <1>1, <1>3, <2>1
      <3> QED BY <3>1, <3>2
    <2>2. CASE q # n + 1
      <3>1. q \in 1..n
        BY <1>8, <2>2
      <3>2. Called(inv, q) \/ \E l \in first..Len(L) : f[L[l]] = q
        BY <1>8, <3>1 DEF Contents
      <3>3. ASSUME NEW l \in first..Len(L), f[L[l]] = q PROVE \E i \in first..Len(r) : g[r[i]] = q
        <4>1. l \in 1..Len(L)
          BY <1>0, <3>3
        <4>2. PICK i \in 1..Len(r) : r[i] = L[l] /\ ((l <= k /\ i = l) \/ (l > k /\ i = l + 1))
          BY <1>1, <4>1
        <4>3. i \in first..Len(r) /\ g[r[i]] = q
          BY <1>0, <1>2, <3>3, <4>1, <4>2
        <4> QED BY <4>3
      <3> QED BY <3>2, <3>3
    <2> QED BY <2>1, <2>2
  <1> QED
    BY <1>5, <1>6, <1>7, <1>8 DEF Contents, r

LEMMA ContentsInOrder ==
  ASSUME NEW L \in Seq(Cells), NEW n \in Nat, NEW f \in [Cells -> 0..n], NEW tm \in [Cells -> Times],
         NEW inv, Invoked(inv, n),
         NEW first \in {1, 2}, Contents(f, tm, n, inv, L, first, FALSE),
         NEW c \in Cells, ~IsIn(c, L), NEW t \in Times, NEW k \in (first - 1)..Len(L), Fits(tm, L, k, t),
         NEW g, Updated(g, f, c, n + 1), NEW tn, Updated(tn, tm, c, t)
  PROVE  Contents(g, tn, n + 1, inv, Inserted(L, k, c), first, FALSE)
  BY ContentsAdded

LEMMA ContentsLost ==
  ASSUME NEW L \in Seq(Cells), NEW n \in Nat, NEW f \in [Cells -> 0..n], NEW tm, NEW tn, NEW inv,
         NEW first, NEW lost, Contents(f, tm, n, inv, L, first, lost), first \in {1, 2},
         NEW c \in Cells, ~IsIn(c, L), NEW g, Updated(g, f, c, n + 1)
  PROVE  Contents(g, tn, n + 1, inv, L, first, TRUE)
  <1>1. Len(L) \in Nat /\ \A i \in 1..Len(L) : L[i] \in Cells /\ L[i] # c
    BY LenProperties, ElementOfSeq DEF IsIn
  <1>2. \A i \in 1..Len(L) : g[L[i]] = f[L[i]]
    BY <1>1 DEF Updated
  <1>3. \A i \in first..Len(L) : i \in 1..Len(L)
    BY <1>1
  <1> QED
    BY <1>2, <1>3 DEF Contents

\* Where addCallback links the object c, whose m_next is null in nx: before the head
\* m of m_cbList, behind the object reached from m after n steps, or nowhere.
Front(nx, ny, m, c) == ny = [nx EXCEPT ![c] = m]
Behind(nx, ny, m, c, n) ==
  ny = [nx EXCEPT ![c] = Reached(nx, m, n + 1), ![Reached(nx, m, n)] = c]

Links(nx, ny, m, c) ==
  \/ ny = nx \/ Front(nx, ny, m, c)
  \/ \E n \in Nat : Reached(nx, m, n) # Null /\ Behind(nx, ny, m, c, n)

\* Wherever it is linked, the list and the pool stay lists, one of them with it at
\* most, behind another object.
LEMMA LinkedAnywhere ==
  ASSUME NEW L \in Seq(Cells), NEW P \in Seq(Cells), NEW cr \in Nat, cr <= MaxCalls,
         NEW nx \in [Cells -> (1..cr) \cup {Null}], NEW ny, NEW h, NEW s, Lists(nx, cr, L, P, h, s),
         NEW c \in 1..cr, ~IsIn(c, L), ~IsIn(c, P), NEW m \in (1..cr) \cup {Null},
         Links(nx, ny, m, c)
  PROVE  /\ ny \in [Cells -> (1..cr) \cup {Null}]
         /\ \E M, R \in Seq(Cells) : /\ Lists(ny, cr, M, R, h, s)
                                     /\ M = L \/ \E k \in 1..Len(L) : M = Inserted(L, k, c)
  <1> DEFINE Kept ==
               /\ ny \in [Cells -> (1..cr) \cup {Null}]
               /\ \E M, R \in Seq(Cells) : /\ Lists(ny, cr, M, R, h, s)
                                           /\ M = L \/ \E k \in 1..Len(L) : M = Inserted(L, k, c)
  <1>0. 1..cr \subseteq Cells /\ c \in Cells
    BY BoundsAssumption DEF Cells
  <1>1. ASSUME ny = nx PROVE Kept
    BY <1>1
  <1>2. ASSUME Front(nx, ny, m, c) PROVE Kept
    <2>1. ny \in [Cells -> (1..cr) \cup {Null}] /\ \A x \in Cells : x # c => ny[x] = nx[x]
      BY <1>2 DEF Front
    <2>2. Lists(ny, cr, L, P, h, s)
      BY <2>1, ListsStay
    <2> QED BY <2>1, <2>2
  <1>3. ASSUME NEW n \in Nat, Reached(nx, m, n) # Null, Behind(nx, ny, m, c, n)
        PROVE  Kept
    <2> DEFINE p == Reached(nx, m, n)
               q == Reached(nx, m, n + 1)
    <2>1. p \in 1..cr /\ q \in (1..cr) \cup {Null}
      <3>1. \A l \in Nat : Reached(nx, m, l) \in (1..cr) \cup {Null}
        BY <1>0, ReachedKind
      <3> QED BY <1>3, <3>1
    <2>2. q = nx[p]
      <3>1. Reached(nx, m, n + 1) = After(nx, Reached(nx, m, n))
        BY ZenonT(60), <1>3, ReachedSteps
      <3>2. q = After(nx, p)
        BY <3>1
      <3> QED BY <1>3, <3>2 DEF After
    <2>3. ny = [nx EXCEPT ![c] = q, ![p] = c]
      BY <1>3 DEF Behind
    <2> HIDE DEF p, q
    <2>4. /\ ny \in [Cells -> (1..cr) \cup {Null}] /\ ny[p] = c
          /\ \A x \in Cells : x # c /\ x # p => ny[x] = nx[x]
          /\ p # c => ny[c] = q
      BY <1>0, <2>1, <2>3
    <2>5. CASE IsIn(p, L)
      <3>1. PICK k \in 1..Len(L) : L[k] = p
        BY <2>5 DEF IsIn
      <3>2. p # c
        BY <2>5
      <3>3. Inserted(L, k, c) \in Seq(Cells) /\ Lists(ny, cr, Inserted(L, k, c), P, h, s)
        BY <1>0, <2>2, <2>4, <3>1, <3>2, ListsInsert
      <3> QED BY <2>4, <3>3
    <2>6. CASE IsIn(p, P)
      <3>1. PICK k \in 1..Len(P) : P[k] = p
        BY <2>6 DEF IsIn
      <3>2. p # c
        BY <2>6
      <3>3. Lists(nx, cr, P, L, s, h)
        BY ListsSwap
      <3>4. Inserted(P, k, c) \in Seq(Cells) /\ Lists(ny, cr, Inserted(P, k, c), L, s, h)
        <4>1. /\ ny[c] = nx[P[k]] /\ ny[P[k]] = c
              /\ \A x \in Cells : x # c /\ x # P[k] => ny[x] = nx[x]
          BY <2>2, <2>4, <3>1, <3>2
        <4> QED BY <1>0, <3>3, <4>1, ListsInsert
      <3>5. Lists(ny, cr, L, Inserted(P, k, c), h, s)
        BY <3>4, ListsSwap
      <3> QED BY <2>4, <3>4, <3>5
    <2>7. CASE ~IsIn(p, L) /\ ~IsIn(p, P)
      <3>1. \A x \in Cells : IsIn(x, L) \/ IsIn(x, P) => ny[x] = nx[x]
        BY <2>4, <2>7
      <3>2. Lists(ny, cr, L, P, h, s)
        BY <3>1, ListsStay
      <3> QED BY <2>4, <3>2
    <2> QED BY <2>5, <2>6, <2>7
  <1> HIDE DEF Kept
  <1>4. Kept
    BY <1>1, <1>2, <1>3 DEF Links
  <1> QED
    BY <1>4 DEF Kept


\* The search from the head of the list ends behind all that is earlier.
LEMMA LinkedInOrder ==
  ASSUME NEW L \in Seq(Cells), NEW P \in Seq(Cells), NEW cr \in Nat, cr <= MaxCalls,
         NEW nx \in [Cells -> (1..cr) \cup {Null}], NEW m, NEW s, Lists(nx, cr, L, P, m, s), m # Null,
         NEW c \in 1..cr, ~IsIn(c, L), ~IsIn(c, P),
         NEW tm \in [Cells -> Times], NEW t \in Times, tm[m] <= t,
         NEW n \in 0..MaxCalls, InsertsAfter(nx, tm, m, t, n), NEW ny, Behind(nx, ny, m, c, n)
  PROVE  \E k \in 1..Len(L) :
           /\ Inserted(L, k, c) \in Seq(Cells) /\ Lists(ny, cr, Inserted(L, k, c), P, m, s)
           /\ \A i \in 1..k : tm[L[i]] <= t
           /\ SortedBy(tm, L) => \A i \in (k + 1)..Len(L) : t <= tm[L[i]]
  <1>0. /\ 1..cr \subseteq Cells /\ c \in Cells /\ ListOf(nx, L, m) /\ n \in Nat /\ Len(L) \in Nat
        /\ \A i \in 1..Len(L) : L[i] \in 1..cr /\ L[i] \in Cells /\ L[i] # c
    BY BoundsAssumption, LenProperties, ElementOfSeq DEF Cells, Lists, IsIn
  <1> DEFINE k == n + 1
  <1>1. /\ k \in 1..Len(L) /\ Reached(nx, m, n) = L[k] /\ Reached(nx, m, n + 1) = nx[L[k]]
        /\ \A i \in 1..k : tm[L[i]] <= t
        /\ n + 2 <= Len(L) => t <= tm[L[n + 2]]
    BY <1>0, PlaceFound
  <1>2. ny = [nx EXCEPT ![c] = nx[L[k]], ![L[k]] = c]
    BY <1>1 DEF Behind
  <1> HIDE DEF k
  <1>3. ny[L[k]] = c /\ ny[c] = nx[L[k]] /\ \A x \in Cells : x # c /\ x # L[k] => ny[x] = nx[x]
    <2>1. L[k] \in Cells /\ L[k] # c
      BY <1>0, <1>1
    <2> QED BY <1>0, <1>2, <2>1
  <1>4. Inserted(L, k, c) \in Seq(Cells) /\ Lists(ny, cr, Inserted(L, k, c), P, m, s)
    BY <1>0, <1>1, <1>3, ListsInsert
  <1>5. ASSUME SortedBy(tm, L), NEW i \in (k + 1)..Len(L) PROVE t <= tm[L[i]]
    <2>1. n + 2 = k + 1 /\ n + 2 \in 1..Len(L) /\ n + 2 <= Len(L) /\ i \in 1..Len(L)
      BY <1>0, <1>1 DEF k
    <2>2. tm[L[n + 2]] <= tm[L[i]]
      <3>1. CASE i = n + 2
        <4>1. tm[L[i]] \in Int
          BY <1>0, <2>1 DEF Times, Immediate
        <4> QED BY <3>1, <4>1
      <3>2. CASE i # n + 2
        BY <1>5, <2>1, <3>2 DEF SortedBy
      <3> QED BY <3>1, <3>2
    <2>3. t \in Int /\ tm[L[n + 2]] \in Int /\ tm[L[i]] \in Int
      BY <1>0, <2>1 DEF Times, Immediate
    <2> QED BY <1>1, <2>1, <2>2, <2>3
  <1> QED
    BY <1>1, <1>4, <1>5

-----------------------------------------------------------------------------
(* The steps.                                                              *)

\* What addCallback does to the variables, with the operators of the lemmas.
LEMMA AddCallbackIs ==
  ASSUME NEW t, NEW l, AddCallback(t, l), HeapKinds
  PROVE  LET c == Made(created, s_pool)
             nx == [next EXCEPT ![c] = Null]
             tm == [time EXCEPT ![c] = t]
             front == t = Immediate \/ m_cbList = Null \/ t < tm[m_cbList]
         IN /\ Len(due) < MaxCalls /\ due' = Append(due, t)
            /\ created' = Count(created, s_pool) /\ s_pool' = Popped(next, s_pool)
            /\ fn' = [fn EXCEPT ![c] = Len(due) + 1] /\ time' = tm
            /\ \/ front /\ Front(nx, next', m_cbList, c) /\ m_cbList' = c /\ pc' = l
               \/ /\ ~front /\ m_cbList' = m_cbList /\ next' = nx /\ pc' = "hung"
                  /\ ~\E n \in 0..MaxCalls : InsertsAfter(nx, tm, m_cbList, t, n)
               \/ /\ ~front /\ m_cbList' = m_cbList /\ pc' = l
                  /\ \E n \in 0..MaxCalls : /\ InsertsAfter(nx, tm, m_cbList, t, n)
                                            /\ Behind(nx, next', m_cbList, c, n)
  <1> DEFINE c == Made(created, s_pool)
             nx == [next EXCEPT ![c] = Null]
             tm == [time EXCEPT ![c] = t]
             front == t = Immediate \/ m_cbList = Null \/ t < tm[m_cbList]
             pos == {n \in 0..MaxCalls : InsertsAfter(nx, tm, m_cbList, t, n)}
  <1>1. Created = c
    BY DEF Created, Made
  <1>2. /\ Len(due) < MaxCalls /\ due' = Append(due, t)
        /\ created' = Count(created, s_pool) /\ s_pool' = Popped(next, s_pool)
        /\ fn' = [fn EXCEPT ![c] = Len(due')] /\ time' = tm
    BY <1>1 DEF AddCallback, Count, Popped
  <1>3. Len(due') = Len(due) + 1
    BY <1>2, AppendProperties DEF HeapKinds
  <1>4. IF front
        THEN next' = [nx EXCEPT ![c] = m_cbList] /\ m_cbList' = c /\ pc' = l
        ELSE /\ m_cbList' = m_cbList
             /\ IF pos = {} THEN next' = nx /\ pc' = "hung"
                ELSE \E n \in pos :
                       /\ next' = [nx EXCEPT ![c] = Reached(nx, m_cbList, n + 1),
                                             ![Reached(nx, m_cbList, n)] = c]
                       /\ pc' = l
    BY <1>1 DEF AddCallback
  <1> HIDE DEF c, nx, tm, front
  <1>5. CASE front
    BY <1>2, <1>3, <1>4, <1>5 DEF Front, c, nx, tm, front
  <1>6. CASE ~front
    <2>1. CASE pos = {}
      <3>1. ~\E n \in 0..MaxCalls : InsertsAfter(nx, tm, m_cbList, t, n)
        BY <2>1
      <3>2. m_cbList' = m_cbList /\ next' = nx /\ pc' = "hung"
        BY <1>4, <1>6, <2>1
      <3> QED BY <1>2, <1>3, <1>6, <3>1, <3>2 DEF c, nx, tm, front
    <2>2. CASE pos # {}
      <3>1. m_cbList' = m_cbList
        BY <1>4, <1>6
      <3>2. PICK n \in pos : /\ next' = [nx EXCEPT ![c] = Reached(nx, m_cbList, n + 1),
                                                   ![Reached(nx, m_cbList, n)] = c]
                             /\ pc' = l
        BY <1>4, <1>6, <2>2
      <3>3. n \in 0..MaxCalls /\ InsertsAfter(nx, tm, m_cbList, t, n)
        OBVIOUS
      <3>4. Behind(nx, next', m_cbList, c, n)
        BY <3>2 DEF Behind
      <3> QED BY <1>2, <1>3, <1>6, <3>1, <3>2, <3>3, <3>4 DEF c, nx, tm, front
    <2> QED BY <2>1, <2>2
  <1> QED
    BY <1>5, <1>6

LEMMA CallbackAdded ==
  ASSUME CallbackInv, NEW t \in Times, NEW l \in {"idle", "function"}, pc = l, AddCallback(t, l),
         cb' = cb, now' = now, invoked' = invoked,
         stale' \/ (~stale /\ (pc = "idle" \/ (cb = m_cbList /\ t # Immediate /\ ~(t < time[cb])))),
         pc = "idle" => (stale' <=> stale)
  PROVE  CallbackInv' /\ (pc = "idle" => pc' = "idle")
  <1> DEFINE c == Made(created, s_pool)
             cr == Count(created, s_pool)
             sp == Popped(next, s_pool)
             nx == [next EXCEPT ![c] = Null]
             tm == [time EXCEPT ![c] = t]
             m == m_cbList
             n1 == Len(due)
             front == t = Immediate \/ m = Null \/ t < tm[m]
  <1>1. PICK L \in Seq(Cells), P0 \in Seq(Cells) : Shape(L, P0)
    BY DEF CallbackInv
  <1>2. HeapKinds
    BY DEF CallbackInv
  <1>3. /\ n1 < MaxCalls /\ due' = Append(due, t) /\ created' = cr /\ s_pool' = sp
        /\ fn' = [fn EXCEPT ![c] = n1 + 1] /\ time' = tm
        /\ \/ front /\ Front(nx, next', m, c) /\ m_cbList' = c /\ pc' = l
           \/ /\ ~front /\ m_cbList' = m /\ next' = nx /\ pc' = "hung"
              /\ ~\E n \in 0..MaxCalls : InsertsAfter(nx, tm, m, t, n)
           \/ /\ ~front /\ m_cbList' = m /\ pc' = l
              /\ \E n \in 0..MaxCalls : InsertsAfter(nx, tm, m, t, n) /\ Behind(nx, next', m, c, n)
    BY <1>2, AddCallbackIs
  <1> DEFINE P == Rest(s_pool, P0)
  <1>4. /\ n1 \in Nat /\ created \in 0..n1 /\ due \in Seq(Times) /\ MaxCalls \in Nat
        /\ Len(due') = n1 + 1 /\ due' \in Seq(Times) /\ due'[n1 + 1] = t
        /\ \A i \in 1..n1 : due'[i] = due[i]
    BY <1>2, <1>3, AppendProperties, LenProperties, BoundsAssumption DEF HeapKinds
  <1>5. /\ c \in Cells /\ c \in 1..cr /\ cr \in created..(created + 1)
        /\ ~IsIn(c, L) /\ ~IsIn(c, P) /\ P \in Seq(Cells) /\ Lists(next, cr, L, P, Cursor, sp)
    <2>1. created \in Nat /\ created < MaxCalls /\ Lists(next, created, L, P0, Cursor, s_pool)
      BY <1>1, <1>3, <1>4 DEF Shape
    <2> QED BY <2>1, MadeIsFree
  <1> HIDE DEF P, c, cr, sp, n1
  <1>6. cr \in Nat /\ cr <= n1 + 1 /\ cr <= MaxCalls /\ created \in Nat /\ 1..created \subseteq 1..cr /\ 1..cr \subseteq Cells
    BY <1>3, <1>4, <1>5 DEF Cells
  <1>7. nx \in [Cells -> (1..cr) \cup {Null}] /\ m \in (1..cr) \cup {Null} /\ tm \in [Cells -> Times]
    <2>1. /\ next \in [Cells -> (1..created) \cup {Null}] /\ m_cbList \in (1..created) \cup {Null}
          /\ time \in [Cells -> Times]
      BY <1>2 DEF HeapKinds
    <2> QED BY <1>5, <1>6, <2>1
  <1>8. /\ nx[c] = Null /\ tm[c] = t
        /\ \A x \in Cells : x # c => nx[x] = next[x] /\ tm[x] = time[x]
    BY <1>2, <1>5 DEF HeapKinds
  <1> HIDE DEF nx, tm
  <1>9. Lists(nx, cr, L, P, Cursor, sp)
    BY <1>5, <1>8, ListsStay
  <1>10. /\ Len(L) \in Nat
         /\ \A i \in 1..Len(L) : L[i] \in Cells /\ L[i] # c /\ tm[L[i]] = time[L[i]] /\ time[L[i]] \in Int
    <2>1. Len(L) \in Nat /\ \A i \in 1..Len(L) : L[i] \in Cells /\ L[i] # c
      BY <1>5, LenProperties, ElementOfSeq DEF IsIn
    <2>2. \A x \in Cells : time[x] \in Int
      BY <1>2 DEF HeapKinds, Times, Immediate
    <2> QED BY <1>8, <2>1, <2>2
  \* The links.
  <1>11. /\ next' \in [Cells -> (1..cr) \cup {Null}]
         /\ \E M, R \in Seq(Cells) : /\ Lists(next', cr, M, R, Cursor, sp)
                                     /\ M = L \/ \E k \in 1..Len(L) : M = Inserted(L, k, c)
    <2>1. Links(nx, next', m, c)
      <3>1. ASSUME NEW n \in 0..MaxCalls, InsertsAfter(nx, tm, m, t, n), Behind(nx, next', m, c, n)
            PROVE  n \in Nat /\ Reached(nx, m, n) # Null
        BY <1>4, <3>1 DEF InsertsAfter
      <3> QED BY <1>3, <3>1 DEF Links
    <2>2. /\ cr \in Nat /\ cr <= MaxCalls /\ nx \in [Cells -> (1..cr) \cup {Null}]
          /\ Lists(nx, cr, L, P, Cursor, sp) /\ P \in Seq(Cells)
          /\ c \in 1..cr /\ ~IsIn(c, L) /\ ~IsIn(c, P) /\ m \in (1..cr) \cup {Null}
      BY <1>5, <1>6, <1>7, <1>9
    <2> QED BY <2>1, <2>2, LinkedAnywhere
  \* The fields of the objects.
  <1>12. /\ created' \in 0..Len(due') /\ fn' \in [Cells -> 0..Len(due')] /\ time' \in [Cells -> Times]
         /\ \A x \in 1..created' : fn'[x] \in 1..Len(due') /\ due'[fn'[x]] = time'[x]
    <2>1. fn \in [Cells -> 0..n1] /\ \A x \in 1..created : fn[x] \in 1..n1 /\ due[fn[x]] = time[x]
      BY <1>2 DEF HeapKinds, n1
    <2>2. fn' \in [Cells -> 0..(n1 + 1)]
      BY <1>3, <1>4, <1>5, <2>1
    <2>3. ASSUME NEW x \in 1..cr PROVE fn'[x] \in 1..(n1 + 1) /\ due'[fn'[x]] = time'[x]
      <3>1. CASE x = c
        <4>1. fn'[x] = n1 + 1 /\ time'[x] = t
          BY <1>3, <1>5, <1>8, <2>1, <3>1
        <4> QED BY <1>4, <4>1
      <3>2. CASE x # c
        <4>1. x \in 1..created
          BY <1>5, <1>6, <3>2 DEF c, cr, Made, Count
        <4>2. fn'[x] = fn[x] /\ time'[x] = time[x] /\ x \in Cells
          BY <1>3, <1>6, <1>8, <2>1, <3>2
        <4> QED BY <1>4, <2>1, <4>1, <4>2
      <3> QED BY <3>1, <3>2
    <2>4. cr \in 0..(n1 + 1)
      BY <1>4, <1>6
    <2> QED BY <1>3, <1>4, <1>7, <2>2, <2>3, <2>4
  <1>13. pc' \in {l, "hung"} /\ m_cbList' \in (1..cr) \cup {Null} /\ sp \in (1..cr) \cup {Null}
    <2>1. sp \in (1..created) \cup {Null}
      BY <1>2, <1>6 DEF HeapKinds, sp, Popped
    <2> QED BY <1>3, <1>5, <1>6, <1>7, <2>1
  <1>14. pc = "function" => cb # Null /\ L # <<>> /\ cb = L[1] /\ time'[cb] = time[cb]
    <2> SUFFICES ASSUME pc = "function" PROVE cb # Null /\ L # <<>> /\ cb = L[1] /\ time'[cb] = time[cb]
      OBVIOUS
    <2>1. cb # Null /\ ListOf(nx, L, cb)
      BY <1>2, <1>9 DEF HeapKinds, Cursor, Lists
    <2>2. 1 \in 1..Len(L) /\ cb = L[1]
      BY <2>1, ListHead
    <2> QED BY <1>3, <1>10, <2>1, <2>2
  <1>15. HeapKinds'
    <2>1. /\ cb' \in (1..cr) \cup {Null} /\ pc' \in {"idle", "loop", "function", "hung"}
          /\ invoked' \in Seq(Nat) /\ now' \in Nat
          /\ \A i \in 1..Len(invoked') : invoked'[i] \in 1..Len(due')
      <3>1. /\ cb \in (1..created) \cup {Null} /\ invoked \in Seq(Nat) /\ now \in Nat
            /\ \A i \in 1..Len(invoked) : invoked[i] \in 1..n1
        BY <1>2 DEF HeapKinds, n1
      <3>2. cb' \in (1..cr) \cup {Null} /\ invoked' \in Seq(Nat) /\ now' \in Nat
        BY <1>6, <3>1
      <3>3. \A i \in 1..Len(invoked') : invoked'[i] \in 1..Len(due')
        <4>1. 1..n1 \subseteq 1..(n1 + 1)
          BY <1>4
        <4> QED BY <1>4, <3>1, <4>1
      <3>4. pc' \in {"idle", "loop", "function", "hung"}
        BY <1>13
      <3> QED BY <3>2, <3>3, <3>4
    <2>2. pc' = "function" => cb' # Null /\ time'[cb'] < now'
      BY <1>2, <1>13, <1>14 DEF HeapKinds
    <2>3. Len(due') <= MaxCalls
      BY <1>3, <1>4
    <2> QED BY <1>3, <1>4, <1>11, <1>12, <1>13, <2>1, <2>2, <2>3 DEF HeapKinds
  \* The order.
  <1>16. /\ Contents(fn, time, n1, invoked, L, First, stale) /\ First \in {1, 2}
         /\ fn \in [Cells -> 0..n1] /\ time \in [Cells -> Times]
         /\ Invoked(invoked, n1)
    BY <1>1, <1>2 DEF Shape, First, HeapKinds, Invoked, n1
  <1>A. Updated(fn', fn, c, n1 + 1) /\ Updated(time', time, c, t)
    BY <1>3, <1>5, <1>8, <1>16 DEF Updated
  <1>17. pc' = l \/ pc = "function" => First' = First
    BY <1>13 DEF First
  <1>18. SUFFICES (\E M, R \in Seq(Cells) : Shape(M, R)') /\ (pc = "idle" => pc' = "idle")
    BY <1>15 DEF CallbackInv
  <1>19. \A M, R : /\ Lists(next', cr, M, R, Cursor', sp)
                   /\ Contents(fn', time', n1 + 1, invoked, M, First, stale')
                   /\ pc' = "hung" => stale'
                   /\ pc' = l \/ pc = "function"
                   => Shape(M, R)'
    BY <1>3, <1>4, <1>17 DEF Shape
  <1>20. CASE pc = "idle" /\ front
    <2>1. pc' = "idle" /\ Front(nx, next', m, c) /\ Cursor = m /\ Cursor' = c /\ First = 1
      BY <1>3, <1>20 DEF Cursor, First
    <2>2. next'[c] = m /\ \A x \in Cells : x # c => next'[x] = nx[x]
      BY <1>5, <1>7, <2>1 DEF Front
    <2>3. Inserted(L, 0, c) \in Seq(Cells) /\ Lists(next', cr, Inserted(L, 0, c), P, Cursor', sp)
      BY <1>5, <1>6, <1>9, <2>1, <2>2, ListsPush
    <2>4. ASSUME ~stale, NEW i \in (0 + 1)..Len(L) PROVE t <= time[L[i]]
      <3>1. SortedBy(time, L) /\ i \in 1..Len(L) /\ 1 \in 1..Len(L) /\ L[1] = m /\ m # Null
        BY <1>9, <1>10, <1>16, <2>1, <2>4, ListHead DEF Contents, Lists
      <3>2. time[L[i]] \in {Immediate} \cup Nat /\ time[L[1]] \in {Immediate} \cup Nat /\ t \in {Immediate} \cup Nat
        BY <1>10, <1>16, <3>1 DEF Times
      <3>3. time[L[1]] <= time[L[i]]
        BY <3>1, <3>2 DEF SortedBy, Immediate
      <3>4. CASE t = Immediate
        BY <3>2, <3>4 DEF Immediate
      <3>5. CASE t < tm[m]
        <4>1. t < time[L[1]]
          BY <1>10, <3>1, <3>5
        <4> QED BY <3>2, <3>3, <4>1 DEF Immediate
      <3> QED BY <1>20, <3>1, <3>4, <3>5
    <2>5. 0 \in (First - 1)..Len(L)
      BY <1>10, <2>1
    <2>6. stale' \/ (~stale /\ Fits(time, L, 0, t))
      BY <1>20, <2>4 DEF Fits
    <2>7. Contents(fn', time', n1 + 1, invoked, Inserted(L, 0, c), First, stale')
      <3>1. CASE stale'
        <4>1. Contents(fn', time', n1 + 1, invoked, Inserted(L, 0, c), First, TRUE)
          BY <1>4, <1>5, <1>16, <1>A, <2>5, ContentsAdded
        <4> QED BY <3>1, <4>1 DEF Contents
      <3>2. CASE ~stale'
        <4>1. Contents(fn, time, n1, invoked, L, First, FALSE) /\ Fits(time, L, 0, t)
          BY <1>16, <2>6, <3>2 DEF Contents
        <4>2. Contents(fn', time', n1 + 1, invoked, Inserted(L, 0, c), First, FALSE)
          BY <1>4, <1>5, <1>16, <1>A, <2>5, <4>1, ContentsInOrder
        <4> QED BY <3>2, <4>2 DEF Contents
      <3> QED BY <3>1, <3>2
    <2> QED BY <1>19, <1>5, <2>1, <2>3, <2>7
  <1>21. CASE ~front /\ Cursor = m
    <2>1. m # Null /\ m = L[1] /\ tm[m] <= t
      <3>1. m # Null /\ ~(t < tm[m])
        BY <1>21
      <3>2. m = L[1] /\ 1 \in 1..Len(L)
        BY <1>9, <1>21, <3>1, ListHead DEF Lists
      <3>3. tm[m] \in Int /\ t \in Int
        BY <1>10, <3>2 DEF Times, Immediate
      <3> QED BY <3>1, <3>2, <3>3
    <2>2. \E n \in 0..MaxCalls : InsertsAfter(nx, tm, m, t, n)
      BY <1>7, <1>9, <1>21, <2>1, PlaceFound DEF Lists
    <2>3. /\ pc' = l /\ m_cbList' = m
          /\ \E n \in 0..MaxCalls : InsertsAfter(nx, tm, m, t, n) /\ Behind(nx, next', m, c, n)
      BY <1>3, <1>21, <2>2
    <2>4. PICK n \in 0..MaxCalls : InsertsAfter(nx, tm, m, t, n) /\ Behind(nx, next', m, c, n)
      BY <2>3
    <2>5. PICK k \in 1..Len(L) :
            /\ Inserted(L, k, c) \in Seq(Cells) /\ Lists(next', cr, Inserted(L, k, c), P, m, sp)
            /\ \A i \in 1..k : tm[L[i]] <= t
            /\ SortedBy(tm, L) => \A i \in (k + 1)..Len(L) : t <= tm[L[i]]
      BY <1>5, <1>6, <1>7, <1>9, <1>21, <2>1, <2>4, LinkedInOrder
    <2>6. Cursor' = m
      BY <1>21, <2>3 DEF Cursor
    <2>7. ASSUME ~stale
          PROVE  /\ \A i \in 1..k : time[L[i]] <= t
                 /\ \A i \in (k + 1)..Len(L) : t <= time[L[i]]
      <3>1. SortedBy(tm, L)
        BY <1>10, <1>16, <2>7 DEF Contents, SortedBy
      <3>2. ASSUME NEW i \in 1..k PROVE time[L[i]] <= t
        <4>1. i \in 1..Len(L)
          BY <1>10
        <4> QED BY <1>10, <2>5, <4>1
      <3>3. ASSUME NEW i \in (k + 1)..Len(L) PROVE t <= time[L[i]]
        <4>1. i \in 1..Len(L)
          BY <1>10
        <4> QED BY <1>10, <2>5, <3>1, <4>1
      <3> QED BY <3>2, <3>3
    <2>8. stale' \/ (~stale /\ Fits(time, L, k, t))
      BY <2>7 DEF Fits
    <2>9. k \in (First - 1)..Len(L)
      BY <1>10, <1>16
    <2>10. Contents(fn', time', n1 + 1, invoked, Inserted(L, k, c), First, stale')
      <3>1. CASE stale'
        <4>1. Contents(fn', time', n1 + 1, invoked, Inserted(L, k, c), First, TRUE)
          BY <1>4, <1>5, <1>16, <1>A, <2>9, ContentsAdded
        <4> QED BY <3>1, <4>1 DEF Contents
      <3>2. CASE ~stale'
        <4>1. Contents(fn, time, n1, invoked, L, First, FALSE) /\ Fits(time, L, k, t)
          BY <1>16, <2>8, <3>2 DEF Contents
        <4>2. Contents(fn', time', n1 + 1, invoked, Inserted(L, k, c), First, FALSE)
          BY <1>4, <1>5, <1>16, <1>A, <2>9, <4>1, ContentsInOrder
        <4> QED BY <3>2, <4>2 DEF Contents
      <3> QED BY <3>1, <3>2
    <2> QED BY <1>5, <1>19, <2>3, <2>5, <2>6, <2>10
  <1>22. CASE pc = "function" /\ stale'
    <2>1. Cursor' = Cursor
      BY <1>13, <1>22 DEF Cursor
    <2>2. PICK M \in Seq(Cells), R \in Seq(Cells) :
            /\ Lists(next', cr, M, R, Cursor, sp)
            /\ M = L \/ \E k \in 1..Len(L) : M = Inserted(L, k, c)
      BY <1>11
    <2>3. Contents(fn', time', n1 + 1, invoked, M, First, TRUE)
      <3>1. CASE M = L
        BY <1>4, <1>5, <1>16, <1>A, <3>1, ContentsLost
      <3>2. ASSUME NEW k \in 1..Len(L), M = Inserted(L, k, c)
            PROVE  Contents(fn', time', n1 + 1, invoked, M, First, TRUE)
        <4>1. k \in (First - 1)..Len(L)
          BY <1>10, <1>16, <3>2
        <4> QED BY ZenonT(60), <1>4, <1>5, <1>16, <1>A, <3>2, <4>1, ContentsAdded
      <3> QED BY <2>2, <3>1, <3>2
    <2>4. Contents(fn', time', n1 + 1, invoked, M, First, stale')
      BY <1>22, <2>3 DEF Contents
    <2> QED BY <1>19, <1>22, <2>1, <2>2, <2>4
  <1>23. front \/ ~front
    OBVIOUS
  <1>24. pc = "function" /\ ~stale' => ~front /\ Cursor = m
    <2> SUFFICES ASSUME pc = "function", ~stale' PROVE ~front /\ Cursor = m
      OBVIOUS
    <2>1. cb = m /\ t # Immediate /\ ~(t < time[cb])
      OBVIOUS
    <2>2. tm[m] = time[cb] /\ m # Null
      BY <1>3, <1>14, <2>1
    <2> QED BY <2>1, <2>2 DEF Cursor
  <1>25. pc = "idle" => Cursor = m
    BY DEF Cursor
  <1> QED
    BY <1>20, <1>21, <1>22, <1>23, <1>24, <1>25

LEMMA CallbackStarts == Init => CallbackInv
  <1> SUFFICES ASSUME Init PROVE CallbackInv
    OBVIOUS
  <1>1. <<>> \in Seq(Cells) /\ <<>> \in Seq(Times) /\ <<>> \in Seq(Nat) /\ Len(<<>>) = 0
    BY EmptySeq
  <1>2. HeapKinds
    <2>1. MaxCalls \in Nat /\ 0 \in 0..0 /\ 0 <= MaxCalls
      BY BoundsAssumption
    <2> QED BY <1>1, <2>1 DEF Init, HeapKinds, Times
  <1>3. Lists(next, created, <<>>, <<>>, Cursor, s_pool)
    BY <1>1 DEF Init, Lists, ListOf, At, Apart, Cursor
  <1>4. Contents(fn, time, Len(due), invoked, <<>>, First, stale)
    BY <1>1 DEF Init, Contents, SortedBy, First
  <1>5. Shape(<<>>, <<>>)
    BY <1>3, <1>4 DEF Shape, Init
  <1> QED
    BY <1>1, <1>2, <1>5 DEF CallbackInv

LEMMA CallbacksStay ==
  ASSUME CallbackInv,
         UNCHANGED <<next, fn, time, created, s_pool, m_cbList, cb, pc, stale, due, invoked>>,
         now' \in Nat, now <= now'
  PROVE  CallbackInv'
  <1>1. HeapKinds'
    <2>1. pc = "function" => cb # Null /\ time[cb] < now'
      <3>1. pc = "function" => cb \in Cells /\ time[cb] \in Int /\ time[cb] < now /\ now \in Nat /\ cb # Null
        <4>1. 1..created \subseteq Cells
          BY BoundsAssumption DEF CallbackInv, HeapKinds, Cells
        <4> QED BY <4>1 DEF CallbackInv, HeapKinds, Times, Immediate
      <3> QED BY <3>1
    <2> QED BY <2>1 DEF CallbackInv, HeapKinds
  <1>2. \A L, P : Shape(L, P) => Shape(L, P)'
    BY DEF Shape, Cursor, First
  <1> QED
    BY <1>1, <1>2 DEF CallbackInv

\* The walk begins at the head of the list, and ends at the first object that is not
\* due.
LEMMA WalkBounds ==
  ASSUME CallbackInv, InvokeCallbacks \/ InvokeEnds
  PROVE  CallbackInv'
  <1>1. Cursor' = Cursor /\ First = 1 /\ First' = 1 /\ pc' # "hung"
    BY DEF InvokeCallbacks, InvokeEnds, Cursor, First
  <1>2. UNCHANGED <<next, fn, time, created, s_pool, stale, due, invoked, now>>
    BY DEF InvokeCallbacks, InvokeEnds, heap
  <1>3. HeapKinds'
    BY <1>2 DEF InvokeCallbacks, InvokeEnds, CallbackInv, HeapKinds
  <1>4. \A L, P : Shape(L, P) => Shape(L, P)'
    BY <1>1, <1>2 DEF Shape
  <1> QED
    BY <1>3, <1>4 DEF CallbackInv

\* The object under the cursor, when there is one, is the first of the list.
LEMMA CursorIsFirst ==
  ASSUME CallbackInv, pc # "idle", cb # Null, NEW L \in Seq(Cells), NEW P, Shape(L, P)
  PROVE  /\ 1 \in 1..Len(L) /\ cb = L[1] /\ cb \in Cells /\ cb \in 1..created
         /\ fn[cb] \in 1..Len(due) /\ due[fn[cb]] = time[cb]
  <1>1. ListOf(next, L, cb)
    BY DEF Shape, Lists, Cursor
  <1>2. 1 \in 1..Len(L) /\ cb = L[1] /\ cb \in Cells
    BY <1>1, ListHead
  <1> QED
    BY <1>2 DEF CallbackInv, HeapKinds

LEMMA NextInvoked ==
  ASSUME CallbackInv, InvokeNext
  PROVE  /\ CallbackInv'
         /\ LET r == fn[cb]
            IN /\ invoked' = Append(invoked, r) /\ r \in Waiting /\ due[r] < now
               /\ ~stale => \A q \in Waiting : due[r] <= due[q]
  <1> DEFINE r == fn[cb]
  <1>1. PICK L \in Seq(Cells), P \in Seq(Cells) : Shape(L, P)
    BY DEF CallbackInv
  <1>2. /\ pc = "loop" /\ cb # Null /\ time[cb] < now /\ invoked' = Append(invoked, r)
        /\ pc' = "function" /\ UNCHANGED <<next, fn, time, created, s_pool, m_cbList, cb, stale, now, due>>
    BY DEF InvokeNext, IsDue, heap
  <1>3. 1 \in 1..Len(L) /\ cb = L[1] /\ cb \in Cells /\ r \in 1..Len(due) /\ due[r] = time[cb]
    BY <1>1, <1>2, CursorIsFirst
  <1>4. /\ invoked \in Seq(Nat) /\ Len(invoked) \in Nat /\ Len(L) \in Nat /\ Len(due) \in Nat /\ r \in Nat
        /\ \A i \in 1..Len(invoked) : invoked[i] \in 1..Len(due)
    BY <1>3, LenProperties DEF CallbackInv, HeapKinds
  <1>5. /\ invoked' \in Seq(Nat) /\ Len(invoked') = Len(invoked) + 1 /\ invoked'[Len(invoked) + 1] = r
        /\ \A i \in 1..Len(invoked) : invoked'[i] = invoked[i]
    BY <1>2, <1>4, AppendProperties
  <1>6. \A q : Called(invoked', q) <=> (q = r \/ Called(invoked, q))
    <2>1. ASSUME NEW q, Called(invoked', q) PROVE q = r \/ Called(invoked, q)
      <3>1. PICK i \in 1..Len(invoked') : invoked'[i] = q
        BY <2>1 DEF Called
      <3>2. i = Len(invoked) + 1 \/ i \in 1..Len(invoked)
        BY <1>4, <1>5
      <3> QED BY <1>5, <3>1, <3>2 DEF Called
    <2>2. ASSUME NEW q, q = r \/ Called(invoked, q) PROVE Called(invoked', q)
      <3>1. Len(invoked) + 1 \in 1..Len(invoked') /\ 1..Len(invoked) \subseteq 1..Len(invoked')
        BY <1>4, <1>5
      <3>2. CASE q = r
        BY <1>5, <3>1, <3>2 DEF Called
      <3>3. CASE Called(invoked, q)
        <4>1. PICK i \in 1..Len(invoked) : invoked[i] = q
          BY <3>3 DEF Called
        <4>2. i \in 1..Len(invoked') /\ invoked'[i] = q
          BY <1>5, <3>1, <4>1
        <4> QED BY <4>2 DEF Called
      <3> QED BY <2>2, <3>2, <3>3
    <2> QED BY <2>1, <2>2
  <1>7. /\ Contents(fn, time, Len(due), invoked, L, 1, stale) /\ Lists(next, created, L, P, cb, s_pool)
        /\ First' = 2 /\ Cursor' = cb
    BY <1>1, <1>2 DEF Shape, Cursor, First
  <1>8. HeapKinds'
    <2>1. \A i \in 1..Len(invoked') : invoked'[i] \in 1..Len(due')
      <3> SUFFICES ASSUME NEW i \in 1..Len(invoked') PROVE invoked'[i] \in 1..Len(due)
        BY <1>2
      <3>1. i = Len(invoked) + 1 \/ i \in 1..Len(invoked)
        BY <1>4, <1>5
      <3> QED BY <1>3, <1>4, <1>5, <3>1
    <2> HIDE DEF r
    <2> QED BY <1>2, <1>5, <2>1 DEF CallbackInv, HeapKinds
  <1>9. Contents(fn, time, Len(due), invoked', L, 2, stale)
    <2>1. ASSUME NEW i \in 2..Len(L) PROVE ~Called(invoked', fn[L[i]])
      <3>1. i \in 1..Len(L) /\ i # 1
        BY <1>4
      <3>2. ~Called(invoked, fn[L[i]]) /\ fn[L[i]] # r
        BY <1>3, <1>7, <3>1 DEF Contents
      <3> QED BY <1>6, <3>2
    <2>2. ASSUME ~stale, NEW q \in 1..Len(due) PROVE Called(invoked', q) \/ \E i \in 2..Len(L) : fn[L[i]] = q
      <3>1. Called(invoked, q) \/ \E i \in 1..Len(L) : fn[L[i]] = q
        BY <1>7, <2>2 DEF Contents
      <3>2. ASSUME NEW i \in 1..Len(L), fn[L[i]] = q PROVE Called(invoked', q) \/ i \in 2..Len(L)
        <4>1. i = 1 \/ i \in 2..Len(L)
          BY <1>4
        <4> QED BY <1>3, <1>6, <3>2, <4>1
      <3> QED BY <1>6, <3>1, <3>2
    <2> QED BY <1>7, <2>1, <2>2 DEF Contents
  <1>10. CallbackInv'
    BY <1>2, <1>7, <1>8, <1>9 DEF CallbackInv, Shape
  <1>11. \A q : q \in Waiting <=> (q \in 1..Len(due) /\ ~Called(invoked, q))
    BY DEF Waiting, Requests, IsInvoked, Called
  <1>12. r \in Waiting
    <2>1. ~Called(invoked, r)
      BY <1>3, <1>7 DEF Contents
    <2> QED BY <1>3, <1>11, <2>1
  <1>13. ASSUME ~stale, NEW q \in Waiting PROVE due[r] <= due[q]
    <2>1. PICK i \in 1..Len(L) : fn[L[i]] = q
      BY <1>7, <1>11, <1>13 DEF Contents
    <2>2. L[i] \in 1..created /\ L[i] \in Cells
      BY <1>7, ElementOfSeq DEF Lists
    <2>3. due[q] = time[L[i]] /\ time[L[i]] \in Int /\ time[L[1]] \in Int
      BY SMTT(30), <1>3, <2>1, <2>2 DEF CallbackInv, HeapKinds, Times, Immediate
    <2>4. time[L[1]] <= time[L[i]]
      BY <1>3, <1>4, <1>7, <1>13, <2>3 DEF Contents, SortedBy
    <2> QED BY <1>3, <2>3, <2>4
  <1> QED
    BY <1>2, <1>3, <1>10, <1>12, <1>13

\* The object of the function that returns goes to the pool, the cursor to the next.
LEMMA FunctionReturned ==
  ASSUME CallbackInv, FunctionReturns
  PROVE  CallbackInv'
  <1>1. PICK L \in Seq(Cells), P \in Seq(Cells) : Shape(L, P)
    BY DEF CallbackInv
  <1>2. /\ pc = "function" /\ cb # Null /\ cb' = next[cb] /\ next' = [next EXCEPT ![cb] = s_pool]
        /\ s_pool' = cb /\ pc' = "loop" /\ UNCHANGED <<fn, time, created, m_cbList, stale, now, due, invoked>>
    BY DEF FunctionReturns, CallbackInv, HeapKinds
  <1>3. 1 \in 1..Len(L) /\ cb = L[1] /\ cb \in Cells /\ cb \in 1..created
    BY <1>1, <1>2, CursorIsFirst
  <1>4. /\ Lists(next, created, L, P, cb, s_pool) /\ Contents(fn, time, Len(due), invoked, L, 2, stale)
        /\ First' = 1 /\ Cursor' = next[cb] /\ created \in Nat
    BY <1>1, <1>2 DEF Shape, Cursor, First, CallbackInv, HeapKinds
  <1> DEFINE M == Tail(L)
  <1>5. /\ M \in Seq(Cells) /\ Len(M) = Len(L) - 1 /\ Len(L) \in Nat
        /\ \A i \in 1..Len(M) : i + 1 \in 1..Len(L) /\ M[i] = L[i + 1]
        /\ ListOf(next, M, next[cb]) /\ ~IsIn(cb, M)
    BY <1>2, <1>4, ListPop, LenProperties DEF Lists
  <1> HIDE DEF M
  <1>6. Lists(next, created, M, P, next[cb], s_pool)
    BY <1>4, <1>5 DEF Lists, Apart
  <1>7. ~IsIn(cb, P)
    BY <1>3, <1>4 DEF Lists, Apart, IsIn
  <1>8. next \in [Cells -> (1..created) \cup {Null}] /\ s_pool \in (1..created) \cup {Null}
    BY DEF CallbackInv, HeapKinds
  <1>9. /\ next' \in [Cells -> (1..created) \cup {Null}]
        /\ next'[cb] = s_pool /\ \A x \in Cells : x # cb => next'[x] = next[x]
    BY <1>2, <1>3, <1>8
  <1>10. Lists(next, created, P, M, s_pool, next[cb])
    BY <1>6, ListsSwap
  <1>11. /\ Inserted(P, 0, cb) \in Seq(Cells)
         /\ Lists(next', created, Inserted(P, 0, cb), M, cb, next[cb])
    BY <1>3, <1>4, <1>5, <1>7, <1>9, <1>10, ListsPush
  <1>12. Lists(next', created, M, Inserted(P, 0, cb), next[cb], cb)
    BY <1>11, ListsSwap
  <1>13. Contents(fn, time, Len(due), invoked, M, 1, stale)
    <2>1. ASSUME NEW i \in 1..Len(M), NEW j \in 1..Len(M), fn[M[i]] = fn[M[j]] PROVE i = j
      <3>1. i + 1 \in 1..Len(L) /\ j + 1 \in 1..Len(L) /\ fn[L[i + 1]] = fn[L[j + 1]]
        BY <1>5, <2>1
      <3>2. i + 1 = j + 1
        BY <1>4, <3>1 DEF Contents
      <3> QED BY <1>5, <3>2
    <2>2. ASSUME NEW i \in 1..Len(M) PROVE ~Called(invoked, fn[M[i]])
      <3>1. i + 1 \in 2..Len(L) /\ M[i] = L[i + 1]
        BY <1>5
      <3> QED BY <1>4, <3>1 DEF Contents
    <2>3. ASSUME ~stale PROVE SortedBy(time, M)
      <3> SUFFICES ASSUME NEW i \in 1..Len(M), NEW j \in 1..Len(M), i < j PROVE time[M[i]] <= time[M[j]]
        BY DEF SortedBy
      <3>1. i + 1 \in 1..Len(L) /\ j + 1 \in 1..Len(L) /\ i + 1 < j + 1
        BY <1>5
      <3>2. time[L[i + 1]] <= time[L[j + 1]]
        BY <1>4, <2>3, <3>1 DEF Contents, SortedBy
      <3> QED BY <1>5, <3>2
    <2>4. ASSUME ~stale, NEW q \in 1..Len(due) PROVE Called(invoked, q) \/ \E i \in 1..Len(M) : fn[M[i]] = q
      <3>1. Called(invoked, q) \/ \E i \in 2..Len(L) : fn[L[i]] = q
        BY <1>4, <2>4 DEF Contents
      <3>2. ASSUME NEW i \in 2..Len(L), fn[L[i]] = q PROVE \E j \in 1..Len(M) : fn[M[j]] = q
        <4>1. i - 1 \in 1..Len(M) /\ i - 1 + 1 = i
          BY <1>5
        <4>2. M[i - 1] = L[i]
          BY <1>5, <4>1
        <4> QED BY <3>2, <4>1, <4>2
      <3> QED BY <3>1, <3>2
    <2> QED BY <2>1, <2>2, <2>3, <2>4 DEF Contents
  <1>14. HeapKinds'
    <2>1. cb' \in (1..created) \cup {Null}
      BY <1>2, <1>3, <1>8
    <2> QED BY <1>2, <1>3, <1>9, <2>1 DEF CallbackInv, HeapKinds
  <1> QED
    BY <1>2, <1>4, <1>5, <1>11, <1>12, <1>13, <1>14 DEF CallbackInv, Shape

-----------------------------------------------------------------------------
(* The callbacks of the scene.                                             *)

\* The walk is the loop's.
CallInv == CallbackInv /\ (phase = "walk" <=> pc # "idle")

\* A callback is requested between the walks.
LEMMA AddedBetween ==
  ASSUME CallbackInv, pc = "idle", NEW t \in {Immediate} \cup Timeouts, AddCallback(t, "idle"),
         UNCHANGED <<cb, stale, now, invoked>>
  PROVE  CallbackInv' /\ pc' = "idle"
  <1>1. t \in Times
    BY BoundsAssumption DEF Timeouts, Times, CallbackInv, HeapKinds
  <1>2. /\ cb' = cb /\ now' = now /\ invoked' = invoked /\ (stale' <=> stale)
        /\ stale' \/ ~stale
    OBVIOUS
  <1> QED
    BY <1>1, <1>2, CallbackAdded

\* A function of the walk requests one.
LEMMA AddedInWalk ==
  ASSUME CallbackInv, AddFromFunction
  PROVE  CallbackInv' /\ invoked' = invoked /\ pc' # "idle" /\ pc # "idle"
  <1>1. /\ pc = "function" /\ UNCHANGED <<cb, now, invoked>>
    BY DEF AddFromFunction
  <1>2. PICK t \in {Immediate} \cup Timeouts :
          AddCallback(t, "function") /\ stale' = (stale \/ t = Immediate \/ cb # m_cbList)
    BY DEF AddFromFunction
  <1>3. /\ now \in Nat /\ cb # Null /\ cb \in Cells /\ time[cb] < now /\ time[cb] \in Int
    <2>1. 1..created \subseteq Cells
      BY BoundsAssumption DEF CallbackInv, HeapKinds, Cells
    <2> QED BY <1>1, <2>1 DEF CallbackInv, HeapKinds, Times, Immediate
  <1>4. t \in Times /\ (t # Immediate => t \in Nat /\ now < t)
    BY <1>3, BoundsAssumption DEF Timeouts, Times
  <1>5. ~stale' => ~stale /\ t # Immediate /\ cb = m_cbList
    BY <1>2
  <1>6. t # Immediate => ~(t < time[cb])
    BY <1>3, <1>4
  <1>7. CallbackInv'
    BY <1>1, <1>2, <1>4, <1>5, <1>6, CallbackAdded
  <1>8. pc' \in {"function", "hung"}
    BY <1>2, AddCallbackIs DEF CallbackInv
  <1> QED
    BY <1>1, <1>7, <1>8

LEMMA CallbackSteps ==
  ASSUME CallInv, [SceneNext]_sceneVars
  PROVE  CallInv' /\ (invoked' = invoked \/ InvokeNext)
  <1>0. CallbackInv /\ (phase = "walk" <=> pc # "idle") /\ now \in Nat
    BY DEF CallInv, CallbackInv, HeapKinds
  <1>1. ASSUME UNCHANGED vars, phase' = "walk" <=> phase = "walk"
        PROVE  CallInv' /\ (invoked' = invoked \/ InvokeNext)
    BY <1>0, <1>1, CallbacksStay DEF CallInv, vars
  <1>2. CASE UNCHANGED sceneVars
    BY <1>1, <1>2 DEF sceneVars, loop
  <1>3. CASE Frame \/ Switch \/ ComposeInline \/ Event \/ LeaveScene
    <2>1. UNCHANGED vars
      BY <1>3 DEF Frame, Switch, ComposeInline, Event, LeaveScene
    <2>2. phase' = "walk" <=> phase = "walk"
      BY <1>3 DEF Frame, Switch, ComposeInline, Event, LeaveScene
    <2> QED BY <1>1, <2>1, <2>2
  <1>4. ASSUME NEW d \in Scenes, Thread(d) PROVE CallInv' /\ (invoked' = invoked \/ InvokeNext)
    BY <1>1, <1>4 DEF Thread
  <1>5. CASE Walk
    <2>1. CASE phase = "script" /\ m_cbList = Null /\ phase' = "decide" /\ UNCHANGED vars
      BY <1>1, <2>1
    <2>2. CASE phase = "script" /\ InvokeCallbacks /\ phase' = "walk"
      BY <1>0, <2>2, WalkBounds DEF CallInv, InvokeCallbacks
    <2>3. CASE phase = "walk" /\ InvokeNext /\ phase' = "walk"
      BY <1>0, <2>3, NextInvoked DEF CallInv, InvokeNext
    <2>4. CASE phase = "walk" /\ FunctionReturns /\ phase' = "walk"
      BY <1>0, <2>4, FunctionReturned DEF CallInv, FunctionReturns
    <2>5. CASE phase = "walk" /\ AddFromFunction /\ phase' = "walk"
      BY <1>0, <2>5, AddedInWalk DEF CallInv
    <2>6. CASE phase = "walk" /\ InvokeEnds /\ phase' = "decide"
      BY <1>0, <2>6, WalkBounds DEF CallInv, InvokeEnds
    <2> QED BY <1>5, <2>1, <2>2, <2>3, <2>4, <2>5, <2>6 DEF Walk
  <1>6. CASE Decide \/ WakeUp
    <2>1. phase \in {"decide", "asleep"} /\ phase' \in {"frame", "asleep"}
      BY <1>6 DEF Decide, WakeUp
    <2>2. UNCHANGED <<next, fn, time, created, s_pool, m_cbList, cb, pc, stale, due, invoked>>
      BY <1>6 DEF Decide, WakeUp, heap
    <2>3. now' \in Nat /\ now <= now'
      <3>1. CASE Decide
        BY <1>0, <3>1 DEF Decide
      <3>2. CASE WakeUp
        <4>1. now' = now \/ now' \in now..wake
          BY <3>2 DEF WakeUp
        <4> QED BY <1>0, <4>1
      <3> QED BY <1>6, <3>1, <3>2
    <2> QED BY <1>0, <2>1, <2>2, <2>3, CallbacksStay DEF CallInv
  <1>7. CASE Posted
    <2>1. pc = "idle" /\ AddCallback(Immediate, "idle") /\ UNCHANGED <<cb, stale, now, invoked>> /\ phase' = phase
      BY <1>7 DEF Posted
    <2> QED BY <1>0, <2>1, AddedBetween DEF CallInv
  <1>8. CASE SetTimeout
    <2>1. /\ phase = "script" /\ UNCHANGED <<cb, stale, now, invoked>> /\ phase' = phase
          /\ \E t \in Timeouts : AddCallback(t, "idle")
      BY <1>8 DEF SetTimeout, loop
    <2> QED BY <1>0, <2>1, AddedBetween DEF CallInv
  <1> QED
    BY <1>2, <1>3, <1>4, <1>5, <1>6, <1>7, <1>8 DEF SceneNext, Step

LEMMA CallbackInvariance == SceneSpec => []CallInv
  <1>1. SceneInit => CallInv
    BY CallbackStarts DEF SceneInit, CallInv, Init
  <1>2. CallInv /\ [SceneNext]_sceneVars => CallInv'
    BY CallbackSteps
  <1> QED
    BY <1>1, <1>2, PTL DEF SceneSpec

\* The functions a script asks to be called back are called once at most, after their
\* time and in the order of the times, however addCallback and invokeCallbacks are
\* interleaved with the functions that add callbacks again, with the threads and with
\* the objects that are reused from the pool (Script.addCallback, invokeCallbacks,
\* ScriptCallback.create and release).
THEOREM CallbacksInOrder == SceneSpec => InvokedInOrder
  <1>1. ASSUME CallInv, [SceneNext]_sceneVars, invoked' # invoked
        PROVE  LET r == invoked'[Len(invoked')]
                   d == due[r]
               IN /\ r \in Waiting /\ d < now
                  /\ ~stale => \A q \in Waiting : d <= due[q]
    <2>1. CallbackInv /\ InvokeNext
      BY <1>1, CallbackSteps DEF CallInv
    <2>2. /\ invoked' = Append(invoked, fn[cb]) /\ fn[cb] \in Waiting /\ due[fn[cb]] < now
          /\ ~stale => \A q \in Waiting : due[fn[cb]] <= due[q]
      BY <2>1, NextInvoked
    <2>3. invoked'[Len(invoked')] = fn[cb]
      <3>1. invoked \in Seq(Nat) /\ fn[cb] \in Nat
        BY <2>1, <2>2 DEF CallbackInv, HeapKinds, Waiting, Requests
      <3> QED BY <2>2, <3>1, AppendProperties
    <2> QED BY <2>2, <2>3
  <1>2. CallInv /\ [SceneNext]_sceneVars
          => [invoked' # invoked =>
                LET r == invoked'[Len(invoked')]
                    d == due[r]
                IN /\ r \in Waiting /\ d < now
                   /\ ~stale => \A q \in Waiting : d <= due[q]]_vars
    BY <1>1
  <1> QED
    BY <1>2, CallbackInvariance, PTL DEF SceneSpec, InvokedInOrder

-----------------------------------------------------------------------------
(* What the operators on the nodes change.                                 *)

\* What holds a scene, with no bound on its starts.
SceneKind == [ m_decoder : Scenes \cup {Main}, m_node : {"none", "decoded", "destroyed"},
               starts : Nat, registered : Nat, sensor : SensorType ]

TreeKind ==
  [ shown : BOOLEAN, switched : BOOLEAN, chosen : BOOLEAN, m_url : Urls, m_isUpdated : BOOLEAN,
    m_scene : Scenes \cup {None}, m_initTime : Nat, m_state : {"CLOSED", "ERROR", "LOADING", "READY"},
    decoder : Scenes \cup {Main}, created : 0..MaxScenes, scenes : [Scenes -> SceneKind] ]

\* What a tree has beside its Switch, the scenes and the decoder.
InlineAs(r, tr) ==
  /\ r.m_url = tr.m_url /\ r.m_isUpdated = tr.m_isUpdated /\ r.m_scene = tr.m_scene
  /\ r.m_initTime = tr.m_initTime /\ r.m_state = tr.m_state /\ r.created = tr.created
SwitchAs(r, tr) == r.shown = tr.shown /\ r.switched = tr.switched /\ r.chosen = tr.chosen
TopAs(r, tr) == InlineAs(r, tr) /\ SwitchAs(r, tr)

OthersAs(r, tr, s) == \A x \in Scenes : x # s => r.scenes[x] = tr.scenes[x]
Counts(sc, n, m) == sc.starts = n /\ sc.registered = m

Less(n) == IF n = 0 THEN 0 ELSE n - 1
Data(sc, dec) == sc.m_decoder = Main \/ dec[sc.m_decoder].read
CanStart(sc, dec) == sc.m_node = "decoded" \/ Data(sc, dec)

\* The flags of a sensor are not changed by its start.
FlagsAs(ts, tt) ==
  ts.m_started = tt.m_started /\ ts.m_lastFrac = tt.m_lastFrac /\ ts.isActive = tt.isActive
  /\ ts.cycleInterval = tt.cycleInterval

LEMMA FieldOfSensor ==
  ASSUME NEW ts \in SensorType, NEW v \in Int
  PROVE  /\ fieldChanged(ts, "startTime", v) \in SensorType
         /\ FlagsAs(fieldChanged(ts, "startTime", v), ts)
  <1>1. fieldChanged(ts, "startTime", v) = IF ts.m_started THEN [ts EXCEPT !.startTime = v, !.m_restartTime = v]
                                           ELSE [ts EXCEPT !.startTime = v, !.m_startTime = v]
    BY DEF fieldChanged, SensorType
  <1>2. CASE ts.m_started
    <2>1. fieldChanged(ts, "startTime", v) = [ts EXCEPT !.startTime = v, !.m_restartTime = v]
      BY <1>1, <1>2
    <2> QED BY <2>1 DEF SensorType, FlagsAs
  <1>3. CASE ~ts.m_started
    <2>1. fieldChanged(ts, "startTime", v) = [ts EXCEPT !.startTime = v, !.m_startTime = v]
      BY <1>1, <1>3
    <2> QED BY <2>1 DEF SensorType, FlagsAs
  <1> QED
    BY <1>2, <1>3

LEMMA StartOfSensor ==
  ASSUME NEW ts \in SensorType
  PROVE  start(ts) \in SensorType /\ FlagsAs(start(ts), ts)
  <1> DEFINE f == fieldChanged(ts, "startTime", ts.startTime)
  <1>1. f \in SensorType /\ FlagsAs(f, ts)
    <2>1. ts.startTime \in Int
      BY DEF SensorType
    <2> QED BY <2>1, FieldOfSensor
  <1>2. start(ts) = [f EXCEPT !.m_restartTime = -1]
    BY DEF start
  <1> HIDE DEF f
  <1> QED
    BY <1>1, <1>2 DEF SensorType, FlagsAs

\* Other fields of a tree.
LEMMA SetScenes ==
  ASSUME NEW tr \in TreeKind, NEW X \in [Scenes -> SceneKind], NEW r, r = [tr EXCEPT !.scenes = X]
  PROVE  r \in TreeKind /\ TopAs(r, tr) /\ r.decoder = tr.decoder /\ r.scenes = X
  BY DEF TreeKind, TopAs, InlineAs, SwitchAs

LEMMA SetDecoder ==
  ASSUME NEW tr \in TreeKind, NEW d \in Scenes \cup {Main}, NEW r, r = [tr EXCEPT !.decoder = d]
  PROVE  r \in TreeKind /\ TopAs(r, tr) /\ r.decoder = d /\ r.scenes = tr.scenes
  BY DEF TreeKind, TopAs, InlineAs, SwitchAs

LEMMA StopOfScene ==
  ASSUME NEW tr \in TreeKind, NEW s \in Scenes
  PROVE  LET r == SceneStop(tr, s)
             sc == tr.scenes[s]
         IN /\ r \in TreeKind /\ TopAs(r, tr) /\ r.decoder = tr.decoder /\ OthersAs(r, tr, s)
            /\ Counts(r.scenes[s], Less(sc.starts), Less(sc.registered))
            /\ r.scenes[s].m_decoder = sc.m_decoder /\ r.scenes[s].m_node = sc.m_node
            /\ r.scenes[s].sensor = sc.sensor
  <1> DEFINE sc == tr.scenes[s]
             n == Less(sc.starts)
             m == Less(sc.registered)
             v == [sc EXCEPT !.starts = n, !.registered = m]
             r == SceneStop(tr, s)
  <1>1. r = [tr EXCEPT !.scenes = [tr.scenes EXCEPT ![s] = v]]
    BY DEF SceneStop, Less, TreeKind, SceneKind
  <1>2. sc \in SceneKind /\ tr.scenes \in [Scenes -> SceneKind]
    BY DEF TreeKind
  <1>3. n \in Nat /\ m \in Nat
    BY <1>2 DEF Less, SceneKind
  <1> HIDE DEF n, m, r, sc
  <1>4. /\ v \in SceneKind /\ Counts(v, n, m) /\ v.m_decoder = sc.m_decoder /\ v.m_node = sc.m_node
        /\ v.sensor = sc.sensor
    BY <1>2, <1>3 DEF SceneKind, Counts
  <1> HIDE DEF v
  <1> DEFINE X == [tr.scenes EXCEPT ![s] = v]
  <1>5. X \in [Scenes -> SceneKind] /\ X[s] = v /\ \A x \in Scenes : x # s => X[x] = tr.scenes[x]
    BY <1>2, <1>4
  <1>a. r = [tr EXCEPT !.scenes = X]
    BY <1>1
  <1> HIDE DEF X
  <1>6. /\ r \in TreeKind /\ TopAs(r, tr) /\ r.decoder = tr.decoder
        /\ r.scenes = X
    BY <1>5, <1>a, SetScenes
  <1>7. OthersAs(r, tr, s) /\ r.scenes[s] = v
    BY <1>5, <1>6 DEF OthersAs
  <1> QED
    BY <1>4, <1>6, <1>7 DEF n, m, r, sc

LEMMA StartOfScene ==
  ASSUME NEW tr \in TreeKind, NEW s \in Scenes
  PROVE  LET r == SceneStart(tr, s)
             sc == tr.scenes[s]
             can == CanStart(sc, decoders)
         IN /\ r \in TreeKind /\ TopAs(r, tr) /\ r.decoder = tr.decoder /\ OthersAs(r, tr, s)
            /\ r.scenes[s].m_decoder = sc.m_decoder
            /\ ~can => r = tr
            /\ can => /\ Counts(r.scenes[s], sc.starts + 1, sc.registered + 1)
                      /\ r.scenes[s].m_node = "decoded" /\ r.scenes[s].sensor = start(sc.sensor)
  <1> DEFINE sc == tr.scenes[s]
             q == start(sc.sensor)
             n == sc.starts + 1
             m == sc.registered + 1
             v == [sc EXCEPT !.m_node = "decoded", !.starts = n, !.registered = m, !.sensor = q]
             r == SceneStart(tr, s)
             can == CanStart(sc, decoders)
  <1>2. sc \in SceneKind /\ tr.scenes \in [Scenes -> SceneKind] /\ q \in SensorType
    <2>1. sc \in SceneKind /\ tr.scenes \in [Scenes -> SceneKind]
      BY DEF TreeKind
    <2>2. sc.sensor \in SensorType
      BY <2>1 DEF SceneKind
    <2> QED BY <2>1, <2>2, StartOfSensor
  <1>b. n \in Nat /\ m \in Nat
    BY <1>2 DEF SceneKind
  <1>3. CASE ~can
    <2>1. r = tr
      BY <1>3 DEF SceneStart, CanStart, Data, HasData
    <2> QED BY <1>3, <2>1 DEF TopAs, InlineAs, SwitchAs, OthersAs
  <1>4. CASE can
    <2>1. r = [tr EXCEPT !.scenes[s].m_node = "decoded", !.scenes[s].starts = n,
                         !.scenes[s].registered = m, !.scenes[s].sensor = q]
      BY <1>4 DEF SceneStart, CanStart, Data, HasData
    <2> HIDE DEF q, r, n, m
    <2> DEFINE X == [tr.scenes EXCEPT ![s] = v]
    <2>2. r = [tr EXCEPT !.scenes = X]
      BY <2>1 DEF TreeKind, SceneKind
    <2> HIDE DEF sc
    <2>3. /\ v \in SceneKind /\ Counts(v, n, m)
          /\ v.m_decoder = sc.m_decoder /\ v.m_node = "decoded" /\ v.sensor = q
      BY <1>2, <1>b DEF SceneKind, Counts
    <2> HIDE DEF v
    <2>4. X \in [Scenes -> SceneKind] /\ X[s] = v /\ \A x \in Scenes : x # s => X[x] = tr.scenes[x]
      BY <1>2, <2>3
    <2> HIDE DEF X
    <2>5. /\ r \in TreeKind /\ TopAs(r, tr) /\ r.decoder = tr.decoder
          /\ r.scenes = X
      BY <2>2, <2>4, SetScenes
    <2>6. OthersAs(r, tr, s) /\ r.scenes[s] = v
      BY <2>4, <2>5 DEF OthersAs
    <2> QED
      BY <1>4, <2>3, <2>5, <2>6 DEF q, r, sc, n, m
  <1> QED
    BY <1>3, <1>4

\* The Inline and the Switch.
Scene1(r, tr, s) ==
  r.scenes[s].m_decoder = tr.scenes[s].m_decoder /\ r.scenes[s].m_node = tr.scenes[s].m_node
  /\ r.scenes[s].sensor = tr.scenes[s].sensor
Stopped(r, tr, s) ==
  Scene1(r, tr, s) /\ Counts(r.scenes[s], Less(tr.scenes[s].starts), Less(tr.scenes[s].registered))

LEMMA StopOfInline ==
  ASSUME NEW tr \in TreeKind
  PROVE  LET r == InlineStop(tr)
         IN /\ r \in TreeKind /\ TopAs(r, tr) /\ OthersAs(r, tr, tr.m_scene)
            /\ tr.m_scene # None => Stopped(r, tr, tr.m_scene)
  <1> DEFINE r == InlineStop(tr)
             s == tr.m_scene
  <1>1. CASE s = None
    <2>1. r = tr
      BY <1>1 DEF InlineStop
    <2> QED BY <1>1, <2>1 DEF TopAs, InlineAs, SwitchAs, OthersAs
  <1>2. CASE s # None
    <2>0. s \in Scenes /\ tr.scenes \in [Scenes -> SceneKind]
      BY <1>2 DEF TreeKind
    <2> DEFINE d == tr.scenes[s].m_decoder
               q == [tr EXCEPT !.decoder = d]
    <2>1. d \in Scenes \cup {Main}
      BY <2>0 DEF SceneKind
    <2>2. r = SceneStop(q, s)
      BY <1>2 DEF InlineStop
    <2> HIDE DEF d, r, s
    <2>3. q \in TreeKind /\ TopAs(q, tr) /\ q.scenes = tr.scenes
      BY <2>1, SetDecoder
    <2> HIDE DEF q
    <2>4. /\ r \in TreeKind /\ TopAs(r, q) /\ OthersAs(r, q, s)
          /\ Counts(r.scenes[s], Less(q.scenes[s].starts), Less(q.scenes[s].registered))
          /\ Scene1(r, q, s)
      BY <2>0, <2>2, <2>3, StopOfScene DEF Scene1
    <2>5. TopAs(r, tr) /\ OthersAs(r, tr, s) /\ Stopped(r, tr, s)
      BY <2>3, <2>4 DEF TopAs, InlineAs, SwitchAs, OthersAs, Scene1, Stopped
    <2> QED BY <2>4, <2>5 DEF r, s
  <1> QED
    BY <1>1, <1>2

LEMMA SetUpdated ==
  ASSUME NEW tr \in TreeKind, NEW v \in BOOLEAN, NEW r, r = [tr EXCEPT !.m_isUpdated = v]
  PROVE  /\ r \in TreeKind /\ SwitchAs(r, tr) /\ r.scenes = tr.scenes /\ r.decoder = tr.decoder
         /\ r.m_url = tr.m_url /\ r.m_isUpdated = v /\ r.m_scene = tr.m_scene
         /\ r.m_initTime = tr.m_initTime /\ r.m_state = tr.m_state /\ r.created = tr.created
  BY DEF TreeKind, SwitchAs

\* The starts of a scene that a Switch stops, starts, or both.
Counted(n, stops, starts) == (IF stops THEN Less(n) ELSE n) + (IF starts THEN 1 ELSE 0)
Composed(r, tr, s, stops, starts) ==
  LET sc == tr.scenes[s] IN
  /\ Counts(r.scenes[s], Counted(sc.starts, stops, starts), Counted(sc.registered, stops, starts))
  /\ r.scenes[s].m_decoder = sc.m_decoder
  /\ r.scenes[s].m_node = IF starts THEN "decoded" ELSE sc.m_node
  /\ r.scenes[s].sensor = IF starts THEN start(sc.sensor) ELSE sc.sensor

LEMMA StartOfInline ==
  ASSUME NEW tr \in TreeKind
  PROVE  LET r == InlineStart(tr)
             s == tr.m_scene
         IN /\ r \in TreeKind /\ SwitchAs(r, tr) /\ OthersAs(r, tr, s)
            /\ r.m_url = tr.m_url /\ r.m_scene = s /\ r.m_initTime = tr.m_initTime
            /\ r.m_state = tr.m_state /\ r.created = tr.created
            /\ r.m_isUpdated <=> (tr.m_isUpdated \/ s = None)
            /\ s # None => Composed(r, tr, s, FALSE, CanStart(tr.scenes[s], decoders))
  <1> DEFINE r == InlineStart(tr)
             s == tr.m_scene
  <1>1. CASE s = None
    <2>1. r = [tr EXCEPT !.m_isUpdated = TRUE]
      BY <1>1 DEF InlineStart
    <2> HIDE DEF r
    <2> QED BY ZenonT(60), <1>1, <2>1, SetUpdated DEF OthersAs, r
  <1>2. CASE s # None
    <2>0. s \in Scenes /\ tr.scenes[s] \in SceneKind
      BY <1>2 DEF TreeKind
    <2>1. r = SceneStart(tr, s)
      BY <1>2 DEF InlineStart
    <2> DEFINE can == CanStart(tr.scenes[s], decoders)
    <2> HIDE DEF r, s
    <2>2. /\ r \in TreeKind /\ TopAs(r, tr) /\ OthersAs(r, tr, s)
          /\ r.scenes[s].m_decoder = tr.scenes[s].m_decoder
          /\ ~can => r = tr
          /\ can => /\ Counts(r.scenes[s], tr.scenes[s].starts + 1, tr.scenes[s].registered + 1)
                    /\ r.scenes[s].m_node = "decoded" /\ r.scenes[s].sensor = start(tr.scenes[s].sensor)
      BY <2>0, <2>1, StartOfScene
    <2> HIDE DEF can
    <2>3. tr.scenes[s].starts \in Nat /\ tr.scenes[s].registered \in Nat
      BY <2>0 DEF SceneKind
    <2>4. Composed(r, tr, s, FALSE, can)
      BY <2>2, <2>3 DEF Composed, Counted, Counts
    <2> QED BY <1>2, <2>2, <2>4 DEF TopAs, InlineAs, s, r, can
  <1> QED
    BY <1>1, <1>2

LEMMA ComposeOfSwitch ==
  ASSUME NEW tr \in TreeKind
  PROVE  LET r == SwitchCompose(tr)
             s == tr.m_scene
         IN /\ r \in TreeKind /\ OthersAs(r, tr, s)
            /\ r.shown = tr.shown /\ r.switched = FALSE
            /\ r.chosen <=> IF tr.switched THEN tr.shown ELSE tr.chosen
            /\ r.m_url = tr.m_url /\ r.m_scene = s /\ r.m_initTime = tr.m_initTime
            /\ r.m_state = tr.m_state /\ r.created = tr.created
            /\ r.m_isUpdated <=> (tr.m_isUpdated \/ (tr.switched /\ tr.shown /\ s = None))
            /\ s # None => Composed(r, tr, s, tr.switched /\ tr.chosen,
                                    tr.switched /\ tr.shown /\ CanStart(tr.scenes[s], decoders))
  <1> DEFINE r == SwitchCompose(tr)
             s == tr.m_scene
             can == CanStart(tr.scenes[s], decoders)
             stopped == IF tr.chosen THEN InlineStop(tr) ELSE tr
             chosen == [stopped EXCEPT !.chosen = tr.shown, !.switched = FALSE]
  <1>0. s # None => s \in Scenes /\ tr.scenes[s] \in SceneKind
    BY DEF TreeKind
  <1>1. r = IF ~tr.switched THEN tr ELSE IF tr.shown THEN InlineStart(chosen) ELSE chosen
    BY DEF SwitchCompose
  <1>2. /\ stopped \in TreeKind /\ TopAs(stopped, tr) /\ OthersAs(stopped, tr, s)
        /\ s # None => IF tr.chosen THEN Stopped(stopped, tr, s) ELSE stopped = tr
    <2>1. CASE tr.chosen
      BY <2>1, StopOfInline
    <2>2. CASE ~tr.chosen
      <3>1. stopped = tr
        BY <2>2
      <3> QED BY <2>2, <3>1 DEF TopAs, InlineAs, SwitchAs, OthersAs
    <2> QED BY <2>1, <2>2
  <1>3. tr.shown \in BOOLEAN /\ tr.switched \in BOOLEAN /\ tr.chosen \in BOOLEAN /\ tr.m_isUpdated \in BOOLEAN
    BY DEF TreeKind
  <1> HIDE DEF stopped
  <1>c. chosen = [stopped EXCEPT !.chosen = tr.shown, !.switched = FALSE]
    OBVIOUS
  <1> HIDE DEF chosen
  <1>4. /\ chosen \in TreeKind /\ InlineAs(chosen, stopped) /\ chosen.shown = stopped.shown
        /\ chosen.switched = FALSE /\ chosen.chosen = tr.shown /\ chosen.scenes = stopped.scenes
    <2>1. stopped \in TreeKind /\ tr.shown \in BOOLEAN
      BY <1>2, <1>3
    <2> QED BY <2>1, <1>c DEF TreeKind, InlineAs
  <1> HIDE DEF r
  <1>5. /\ InlineAs(chosen, tr) /\ chosen.shown = tr.shown /\ OthersAs(chosen, tr, s)
        /\ s # None => IF tr.chosen THEN Stopped(chosen, tr, s) ELSE chosen.scenes = tr.scenes
    BY <1>2, <1>4 DEF InlineAs, TopAs, SwitchAs, OthersAs, Stopped, Scene1, Counts
  <1>6. CASE ~tr.switched
    <2>1. r = tr
      BY <1>1, <1>6
    <2>2. s # None => Composed(r, tr, s, FALSE, FALSE)
      BY <1>0, <2>1 DEF Composed, Counted, Counts, SceneKind
    <2>3. OthersAs(r, tr, s)
      BY <2>1 DEF OthersAs
    <2> QED BY <1>3, <1>6, <2>1, <2>2, <2>3 DEF r, s
  <1>7. CASE tr.switched /\ ~tr.shown
    <2>1. r = chosen
      BY <1>1, <1>7
    <2>2. s # None => Composed(r, tr, s, tr.chosen, FALSE)
      <3>1. CASE tr.chosen
        BY <1>0, <1>5, <2>1, <3>1 DEF Composed, Counted, Counts, SceneKind, Stopped, Scene1, Less
      <3>2. CASE ~tr.chosen
        BY <1>0, <1>5, <2>1, <3>2 DEF Composed, Counted, Counts, SceneKind
      <3> QED BY <3>1, <3>2
    <2> QED BY <1>3, <1>4, <1>5, <1>7, <2>1, <2>2 DEF InlineAs, r, s
  <1>8. CASE tr.switched /\ tr.shown
    <2>1. r = InlineStart(chosen)
      BY <1>1, <1>8
    <2>2. chosen.m_scene = s
      BY <1>5 DEF InlineAs
    <2> HIDE DEF s
    <2>3. /\ r \in TreeKind /\ SwitchAs(r, chosen) /\ OthersAs(r, chosen, s)
          /\ r.m_url = chosen.m_url /\ r.m_scene = s /\ r.m_initTime = chosen.m_initTime
          /\ r.m_state = chosen.m_state /\ r.created = chosen.created
          /\ r.m_isUpdated <=> (chosen.m_isUpdated \/ s = None)
          /\ s # None => Composed(r, chosen, s, FALSE, CanStart(chosen.scenes[s], decoders))
      BY <1>4, <2>1, <2>2, StartOfInline
    <2>4. s # None => /\ CanStart(chosen.scenes[s], decoders) <=> can
                      /\ Composed(r, tr, s, tr.chosen, can)
      <3> SUFFICES ASSUME s # None
                   PROVE  /\ CanStart(chosen.scenes[s], decoders) <=> can
                          /\ Composed(r, tr, s, tr.chosen, can)
        OBVIOUS
      <3>1. /\ chosen.scenes[s].m_decoder = tr.scenes[s].m_decoder
            /\ chosen.scenes[s].m_node = tr.scenes[s].m_node /\ chosen.scenes[s].sensor = tr.scenes[s].sensor
            /\ tr.chosen => Counts(chosen.scenes[s], Less(tr.scenes[s].starts), Less(tr.scenes[s].registered))
            /\ ~tr.chosen => Counts(chosen.scenes[s], tr.scenes[s].starts, tr.scenes[s].registered)
        <4>1. CASE tr.chosen
          BY <1>5, <4>1 DEF Stopped, Scene1
        <4>2. CASE ~tr.chosen
          BY <1>5, <4>2 DEF Counts
        <4> QED BY <4>1, <4>2
      <3>2. CanStart(chosen.scenes[s], decoders) <=> can
        BY <3>1 DEF CanStart, Data
      <3> HIDE DEF can
      <3>3. Composed(r, tr, s, tr.chosen, can)
        BY <2>3, <3>1, <3>2 DEF Composed, Counted, Counts
      <3> QED BY <3>2, <3>3
    <2>5. OthersAs(r, tr, s)
      BY <1>5, <2>3 DEF OthersAs
    <2>6. /\ r.shown = tr.shown /\ r.switched = FALSE /\ r.chosen = tr.shown
          /\ r.m_url = tr.m_url /\ r.m_initTime = tr.m_initTime
          /\ r.m_state = tr.m_state /\ r.created = tr.created
          /\ r.m_isUpdated <=> (tr.m_isUpdated \/ s = None)
      BY <1>4, <1>5, <2>3 DEF InlineAs, SwitchAs
    <2> HIDE DEF can
    <2>7. s # None => Composed(r, tr, s, tr.switched /\ tr.chosen, tr.switched /\ tr.shown /\ can)
      <3>1. (tr.switched /\ tr.chosen) = tr.chosen /\ (tr.switched /\ tr.shown /\ can) = can
        BY <1>3, <1>8 DEF can, CanStart
      <3> QED BY <2>4, <3>1
    <2> QED BY <1>3, <1>8, <2>3, <2>5, <2>6, <2>7 DEF r, s, can
  <1> QED
    BY <1>3, <1>6, <1>7, <1>8

LEMMA StopOfSwitch ==
  ASSUME NEW tr \in TreeKind
  PROVE  LET r == SwitchStop(tr)
             s == tr.m_scene
         IN /\ r \in TreeKind /\ InlineAs(r, tr) /\ OthersAs(r, tr, s) /\ r.chosen = FALSE
            /\ s # None => IF tr.chosen THEN Stopped(r, tr, s) ELSE r = tr
  <1> DEFINE r == SwitchStop(tr)
             s == tr.m_scene
             q == InlineStop(tr)
  <1>1. CASE ~tr.chosen
    <2>1. r = tr
      BY <1>1 DEF SwitchStop
    <2> QED BY <1>1, <2>1 DEF InlineAs, OthersAs, TreeKind
  <1>2. CASE tr.chosen
    <2>1. q \in TreeKind /\ TopAs(q, tr) /\ OthersAs(q, tr, s) /\ (s # None => Stopped(q, tr, s))
      BY StopOfInline
    <2>2. r = [q EXCEPT !.chosen = FALSE]
      BY <1>2 DEF SwitchStop
    <2> HIDE DEF q, r
    <2>3. r \in TreeKind /\ InlineAs(r, q) /\ r.chosen = FALSE /\ r.scenes = q.scenes
      BY <2>1, <2>2 DEF TreeKind, InlineAs
    <2>4. InlineAs(r, tr) /\ OthersAs(r, tr, s) /\ (s # None => Stopped(r, tr, s))
      BY <2>1, <2>3 DEF InlineAs, TopAs, OthersAs, Stopped, Scene1, Counts
    <2> QED BY <1>2, <2>3, <2>4 DEF r
  <1> QED
    BY <1>1, <1>2

\* A scene that is destroyed.
Destroyed(r, tr, s) ==
  /\ Counts(r.scenes[s], Less(tr.scenes[s].starts), Less(tr.scenes[s].registered))
  /\ r.scenes[s].m_decoder = tr.scenes[s].m_decoder /\ r.scenes[s].m_node = "destroyed"
  /\ r.scenes[s].sensor = tr.scenes[s].sensor

LEMMA DestroyOfInline ==
  ASSUME NEW tr \in TreeKind
  PROVE  LET r == InlineDestroy(tr)
             s == tr.m_scene
         IN /\ r \in TreeKind /\ SwitchAs(r, tr) /\ OthersAs(r, tr, s) /\ r.m_scene = None
            /\ r.m_url = tr.m_url /\ r.m_isUpdated = tr.m_isUpdated /\ r.m_state = tr.m_state
            /\ r.m_initTime = tr.m_initTime /\ r.created = tr.created
            /\ s # None => Destroyed(r, tr, s)
  <1> DEFINE r == InlineDestroy(tr)
             s == tr.m_scene
             q == SceneStop(tr, s)
  <1>1. CASE s = None
    <2>1. r = tr
      BY <1>1 DEF InlineDestroy
    <2> QED BY <1>1, <2>1 DEF SwitchAs, OthersAs
  <1>2. CASE s # None
    <2>0. s \in Scenes
      BY <1>2 DEF TreeKind
    <2>1. r = [q EXCEPT !.scenes[s].m_node = "destroyed", !.m_scene = None]
      BY <1>2 DEF InlineDestroy
    <2>2. q \in TreeKind /\ TopAs(q, tr) /\ OthersAs(q, tr, s) /\ Stopped(q, tr, s)
      BY <2>0, StopOfScene DEF Stopped, Scene1
    <2> HIDE DEF q, r, s
    <2> DEFINE v == [q.scenes[s] EXCEPT !.m_node = "destroyed"]
               X == [q.scenes EXCEPT ![s] = v]
    <2>3. q.scenes \in [Scenes -> SceneKind] /\ q.scenes[s] \in SceneKind
      BY <2>0, <2>2 DEF TreeKind
    <2>4. /\ v \in SceneKind /\ v.m_node = "destroyed" /\ v.m_decoder = q.scenes[s].m_decoder
          /\ v.starts = q.scenes[s].starts /\ v.registered = q.scenes[s].registered
          /\ v.sensor = q.scenes[s].sensor
      BY <2>3 DEF SceneKind
    <2>5. r = [q EXCEPT !.scenes = X, !.m_scene = None]
      BY <2>0, <2>1, <2>2, <2>3 DEF TreeKind
    <2> HIDE DEF v
    <2>6. X \in [Scenes -> SceneKind] /\ X[s] = v /\ \A x \in Scenes : x # s => X[x] = q.scenes[x]
      BY <2>0, <2>3, <2>4
    <2> HIDE DEF X
    <2>7. /\ r \in TreeKind /\ SwitchAs(r, q) /\ r.m_scene = None /\ r.scenes = X
          /\ r.m_url = q.m_url /\ r.m_isUpdated = q.m_isUpdated /\ r.m_state = q.m_state
          /\ r.m_initTime = q.m_initTime /\ r.created = q.created
      BY <2>2, <2>5, <2>6 DEF TreeKind, SwitchAs
    <2>8. OthersAs(r, tr, s) /\ Destroyed(r, tr, s)
      BY <2>0, <2>2, <2>4, <2>6, <2>7 DEF OthersAs, Destroyed, Stopped, Scene1, Counts
    <2> QED BY <2>2, <2>7, <2>8 DEF TopAs, InlineAs, SwitchAs, r, s
  <1> QED
    BY <1>1, <1>2

LEMMA ReloadOfInline ==
  ASSUME NEW tr \in TreeKind, tr.m_url = "empty" \/ tr.created # MaxScenes
  PROVE  LET r == Reload(tr)
             s == tr.m_scene
             n == NewScene(tr)
         IN /\ r \in TreeKind /\ SwitchAs(r, tr) /\ r.m_initTime = tr.m_initTime
            /\ r.m_isUpdated = FALSE
            /\ s # None /\ s # n => Destroyed(r, tr, s)
            /\ tr.m_url = "empty" => /\ r.m_scene = None /\ r.m_state = "CLOSED" /\ r.created = tr.created
                                     /\ OthersAs(r, tr, s)
            /\ tr.m_url # "empty" =>
                 /\ n \in Scenes /\ r.m_scene = n /\ r.m_state = "LOADING" /\ r.created = n
                 /\ \A x \in Scenes \ {s, n} : r.scenes[x] = tr.scenes[x]
                 /\ s # n => /\ Counts(r.scenes[n], tr.scenes[n].starts, tr.scenes[n].registered)
                             /\ r.scenes[n].m_decoder \in {Main, n}
                             /\ r.scenes[n].m_node = tr.scenes[n].m_node
                             /\ r.scenes[n].sensor = tr.scenes[n].sensor
  <1> DEFINE r == Reload(tr)
             s == tr.m_scene
             n == NewScene(tr)
             p == InlineDestroy(tr)
             gone == [p EXCEPT !.m_isUpdated = FALSE]
             d == IF tr.m_url = "embedded" /\ ~IsForeign(tr) THEN Main ELSE n
  <1>1. /\ p \in TreeKind /\ SwitchAs(p, tr) /\ OthersAs(p, tr, s) /\ p.m_scene = None
        /\ p.m_url = tr.m_url /\ p.m_isUpdated = tr.m_isUpdated /\ p.m_state = tr.m_state
        /\ p.m_initTime = tr.m_initTime /\ p.created = tr.created
        /\ s # None => Destroyed(p, tr, s)
    BY DestroyOfInline
  <1>2. r = IF tr.m_url = "empty" THEN [gone EXCEPT !.m_state = "CLOSED"]
            ELSE [gone EXCEPT !.m_state = "LOADING", !.m_scene = n, !.created = n,
                              !.scenes[n].m_decoder = d]
    BY DEF Reload
  <1>3. d \in {Main, n}
    OBVIOUS
  <1> HIDE DEF p, r, d
  <1>4. /\ gone \in TreeKind /\ SwitchAs(gone, p) /\ gone.scenes = p.scenes /\ gone.m_scene = None
        /\ gone.m_isUpdated = FALSE /\ gone.m_initTime = p.m_initTime /\ gone.created = p.created
    BY <1>1 DEF TreeKind, SwitchAs
  <1> HIDE DEF gone
  <1>5. /\ SwitchAs(gone, tr) /\ OthersAs(gone, tr, s) /\ gone.m_initTime = tr.m_initTime
        /\ gone.created = tr.created /\ (s # None => Destroyed(gone, tr, s))
    BY <1>1, <1>4 DEF SwitchAs, OthersAs, Destroyed, Counts
  <1>6. CASE tr.m_url = "empty"
    <2>1. r = [gone EXCEPT !.m_state = "CLOSED"]
      BY <1>2, <1>6
    <2>2. /\ r \in TreeKind /\ SwitchAs(r, gone) /\ r.scenes = gone.scenes /\ r.m_scene = None
          /\ r.m_isUpdated = gone.m_isUpdated /\ r.m_state = "CLOSED" /\ r.created = gone.created /\ r.m_initTime = gone.m_initTime
      BY <1>4, <2>1 DEF TreeKind, SwitchAs
    <2>3. SwitchAs(r, tr) /\ OthersAs(r, tr, s) /\ (s # None => Destroyed(r, tr, s))
      BY <1>5, <2>2 DEF SwitchAs, OthersAs, Destroyed, Counts
    <2> QED BY <1>4, <1>5, <1>6, <2>2, <2>3 DEF r
  <1>7. CASE tr.m_url # "empty"
    <2>0. n \in Scenes
      BY <1>7, InlineAssumption DEF TreeKind, Scenes, NewScene
    <2>1. r = [gone EXCEPT !.m_state = "LOADING", !.m_scene = n, !.created = n, !.scenes[n].m_decoder = d]
      BY <1>2, <1>7
    <2> HIDE DEF n
    <2> DEFINE v == [gone.scenes[n] EXCEPT !.m_decoder = d]
               X == [gone.scenes EXCEPT ![n] = v]
    <2>2. gone.scenes \in [Scenes -> SceneKind] /\ gone.scenes[n] \in SceneKind
      BY <1>4, <2>0 DEF TreeKind
    <2>3. /\ v \in SceneKind /\ v.m_decoder = d /\ v.m_node = gone.scenes[n].m_node
          /\ Counts(v, gone.scenes[n].starts, gone.scenes[n].registered) /\ v.sensor = gone.scenes[n].sensor
      BY <1>3, <2>0, <2>2 DEF SceneKind, Counts
    <2>4. r = [gone EXCEPT !.m_state = "LOADING", !.m_scene = n, !.created = n, !.scenes = X]
      BY <1>4, <2>0, <2>1, <2>2 DEF TreeKind
    <2> HIDE DEF v
    <2>5. X \in [Scenes -> SceneKind] /\ X[n] = v /\ \A x \in Scenes : x # n => X[x] = gone.scenes[x]
      BY <2>0, <2>2, <2>3
    <2> HIDE DEF X
    <2>6. n \in 0..MaxScenes
      BY <2>0 DEF Scenes
    <2>7. /\ r \in TreeKind /\ SwitchAs(r, gone) /\ r.scenes = X /\ r.m_scene = n
          /\ r.m_isUpdated = gone.m_isUpdated /\ r.m_state = "LOADING" /\ r.created = n /\ r.m_initTime = gone.m_initTime
      BY <1>4, <2>0, <2>4, <2>5, <2>6 DEF TreeKind, SwitchAs
    <2>8. SwitchAs(r, tr) /\ \A x \in Scenes \ {s, n} : r.scenes[x] = tr.scenes[x]
      BY <1>5, <2>5, <2>7 DEF SwitchAs, OthersAs
    <2>9. s # None /\ s # n => Destroyed(r, tr, s)
      <3>1. s # None => s \in Scenes
        BY DEF TreeKind
      <3> QED BY <1>5, <2>5, <2>7, <3>1 DEF Destroyed, Counts
    <2>a. s # n => /\ Counts(r.scenes[n], tr.scenes[n].starts, tr.scenes[n].registered)
                   /\ r.scenes[n].m_decoder \in {Main, n} /\ r.scenes[n].m_node = tr.scenes[n].m_node
                   /\ r.scenes[n].sensor = tr.scenes[n].sensor
      BY <1>3, <1>5, <2>0, <2>3, <2>5, <2>7 DEF OthersAs, Counts
    <2> QED BY <1>4, <1>5, <1>7, <2>0, <2>7, <2>8, <2>9, <2>a DEF r, n
  <1> QED
    BY <1>6, <1>7

-----------------------------------------------------------------------------
(* The sensor of a scene.                                                  *)

\* It is seen to be active from its start until its end has been told, and never with
\* a cycle of zero.
SensorTold(ts) ==
  /\ ts.isActive <=> (ts.m_started \/ ts.m_lastFrac < 0)
  /\ ts.m_started => ts.m_lastFrac >= 0
  /\ ts.cycleInterval = 0 => ~ts.m_started /\ ts.m_lastFrac >= 0

\* The sensor waits for its start, if there is one.
Quiet(ts) == ~ts.m_started /\ ts.m_lastFrac >= 0

LEMMA TimesOfSensor ==
  ASSUME NEW ts \in SensorType
  PROVE  /\ Restarted(ts) \in SensorType /\ FlagsAs(Restarted(ts), ts)
         /\ Restarted(ts).loop = ts.loop /\ Restarted(ts).stopTime = ts.stopTime
  BY DEF Restarted, SensorType, FlagsAs

LEMMA ActivationOfSensor ==
  ASSUME NEW ts \in SensorType, NEW t \in Nat, ~Throws(ts, t), SensorTold(ts)
  PROVE  LET a == activate(ts, t)
         IN /\ a \in SensorType /\ SensorTold(a)
            /\ a.cycleInterval = ts.cycleInterval
            /\ ts.cycleInterval = 0 => a = ts
            /\ ~Notifies(ts, t) => a = ts /\ Quiet(ts)
  <1> DEFINE a == activate(ts, t)
             q == Restarted(ts)
             f == getFraction(q, t)
             yes == TRUE
             no == FALSE
             zero == 0
             minus == -1
             Good(x) == /\ x \in SensorType /\ SensorTold(x)
                        /\ x.cycleInterval = ts.cycleInterval
                        /\ ts.cycleInterval = 0 => x = ts
                        /\ ~Notifies(ts, t) => x = ts /\ Quiet(ts)
  <1>0. SUFFICES Good(a)
    OBVIOUS
  <1>1. q \in SensorType /\ FlagsAs(q, ts)
    BY TimesOfSensor
  <1>a. yes \in BOOLEAN /\ no \in BOOLEAN /\ zero \in Int /\ minus \in Int
    OBVIOUS
  <1>2. CASE ts.m_started /\ isDesactivable(q, t)
    <2>1. a = [q EXCEPT !.m_started = FALSE, !.m_lastFrac = -1]
      BY <1>2 DEF activate
    <2> HIDE DEF q, a
    <2>2. a \in SensorType
      <3>1. a = [q EXCEPT !.m_started = no, !.m_lastFrac = minus]
        BY <2>1
      <3> HIDE DEF no, minus
      <3> QED BY <1>1, <1>a, <3>1 DEF SensorType
    <2>3. a.m_started = FALSE /\ a.m_lastFrac = -1 /\ a.isActive = q.isActive /\ a.cycleInterval = q.cycleInterval
      BY <1>1, <2>1 DEF SensorType
    <2>4. a.m_lastFrac < 0
      BY <2>3
    <2> QED BY <1>1, <1>2, <2>2, <2>3, <2>4 DEF SensorTold, FlagsAs, Notifies
  <1>3. CASE ts.m_started /\ ~isDesactivable(q, t)
    <2>1. a = [q EXCEPT !.m_lastFrac = f]
      BY <1>3 DEF activate
    <2>2. f \in Nat
      <3>1. q.m_baseTime \in Nat /\ q.cycleInterval \in Nat \ {0}
        BY <1>1, <1>3 DEF SensorTold, SensorType, FlagsAs
      <3> HIDE DEF q
      <3> QED BY <3>1 DEF getFraction
    <2>3. ts.cycleInterval # 0
      BY <1>3 DEF SensorTold
    <2> HIDE DEF q, a, f
    <2>4. /\ a \in SensorType /\ (a.m_started <=> q.m_started) /\ a.m_lastFrac >= 0 /\ (a.isActive <=> q.isActive)
          /\ a.cycleInterval = q.cycleInterval
      BY <1>1, <2>1, <2>2 DEF SensorType
    <2>5. ~(a.m_lastFrac < 0)
      BY <2>4 DEF SensorType
    <2>6. SensorTold(a)
      BY <1>1, <1>3, <2>3, <2>4, <2>5 DEF SensorTold, FlagsAs
    <2> QED BY <1>1, <1>3, <2>3, <2>4, <2>6 DEF FlagsAs, Notifies
  <1>4. CASE ~ts.m_started /\ ts.m_lastFrac < 0
    <2>0. ~(ts.m_lastFrac >= 0)
      BY <1>4 DEF SensorType
    <2>1. a = [ts EXCEPT !.isActive = FALSE, !.m_lastFrac = 0]
      BY <1>4, <2>0 DEF activate
    <2> HIDE DEF q, a
    <2>2. a \in SensorType
      <3>1. a = [ts EXCEPT !.isActive = no, !.m_lastFrac = zero]
        BY <2>1
      <3> HIDE DEF no, zero
      <3> QED BY <1>a, <3>1 DEF SensorType
    <2>3. a.m_started = ts.m_started /\ a.isActive = FALSE /\ a.m_lastFrac = 0 /\ a.cycleInterval = ts.cycleInterval
      BY <2>1 DEF SensorType
    <2>4. ts.cycleInterval # 0
      BY <1>4, <2>0 DEF SensorTold
    <2> QED BY <1>4, <2>2, <2>3, <2>4 DEF SensorTold, Notifies
  <1>5. CASE ~ts.m_started /\ ts.m_lastFrac >= 0 /\ isActivable(ts, t)
    <2>0. ~(ts.m_lastFrac < 0)
      BY <1>5 DEF SensorType
    <2>1. a = [ts EXCEPT !.m_started = TRUE, !.m_baseTime = t, !.m_lastFrac = 0, !.isActive = TRUE]
      BY <1>5, <2>0 DEF activate
    <2> HIDE DEF q, a
    <2>2. a \in SensorType
      <3>1. a = [ts EXCEPT !.m_started = yes, !.m_baseTime = t, !.m_lastFrac = zero, !.isActive = yes]
        BY <2>1
      <3> HIDE DEF yes, zero
      <3> QED BY <1>a, <3>1 DEF SensorType
    <2>3. a.m_started = TRUE /\ a.isActive = TRUE /\ a.m_lastFrac = 0 /\ a.cycleInterval = ts.cycleInterval
      BY <2>1 DEF SensorType
    <2> QED BY <1>5, <2>2, <2>3 DEF SensorTold, Notifies, Throws
  <1>6. CASE ~ts.m_started /\ ts.m_lastFrac >= 0 /\ ~isActivable(ts, t)
    <2>0. ~(ts.m_lastFrac < 0)
      BY <1>6 DEF SensorType
    <2>1. a = ts
      BY <1>6, <2>0 DEF activate
    <2> HIDE DEF q, a
    <2>2. a \in SensorType /\ a.cycleInterval = ts.cycleInterval /\ ~a.m_started
      BY <1>6, <2>1
    <2>3. Quiet(ts) /\ SensorTold(a)
      BY <1>6, <2>1 DEF Quiet
    <2> QED BY <2>1, <2>2, <2>3
  <1> QED
    BY <1>2, <1>3, <1>4, <1>5, <1>6 DEF SensorType

\* A sensor that is registered twice is activated twice in a frame.
LEMMA ActivationsOfSensor ==
  ASSUME NEW ts \in SensorType, NEW t \in Nat, NEW n \in 0..2, n = 0 \/ ~Throws(ts, t), SensorTold(ts)
  PROVE  LET a == Activated(ts, t, n)
         IN /\ a \in SensorType /\ SensorTold(a)
            /\ n > 0 /\ ~Notifies(ts, t) => Quiet(a)
  <1> DEFINE a == activate(ts, t)
  <1>1. CASE n = 0
    BY <1>1 DEF Activated
  <1>2. CASE n > 0
    <2>0. ~Throws(ts, t) /\ (ts.cycleInterval = 0 \/ ts.cycleInterval # 0)
      BY <1>2
    <2>1. /\ a \in SensorType /\ SensorTold(a) /\ a.cycleInterval = ts.cycleInterval
          /\ ts.cycleInterval = 0 => a = ts
          /\ ~Notifies(ts, t) => a = ts /\ Quiet(ts)
      BY <2>0, ActivationOfSensor
    <2>2. CASE n = 1
      <3>1. Activated(ts, t, n) = a
        BY <2>2 DEF Activated
      <3> HIDE DEF a
      <3> QED BY <2>1, <3>1
    <2>3. CASE n = 2
      <3>1. Activated(ts, t, n) = activate(a, t)
        BY <2>3 DEF Activated
      <3> HIDE DEF a
      <3>2. ~Throws(a, t)
        BY <2>0, <2>1 DEF Throws
      <3>3. /\ activate(a, t) \in SensorType /\ SensorTold(activate(a, t))
            /\ ~Notifies(a, t) => activate(a, t) = a
        BY <2>1, <3>2, ActivationOfSensor
      <3> QED BY <2>1, <3>1, <3>3
    <2> QED BY <1>2, <2>2, <2>3
  <1> QED
    BY <1>1, <1>2

\* What Inline.compose makes of an Inline before its scene is composed: the scene has
\* been made ready and is started, or its state is another.
Readied(r, tr, t) ==
  /\ tr.m_state = "LOADING" /\ StateOf(tr, tr.m_scene) = "LOADED"
  /\ r.m_state = "READY" /\ r.m_initTime = t
  /\ tr.m_scene \in Scenes /\ CanStart(tr.scenes[tr.m_scene], decoders)
       => Composed(r, tr, tr.m_scene, FALSE, TRUE)
Unreadied(r, tr) ==
  /\ r.scenes = tr.scenes /\ r.m_initTime = tr.m_initTime
  /\ r.m_state \in {tr.m_state, "CLOSED", "ERROR"}
  /\ tr.m_state \in {"CLOSED", "READY"} => r.m_state = tr.m_state
  /\ r.m_state \in {"LOADING", "ERROR"} => tr.m_state = "LOADING"

LEMMA ReadyOfInline ==
  ASSUME NEW tr \in TreeKind, NEW t \in Nat, tr.m_state = "LOADING" => tr.m_scene # None
  PROVE  LET r == Ready(tr, t)
         IN /\ r \in TreeKind /\ SwitchAs(r, tr) /\ OthersAs(r, tr, tr.m_scene)
            /\ r.m_url = tr.m_url /\ r.m_isUpdated = tr.m_isUpdated
            /\ r.m_scene = tr.m_scene /\ r.created = tr.created
            /\ Readied(r, tr, t) \/ Unreadied(r, tr)
  <1> DEFINE r == Ready(tr, t)
             s == tr.m_scene
             Good == /\ r \in TreeKind /\ SwitchAs(r, tr) /\ OthersAs(r, tr, s)
                     /\ r.m_url = tr.m_url /\ r.m_isUpdated = tr.m_isUpdated
                     /\ r.m_scene = s /\ r.created = tr.created
                     /\ Readied(r, tr, t) \/ Unreadied(r, tr)
  <1>0. SUFFICES Good
    OBVIOUS
  <1>1. CASE tr.m_state = "ERROR"
    <2>1. r = [tr EXCEPT !.m_state = "CLOSED"]
      BY <1>1 DEF Ready
    <2> HIDE DEF r, s
    <2>2. /\ r \in TreeKind /\ SwitchAs(r, tr) /\ r.scenes = tr.scenes /\ r.m_url = tr.m_url
          /\ r.m_isUpdated = tr.m_isUpdated /\ r.m_scene = tr.m_scene /\ r.created = tr.created
          /\ r.m_initTime = tr.m_initTime /\ r.m_state = "CLOSED"
      BY <2>1 DEF TreeKind, SwitchAs
    <2> QED BY <1>1, <2>2 DEF OthersAs, Unreadied, s
  <1>2. CASE tr.m_state = "LOADING" /\ StateOf(tr, s) = "LOADED"
    <2>0. s \in Scenes /\ tr.scenes[s] \in SceneKind
      BY <1>2 DEF TreeKind
    <2> DEFINE q == [tr EXCEPT !.m_initTime = t, !.m_state = "READY"]
    <2>1. r = SceneStart(q, s)
      BY <1>2 DEF Ready
    <2>2. /\ q \in TreeKind /\ SwitchAs(q, tr) /\ q.scenes = tr.scenes /\ q.m_url = tr.m_url
          /\ q.m_isUpdated = tr.m_isUpdated /\ q.m_scene = tr.m_scene /\ q.created = tr.created
          /\ q.m_initTime = t /\ q.m_state = "READY"
      BY DEF TreeKind, SwitchAs
    <2> HIDE DEF q, r, s
    <2>3. /\ r \in TreeKind /\ TopAs(r, q) /\ OthersAs(r, q, s)
          /\ r.scenes[s].m_decoder = q.scenes[s].m_decoder
          /\ CanStart(q.scenes[s], decoders) =>
               /\ Counts(r.scenes[s], q.scenes[s].starts + 1, q.scenes[s].registered + 1)
               /\ r.scenes[s].m_node = "decoded" /\ r.scenes[s].sensor = start(q.scenes[s].sensor)
      BY <2>0, <2>1, <2>2, StartOfScene
    <2>4. CanStart(tr.scenes[s], decoders) => Composed(r, tr, s, FALSE, TRUE)
      BY <2>0, <2>2, <2>3 DEF Composed, Counted, Counts, SceneKind
    <2>5. /\ SwitchAs(r, tr) /\ OthersAs(r, tr, s) /\ r.m_url = tr.m_url /\ r.m_isUpdated = tr.m_isUpdated
          /\ r.m_scene = tr.m_scene /\ r.created = tr.created /\ r.m_initTime = t /\ r.m_state = "READY"
      BY <2>2, <2>3 DEF TopAs, InlineAs, SwitchAs, OthersAs
    <2>6. Readied(r, tr, t)
      BY <1>2, <2>4, <2>5 DEF Readied, s
    <2> QED BY <2>3, <2>5, <2>6 DEF s
  <1>3. CASE tr.m_state = "LOADING" /\ StateOf(tr, s) = "ERROR"
    <2>1. r = [tr EXCEPT !.m_state = "ERROR"]
      BY <1>3 DEF Ready
    <2> HIDE DEF r, s
    <2>2. /\ r \in TreeKind /\ SwitchAs(r, tr) /\ r.scenes = tr.scenes /\ r.m_url = tr.m_url
          /\ r.m_isUpdated = tr.m_isUpdated /\ r.m_scene = tr.m_scene /\ r.created = tr.created
          /\ r.m_initTime = tr.m_initTime /\ r.m_state = "ERROR"
      BY <2>1 DEF TreeKind, SwitchAs
    <2> QED BY <1>3, <2>2 DEF OthersAs, Unreadied, s
  <1>4. CASE /\ tr.m_state # "ERROR"
             /\ ~(tr.m_state = "LOADING" /\ StateOf(tr, s) = "LOADED")
             /\ ~(tr.m_state = "LOADING" /\ StateOf(tr, s) = "ERROR")
    <2>1. r = tr
      BY <1>4 DEF Ready
    <2> HIDE DEF r
    <2> QED BY <1>4, <2>1 DEF OthersAs, SwitchAs, Unreadied
  <1> QED
    BY <1>1, <1>2, <1>3, <1>4

\* A tree where only the sensor of a scene is another.
Sensed(r, tr, s, ts) ==
  /\ TopAs(r, tr) /\ r.decoder = tr.decoder /\ OthersAs(r, tr, s)
  /\ Counts(r.scenes[s], tr.scenes[s].starts, tr.scenes[s].registered)
  /\ r.scenes[s].m_decoder = tr.scenes[s].m_decoder /\ r.scenes[s].m_node = tr.scenes[s].m_node
  /\ r.scenes[s].sensor = ts

LEMMA SetSensor ==
  ASSUME NEW tr \in TreeKind, NEW s \in Scenes, NEW ts \in SensorType
  PROVE  LET r == [tr EXCEPT !.scenes[s].sensor = ts]
         IN r \in TreeKind /\ Sensed(r, tr, s, ts)
  <1> DEFINE r == [tr EXCEPT !.scenes[s].sensor = ts]
             v == [tr.scenes[s] EXCEPT !.sensor = ts]
             X == [tr.scenes EXCEPT ![s] = v]
  <1>1. tr.scenes \in [Scenes -> SceneKind] /\ tr.scenes[s] \in SceneKind
    BY DEF TreeKind
  <1>2. /\ v \in SceneKind /\ v.sensor = ts /\ Counts(v, tr.scenes[s].starts, tr.scenes[s].registered)
        /\ v.m_decoder = tr.scenes[s].m_decoder /\ v.m_node = tr.scenes[s].m_node
    BY <1>1 DEF SceneKind, Counts
  <1>3. r = [tr EXCEPT !.scenes = X]
    BY <1>1 DEF TreeKind
  <1> HIDE DEF v, r
  <1>4. X \in [Scenes -> SceneKind] /\ X[s] = v /\ \A x \in Scenes : x # s => X[x] = tr.scenes[x]
    BY <1>1, <1>2
  <1> HIDE DEF X
  <1>5. r \in TreeKind /\ TopAs(r, tr) /\ r.decoder = tr.decoder /\ r.scenes = X
    BY <1>3, <1>4, SetScenes
  <1> QED
    <2>1. Sensed(r, tr, s, ts)
      BY <1>2, <1>4, <1>5 DEF Sensed, OthersAs, Counts
    <2> QED BY <1>5, <2>1 DEF r

-----------------------------------------------------------------------------
(* The starts of the scenes.                                               *)

RunsIn(tr, s) == tr.chosen /\ tr.m_scene = s /\ tr.m_state = "READY"

\* A scene is started at most once when it is shown, and once when it gets ready; one
\* that has been left by its Inline, at most once.
MostStarts(tr, s) ==
  IF tr.m_scene # s THEN 1
  ELSE (IF tr.chosen THEN 1 ELSE 0) + (IF tr.m_state = "READY" THEN 1 ELSE 0)

\* What holds for a scene with the threads dec and the windows win.
SceneInv(tr, dec, win, s) ==
  LET sc == tr.scenes[s] IN
  /\ s > tr.created => sc.starts = 0 /\ sc.m_node = "none"
  /\ sc.m_decoder \in {Main, s}
  /\ sc.m_node = "decoded" => Data(sc, dec)
  /\ tr.m_scene = s /\ tr.m_state = "READY" => sc.m_node = "decoded"
  /\ sc.registered = sc.starts
  /\ sc.starts <= MostStarts(tr, s)
  /\ RunsIn(tr, s) => sc.starts >= 1
  /\ "early" \in win \/ sc.starts = (IF RunsIn(tr, s) THEN 1 ELSE 0)
  /\ SensorTold(sc.sensor)

\* The Inline has a scene while it loads or shows one, and all of them are created.
InlineInv(tr, ph) ==
  /\ tr.m_scene <= tr.created
  /\ ph # "left" /\ tr.m_state \in {"LOADING", "READY"} => tr.m_scene # None

\* What has been loaded has been read.
DecodersInv(dec) ==
  dec \in [Scenes -> DecoderType] /\ \A s \in Scenes : dec[s].m_state = "LOADED" => dec[s].read

\* Data that has been read stays.
LEMMA DataStays ==
  ASSUME NEW tr, NEW dec, NEW dek, NEW win, NEW wim, NEW s, SceneInv(tr, dec, win, s),
         dec[s].read => dek[s].read, "early" \in win => "early" \in wim
  PROVE  SceneInv(tr, dek, wim, s)
  BY DEF SceneInv, Data

\* Another tree with the same scene.
LEMMA SceneStays ==
  ASSUME NEW tr, NEW r, NEW dec, NEW win, NEW s, SceneInv(tr, dec, win, s),
         r.m_scene = tr.m_scene, r.m_state = tr.m_state, r.created = tr.created, r.chosen <=> tr.chosen,
         r.scenes[s] = tr.scenes[s]
  PROVE  SceneInv(r, dec, win, s)
  BY DEF SceneInv, MostStarts, RunsIn

\* Another scene is shown, or created: this one has not been started.
LEMMA SceneLeft ==
  ASSUME NEW tr, NEW r, NEW dec, NEW win, NEW s, SceneInv(tr, dec, win, s),
         r.m_scene # s, tr.m_scene # s, s > r.created => s > tr.created,
         r.scenes[s] = tr.scenes[s]
  PROVE  SceneInv(r, dec, win, s)
  BY DEF SceneInv, MostStarts, RunsIn

LEMMA ScenesSwitched ==
  ASSUME NEW tr \in TreeKind, NEW s \in Scenes, NEW dec, dec = decoders, NEW win, SceneInv(tr, dec, win, s),
         tr.m_scene = s, tr.m_scene <= tr.created,
         tr.switched /\ tr.shown /\ StartsEarly(tr) => "early" \in win
  PROVE  SceneInv(SwitchCompose(tr), dec, win, s)
  <1> DEFINE r == SwitchCompose(tr)
             sc == tr.scenes[s]
             can == CanStart(sc, decoders)
             starts == tr.switched /\ tr.shown /\ can
             stops == tr.switched /\ tr.chosen
  <1>1. /\ r \in TreeKind /\ r.shown = tr.shown /\ r.switched = FALSE
        /\ r.chosen <=> IF tr.switched THEN tr.shown ELSE tr.chosen
        /\ r.m_scene = s /\ r.m_state = tr.m_state /\ r.created = tr.created
        /\ Composed(r, tr, s, stops, starts)
    <2>1. s # None
      BY DEF Scenes, None
    <2> QED BY <2>1, ComposeOfSwitch
  <1>2. sc \in SceneKind /\ sc.starts \in Nat /\ s \in Nat /\ tr.created \in Nat
    <2>1. sc \in SceneKind
      BY DEF TreeKind
    <2>2. s \in Nat /\ tr.created \in Nat
      BY InlineAssumption DEF TreeKind, Scenes
    <2> HIDE DEF sc
    <2> QED BY <2>1, <2>2 DEF SceneKind
  <1>3. tr.shown \in BOOLEAN /\ tr.switched \in BOOLEAN /\ tr.chosen \in BOOLEAN
    BY DEF TreeKind
  <1>4. can <=> Data(sc, dec)
    BY DEF SceneInv, CanStart
  <1>5. tr.m_state = "READY" => can
    BY DEF SceneInv, CanStart
  <1>6. tr.switched /\ tr.shown /\ tr.m_state # "READY" /\ can => "early" \in win
    <2>1. can => HasData(tr, s)
      BY <1>4 DEF Data, HasData
    <2> QED BY <2>1 DEF StartsEarly, Scenes, None
  <1> HIDE DEF r, can
  <1>7. /\ r.scenes[s].starts = Counted(sc.starts, stops, starts)
        /\ r.scenes[s].registered = Counted(sc.registered, stops, starts)
        /\ r.scenes[s].m_decoder = sc.m_decoder
        /\ r.scenes[s].m_node = IF starts THEN "decoded" ELSE sc.m_node
        /\ r.scenes[s].sensor = IF starts THEN start(sc.sensor) ELSE sc.sensor
    BY <1>1 DEF Composed, Counts
  <1>8. SensorTold(r.scenes[s].sensor)
    <2>1. SensorTold(sc.sensor) /\ sc.sensor \in SensorType
      BY <1>2 DEF SceneInv, SceneKind
    <2>2. SensorTold(start(sc.sensor))
      BY <2>1, StartOfSensor DEF SensorTold, FlagsAs
    <2> QED BY <1>7, <2>1, <2>2
  <1>9. ~(s > r.created) /\ r.scenes[s].m_decoder \in {Main, s}
    BY <1>1, <1>2, <1>7 DEF SceneInv
  <1>a. r.scenes[s].m_node = "decoded" => Data(r.scenes[s], dec)
    BY <1>4, <1>7 DEF SceneInv, Data
  <1>b. r.m_state = "READY" => r.scenes[s].m_node = "decoded"
    BY <1>1, <1>7 DEF SceneInv
  <1>c. /\ r.scenes[s].registered = r.scenes[s].starts
        /\ r.scenes[s].starts <= MostStarts(r, s)
        /\ RunsIn(r, s) => r.scenes[s].starts >= 1
        /\ "early" \in win \/ r.scenes[s].starts = (IF RunsIn(r, s) THEN 1 ELSE 0)
    <2>1. /\ sc.registered = sc.starts /\ sc.starts <= MostStarts(tr, s)
          /\ RunsIn(tr, s) => sc.starts >= 1
          /\ "early" \in win \/ sc.starts = (IF RunsIn(tr, s) THEN 1 ELSE 0)
      BY DEF SceneInv
    <2>2. CASE ~tr.switched
      BY <1>1, <1>2, <1>3, <1>7, <2>1, <2>2 DEF MostStarts, RunsIn, Counted
    <2>3. CASE tr.switched /\ ~tr.shown
      BY <1>1, <1>2, <1>3, <1>7, <2>1, <2>3 DEF MostStarts, RunsIn, Counted, Less
    <2>4. CASE tr.switched /\ tr.shown
      BY <1>1, <1>2, <1>3, <1>5, <1>6, <1>7, <2>1, <2>4 DEF MostStarts, RunsIn, Counted, Less
    <2> QED BY <1>3, <2>2, <2>3, <2>4
  <1> QED
    BY <1>8, <1>9, <1>a, <1>b, <1>c DEF SceneInv, r

\* A scene that its Inline stops, and one that it destroys.
LEMMA SceneStopped ==
  ASSUME NEW tr \in TreeKind, NEW s \in Scenes, NEW dec, NEW win, SceneInv(tr, dec, win, s),
         tr.m_scene = s
  PROVE  SceneInv(SwitchStop(tr), dec, win, s)
  <1> DEFINE r == SwitchStop(tr)
             sc == tr.scenes[s]
  <1>0. SUFFICES SceneInv(r, dec, win, s)
    OBVIOUS
  <1>1. /\ r \in TreeKind /\ InlineAs(r, tr) /\ r.chosen = FALSE
        /\ IF tr.chosen THEN Stopped(r, tr, s) ELSE r = tr
    <2>1. s # None
      BY DEF Scenes, None
    <2> QED BY <2>1, StopOfSwitch
  <1>2. sc \in SceneKind
    BY DEF TreeKind
  <1> HIDE DEF r
  <1>3. CASE ~tr.chosen
    BY <1>1, <1>3
  <1>4. CASE tr.chosen
    <2>1. /\ r.scenes[s].starts = Less(sc.starts) /\ r.scenes[s].registered = Less(sc.registered)
          /\ r.scenes[s].m_decoder = sc.m_decoder /\ r.scenes[s].m_node = sc.m_node
          /\ r.scenes[s].sensor = sc.sensor
      BY <1>1, <1>4 DEF Stopped, Scene1, Counts
    <2>2. r.m_scene = s /\ r.m_state = tr.m_state /\ r.created = tr.created
      BY <1>1 DEF InlineAs
    <2>3. sc.starts \in Nat /\ sc.starts = sc.registered
      BY <1>2 DEF SceneInv, SceneKind
    <2>4. /\ r.scenes[s].registered = r.scenes[s].starts
          /\ r.scenes[s].starts <= MostStarts(r, s)
          /\ "early" \in win \/ r.scenes[s].starts = 0
      <3>1. /\ sc.starts <= MostStarts(tr, s)
            /\ "early" \in win \/ sc.starts = (IF RunsIn(tr, s) THEN 1 ELSE 0)
        BY DEF SceneInv
      <3> QED BY <1>1, <1>4, <2>1, <2>2, <2>3, <3>1 DEF MostStarts, RunsIn, Less
    <2>5. s > r.created => r.scenes[s].starts = 0 /\ r.scenes[s].m_node = "none"
      BY <2>1, <2>2 DEF SceneInv, Less
    <2>6. /\ r.scenes[s].m_decoder \in {Main, s}
          /\ r.scenes[s].m_node = "decoded" => Data(r.scenes[s], dec)
          /\ r.m_state = "READY" => r.scenes[s].m_node = "decoded"
          /\ SensorTold(r.scenes[s].sensor)
      BY <2>1, <2>2 DEF SceneInv, Data
    <2>7. ~RunsIn(r, s)
      BY <1>1 DEF RunsIn
    <2> QED BY <2>4, <2>5, <2>6, <2>7 DEF SceneInv
  <1> QED
    BY <1>3, <1>4

LEMMA SceneDestroyed ==
  ASSUME NEW tr \in TreeKind, NEW r, NEW s \in Scenes, NEW dec, NEW win, SceneInv(tr, dec, win, s),
         tr.m_scene = s, Destroyed(r, tr, s), r.m_scene # s, tr.m_scene <= tr.created, r.created \in Nat,
         tr.created <= r.created
  PROVE  SceneInv(r, dec, win, s)
  <1> DEFINE sc == tr.scenes[s]
             rc == r.scenes[s]
  <1>1. sc \in SceneKind /\ s \in Nat /\ tr.created \in Nat
    BY InlineAssumption DEF TreeKind, Scenes
  <1>2. /\ rc.starts = Less(sc.starts) /\ rc.registered = Less(sc.registered)
        /\ rc.m_decoder = sc.m_decoder /\ rc.m_node = "destroyed" /\ rc.sensor = sc.sensor
    BY DEF Destroyed, Counts
  <1>3. sc.starts \in Nat /\ sc.registered = sc.starts
    BY <1>1 DEF SceneKind, SceneInv
  <1>4. rc.registered = rc.starts /\ rc.starts <= 1 /\ ("early" \in win \/ rc.starts = 0)
    <2>1. /\ sc.starts <= MostStarts(tr, s)
          /\ "early" \in win \/ sc.starts = (IF RunsIn(tr, s) THEN 1 ELSE 0)
      BY DEF SceneInv
    <2> HIDE DEF sc, rc
    <2> QED BY <1>2, <1>3, <2>1 DEF MostStarts, Less
  <1>5. ~RunsIn(r, s) /\ MostStarts(r, s) = 1 /\ ~(s > r.created)
    BY <1>1 DEF RunsIn, MostStarts
  <1>6. rc.m_decoder \in {Main, s} /\ SensorTold(rc.sensor)
    BY <1>2 DEF SceneInv
  <1> QED
    BY <1>2, <1>4, <1>5, <1>6 DEF SceneInv

\* A scene that is created.
LEMMA SceneCreated ==
  ASSUME NEW tr \in TreeKind, NEW r, NEW s \in Scenes, NEW dec, NEW win, SceneInv(tr, dec, win, s),
         s = NewScene(tr), tr.m_scene # s, r.m_scene = s, r.m_state = "LOADING", r.created = s,
         Counts(r.scenes[s], tr.scenes[s].starts, tr.scenes[s].registered),
         r.scenes[s].m_decoder \in {Main, s}, r.scenes[s].m_node = tr.scenes[s].m_node,
         r.scenes[s].sensor = tr.scenes[s].sensor, NEW dek, NEW wim
  PROVE  SceneInv(r, dek, wim, s)
  <1>1. s \in Nat /\ tr.created \in Nat /\ s > tr.created
    BY InlineAssumption DEF TreeKind, Scenes, NewScene
  <1>2. /\ tr.scenes[s].starts = 0 /\ tr.scenes[s].registered = 0 /\ tr.scenes[s].m_node = "none"
        /\ SensorTold(tr.scenes[s].sensor)
    BY <1>1 DEF SceneInv
  <1>3. /\ r.scenes[s].starts = 0 /\ r.scenes[s].registered = 0 /\ r.scenes[s].m_node = "none"
    BY <1>2 DEF Counts
  <1>4. ~RunsIn(r, s) /\ 0 <= MostStarts(r, s) /\ ~(s > r.created)
    BY <1>1 DEF RunsIn, MostStarts
  <1> QED
    BY <1>2, <1>3, <1>4 DEF SceneInv

\* A scene that gets ready, or whose Inline is closed.
LEMMA SceneReadied ==
  ASSUME NEW tr \in TreeKind, NEW t \in Nat, NEW s \in Scenes, NEW dec, dec = decoders, NEW win,
         SceneInv(tr, dec, win, s), DecodersInv(dec),
         tr.m_scene = s, tr.chosen, tr.m_scene <= tr.created
  PROVE  SceneInv(Ready(tr, t), dec, win, s)
  <1> DEFINE r == Ready(tr, t)
             sc == tr.scenes[s]
  <1> SUFFICES SceneInv(r, dec, win, s)
    OBVIOUS
  <1>0. sc \in SceneKind /\ s # None
    <2>1. sc \in SceneKind
      BY DEF TreeKind
    <2>2. s # None
      BY DEF Scenes, None
    <2> QED BY <2>1, <2>2
  <1>1. /\ r \in TreeKind /\ SwitchAs(r, tr) /\ r.m_scene = s /\ r.created = tr.created
        /\ Readied(r, tr, t) \/ Unreadied(r, tr)
    BY <1>0, ReadyOfInline
  <1>2. /\ sc.starts \in Nat /\ sc.sensor \in SensorType /\ SensorTold(sc.sensor) /\ sc.m_decoder \in {Main, s}
        /\ sc.registered = sc.starts /\ sc.starts <= MostStarts(tr, s)
        /\ "early" \in win \/ sc.starts = (IF RunsIn(tr, s) THEN 1 ELSE 0)
    BY <1>0 DEF SceneInv, SceneKind
  <1> HIDE DEF r, sc
  <1>3. CASE Unreadied(r, tr)
    <2> USE DEF sc
    <2>1. r.scenes[s] = sc /\ (r.m_state = "READY" <=> tr.m_state = "READY") /\ (r.chosen <=> tr.chosen)
      BY <1>1, <1>3 DEF Unreadied, SwitchAs, TreeKind
    <2>2. MostStarts(r, s) = MostStarts(tr, s) /\ (RunsIn(r, s) <=> RunsIn(tr, s))
      BY <1>1, <2>1 DEF MostStarts, RunsIn
    <2> QED BY <1>1, <2>1, <2>2 DEF SceneInv
  <1>4. CASE Readied(r, tr, t)
    <2>1. Data(sc, dec)
      <3>1. s = sc.m_decoder => decoders[s].m_state = "LOADED"
        BY <1>0, <1>4 DEF Readied, StateOf, None, Main, sc
      <3>2. decoders[s].m_state = "LOADED" => dec[s].read
        BY DEF DecodersInv
      <3> QED BY <1>2, <3>1, <3>2 DEF Data
    <2>2. Composed(r, tr, s, FALSE, TRUE) /\ r.m_state = "READY" /\ tr.m_state = "LOADING"
      BY <1>4, <2>1 DEF Readied, CanStart, sc
    <2>3. /\ r.scenes[s].starts = sc.starts + 1 /\ r.scenes[s].registered = sc.starts + 1
          /\ r.scenes[s].m_decoder = sc.m_decoder /\ r.scenes[s].m_node = "decoded"
          /\ r.scenes[s].sensor = start(sc.sensor)
      BY <1>2, <2>2 DEF Composed, Counts, Counted, sc
    <2>4. SensorTold(r.scenes[s].sensor)
      BY <1>2, <2>3, StartOfSensor DEF SensorTold, FlagsAs
    <2>5. r.chosen
      BY <1>1 DEF SwitchAs
    <2>6. /\ r.scenes[s].starts <= MostStarts(r, s)
          /\ "early" \in win \/ r.scenes[s].starts = 1
          /\ r.scenes[s].starts >= 1 /\ RunsIn(r, s)
      BY <1>1, <1>2, <2>2, <2>3, <2>5 DEF MostStarts, RunsIn
    <2>7. s > r.created => FALSE
      <3>1. s \in Nat /\ tr.created \in Nat
        BY InlineAssumption DEF TreeKind, Scenes
      <3> QED BY <1>1, <3>1
    <2> QED BY <1>2, <2>1, <2>3, <2>4, <2>6, <2>7 DEF SceneInv, Data, r
  <1> QED
    BY <1>1, <1>3, <1>4

\* Another sensor that tells its end.
LEMMA SceneSensed ==
  ASSUME NEW tr \in TreeKind, NEW r, NEW x \in Scenes, NEW s \in Scenes, NEW ts \in SensorType,
         Sensed(r, tr, x, ts), SensorTold(tr.scenes[x].sensor) => SensorTold(ts),
         NEW dec, NEW win, SceneInv(tr, dec, win, s)
  PROVE  SceneInv(r, dec, win, s)
  <1>1. /\ r.m_scene = tr.m_scene /\ r.m_state = tr.m_state /\ r.created = tr.created /\ r.chosen = tr.chosen
    BY DEF Sensed, TopAs, InlineAs, SwitchAs
  <1>2. CASE s # x
    BY <1>1, <1>2, SceneStays DEF Sensed, OthersAs
  <1>3. CASE s = x
    <2>1. /\ r.scenes[s].starts = tr.scenes[s].starts /\ r.scenes[s].registered = tr.scenes[s].registered
          /\ r.scenes[s].m_decoder = tr.scenes[s].m_decoder /\ r.scenes[s].m_node = tr.scenes[s].m_node
          /\ SensorTold(tr.scenes[s].sensor) => SensorTold(r.scenes[s].sensor)
      BY <1>3 DEF Sensed, Counts
    <2>2. MostStarts(r, s) = MostStarts(tr, s) /\ (RunsIn(r, s) <=> RunsIn(tr, s))
      BY <1>1 DEF MostStarts, RunsIn
    <2> QED BY <1>1, <2>1, <2>2 DEF SceneInv, Data
  <1> QED
    BY <1>2, <1>3

NodesInv ==
  /\ tree \in TreeKind /\ DecodersInv(decoders)
  /\ windows \in [Scenes -> SUBSET {"early", "dead", "foreign"}]
  /\ tree.m_initTime <= now
  /\ InlineInv(tree, phase)
  /\ \A s \in Scenes : SceneInv(tree, decoders, windows[s], s)

\* The sensor of a scene that is not loaded yet.
LEMMA SensorIsNew ==
  ASSUME NEW ts \in SensorType, ts = TimeSensor(ts.startTime, ts.stopTime, ts.loop, ts.cycleInterval)
  PROVE  SensorTold(ts)
  <1>1. ts.m_started = FALSE /\ ts.m_lastFrac = 0 /\ ts.isActive = FALSE
    BY DEF TimeSensor
  <1> QED
    BY <1>1 DEF SensorTold

LEMMA NodesStart ==
  ASSUME SceneInit
  PROVE  NodesInv
  <1> DEFINE sc == [ m_decoder |-> Main, m_node |-> "none", starts |-> 0, registered |-> 0,
                     sensor |-> play.sensor ]
  <1>1. play.sensor \in SensorType /\ SensorTold(play.sensor) /\ play.url \in Urls
    BY PlaysAssumption, SensorIsNew DEF SceneInit
  <1>2. sc \in SceneKind /\ sc.starts = 0 /\ sc.registered = 0 /\ sc.m_node = "none" /\ sc.m_decoder = Main
        /\ sc.sensor = play.sensor
    BY <1>1 DEF SceneKind
  <1>3. tree = [ shown |-> TRUE, switched |-> FALSE, chosen |-> TRUE,
                 m_url |-> play.url, m_isUpdated |-> TRUE, m_scene |-> None,
                 m_initTime |-> 0, m_state |-> "CLOSED", decoder |-> Main, created |-> 0,
                 scenes |-> [s \in Scenes |-> sc] ]
    BY DEF SceneInit
  <1> HIDE DEF sc
  <1>4. tree \in TreeKind
    BY <1>1, <1>2, <1>3, InlineAssumption DEF TreeKind
  <1>5. /\ tree.m_scene = None /\ tree.m_state = "CLOSED" /\ tree.created = 0 /\ tree.m_initTime = 0
        /\ \A s \in Scenes : tree.scenes[s] = sc
    BY <1>3
  <1>6. DecodersInv(decoders)
    <2>1. Unloaded \in DecoderType /\ Unloaded.m_state # "LOADED"
      BY DEF Unloaded, DecoderType
    <2> QED BY <2>1 DEF SceneInit, DecodersInv
  <1>7. windows \in [Scenes -> SUBSET {"early", "dead", "foreign"}] /\ tree.m_initTime <= now
        /\ InlineInv(tree, phase)
    BY <1>5 DEF SceneInit, Init, InlineInv, None
  <1>8. ASSUME NEW s \in Scenes
        PROVE  SceneInv(tree, decoders, windows[s], s)
    <2>1. ~RunsIn(tree, s) /\ MostStarts(tree, s) = 1
      BY <1>5, <1>8 DEF RunsIn, MostStarts, Scenes, None
    <2>2. tree.scenes[s] = sc
      BY <1>5, <1>8
    <2> QED BY <1>1, <1>2, <1>5, <2>1, <2>2 DEF SceneInv
  <1> QED
    BY <1>4, <1>6, <1>7, <1>8 DEF NodesInv

\* The nodes as the clock moves on.
LEMMA NodesStay ==
  ASSUME NodesInv, UNCHANGED nodes, now \in Nat, now' \in Nat, now <= now',
         phase' # "left" => phase # "left"
  PROVE  NodesInv'
  <1>1. tree' = tree /\ decoders' = decoders /\ windows' = windows
    BY DEF nodes
  <1>2. tree.m_initTime \in Nat
    BY DEF NodesInv, TreeKind
  <1>3. InlineInv(tree', phase') /\ tree'.m_initTime <= now'
    BY <1>1, <1>2 DEF NodesInv, InlineInv
  <1>4. \A s \in Scenes : SceneInv(tree', decoders', windows'[s], s)
    BY <1>1 DEF NodesInv
  <1> QED
    BY <1>1, <1>3, <1>4 DEF NodesInv

\* Another tree, in the same frame.
LEMMA NodesFrom ==
  ASSUME NodesInv, NEW r \in TreeKind, tree' = r, decoders' = decoders, windows' = windows, now' = now,
         r.m_initTime <= now, InlineInv(r, phase'),
         \A s \in Scenes : SceneInv(r, decoders, windows[s], s)
  PROVE  NodesInv'
  <1>1. \A s \in Scenes : SceneInv(tree', decoders', windows'[s], s)
    OBVIOUS
  <1>2. tree' \in TreeKind /\ DecodersInv(decoders') /\ tree'.m_initTime <= now' /\ InlineInv(tree', phase')
    BY DEF NodesInv
  <1> QED
    BY <1>1, <1>2 DEF NodesInv

LEMMA OtherFieldOfSensor ==
  ASSUME NEW ts \in SensorType, NEW v
  PROVE  /\ v \in Int => /\ fieldChanged(ts, "stopTime", v) \in SensorType
                         /\ FlagsAs(fieldChanged(ts, "stopTime", v), ts)
         /\ v \in BOOLEAN => /\ fieldChanged(ts, "loop", v) \in SensorType
                             /\ FlagsAs(fieldChanged(ts, "loop", v), ts)
  <1>1. fieldChanged(ts, "stopTime", v) = [ts EXCEPT !.stopTime = v]
    BY DEF fieldChanged, SensorType
  <1>2. fieldChanged(ts, "loop", v) = [ts EXCEPT !.loop = v]
    BY DEF fieldChanged, SensorType
  <1>3. ASSUME v \in Int
        PROVE  /\ fieldChanged(ts, "stopTime", v) \in SensorType
               /\ FlagsAs(fieldChanged(ts, "stopTime", v), ts)
    BY <1>1, <1>3 DEF SensorType, FlagsAs
  <1>4. ASSUME v \in BOOLEAN
        PROVE  /\ fieldChanged(ts, "loop", v) \in SensorType
               /\ FlagsAs(fieldChanged(ts, "loop", v), ts)
    BY <1>2, <1>4 DEF SensorType, FlagsAs
  <1> QED
    BY <1>3, <1>4

\* What the scripts change of the nodes.
LEMMA ChangesOfTree ==
  ASSUME NodesInv, now \in Nat, phase # "left", NEW r \in Changes
  PROVE  /\ r \in TreeKind /\ r.m_initTime <= now /\ r.m_scene = tree.m_scene /\ r.created = tree.created
         /\ r.m_state = tree.m_state
         /\ \A s \in Scenes : SceneInv(r, decoders, windows[s], s)
  <1> DEFINE s == tree.m_scene
             at == InTime(tree, now)
             Sense(field, v) == [tree EXCEPT !.scenes[s].sensor = fieldChanged(@, field, v)]
             Good == /\ r \in TreeKind /\ r.m_initTime <= now /\ r.m_scene = tree.m_scene
                     /\ r.created = tree.created /\ r.m_state = tree.m_state
                     /\ \A x \in Scenes : SceneInv(r, decoders, windows[x], x)
  <1>0. /\ tree \in TreeKind /\ tree.m_initTime \in Nat /\ tree.m_initTime <= now
        /\ \A x \in Scenes : SceneInv(tree, decoders, windows[x], x)
        /\ tree.m_state = "READY" => s \in Scenes
    BY DEF NodesInv, TreeKind, InlineInv
  <1>1. \/ \E b \in BOOLEAN : r = [tree EXCEPT !.shown = b, !.switched = TRUE]
        \/ \E u \in Urls : r = [tree EXCEPT !.m_url = u, !.m_isUpdated = TRUE]
        \/ /\ tree.m_state = "READY"
           /\ \/ \E d \in {0, 1} : r = Sense("startTime", at + d)
              \/ \E d \in {0, 1} : r = Sense("stopTime", at + d)
              \/ \E b \in BOOLEAN : r = Sense("loop", b)
    BY DEF Changes
  <1>2. ASSUME NEW b \in BOOLEAN, r = [tree EXCEPT !.shown = b, !.switched = TRUE]
        PROVE  Good
    <2>1. r \in TreeKind /\ InlineAs(r, tree) /\ r.chosen = tree.chosen /\ r.scenes = tree.scenes
      BY <1>0, <1>2 DEF TreeKind, InlineAs
    <2>2. \A x \in Scenes : SceneInv(r, decoders, windows[x], x)
      BY <1>0, <2>1, SceneStays DEF InlineAs
    <2> QED BY <1>0, <2>1, <2>2 DEF InlineAs
  <1>3. ASSUME NEW u \in Urls, r = [tree EXCEPT !.m_url = u, !.m_isUpdated = TRUE]
        PROVE  Good
    <2>1. /\ r \in TreeKind /\ r.chosen = tree.chosen /\ r.scenes = tree.scenes /\ r.m_scene = tree.m_scene
          /\ r.m_state = tree.m_state /\ r.created = tree.created /\ r.m_initTime = tree.m_initTime
      BY <1>0, <1>3 DEF TreeKind
    <2>2. \A x \in Scenes : SceneInv(r, decoders, windows[x], x)
      BY <1>0, <2>1, SceneStays
    <2> QED BY <1>0, <2>1, <2>2
  <1>4. ASSUME tree.m_state = "READY", NEW ts \in SensorType, FlagsAs(ts, tree.scenes[s].sensor),
               r = [tree EXCEPT !.scenes[s].sensor = ts]
        PROVE  Good
    <2>1. s \in Scenes /\ (SensorTold(tree.scenes[s].sensor) => SensorTold(ts))
      BY <1>0, <1>4 DEF SensorTold, FlagsAs
    <2>2. r \in TreeKind /\ Sensed(r, tree, s, ts)
      BY <1>0, <1>4, <2>1, SetSensor
    <2>3. \A x \in Scenes : SceneInv(r, decoders, windows[x], x)
      BY <1>0, <1>4, <2>1, <2>2, SceneSensed
    <2> QED BY <1>0, <2>2, <2>3 DEF Sensed, TopAs, InlineAs
  <1>5. CASE tree.m_state = "READY" /\ \/ \E d \in {0, 1} : r = Sense("startTime", at + d)
                                       \/ \E d \in {0, 1} : r = Sense("stopTime", at + d)
                                       \/ \E b \in BOOLEAN : r = Sense("loop", b)
    <2>0. s \in Scenes /\ tree.scenes \in [Scenes -> SceneKind] /\ tree.scenes[s].sensor \in SensorType
      <3>1. s \in Scenes /\ tree.scenes \in [Scenes -> SceneKind]
        BY <1>0, <1>5 DEF TreeKind
      <3>2. tree.scenes[s] \in SceneKind
        BY <3>1
      <3> QED BY <3>1, <3>2 DEF SceneKind
    <2>1. PICK f, v : /\ r = Sense(f, v)
                      /\ (f \in {"startTime", "stopTime"} /\ v \in Int) \/ (f = "loop" /\ v \in BOOLEAN)
      <3>1. at + 0 \in Int /\ at + 1 \in Int
        BY <1>0 DEF InTime
      <3> QED BY <1>5, <3>1
    <2> DEFINE ts == fieldChanged(tree.scenes[s].sensor, f, v)
    <2>2. ts \in SensorType /\ FlagsAs(ts, tree.scenes[s].sensor)
      BY <2>0, <2>1, FieldOfSensor, OtherFieldOfSensor
    <2>3. r = [tree EXCEPT !.scenes[s].sensor = ts]
      BY <2>0, <2>1
    <2> HIDE DEF ts
    <2> QED BY <1>4, <1>5, <2>2, <2>3
  <1> QED
    BY <1>1, <1>2, <1>3, <1>5

LEMMA NodesInFrame ==
  ASSUME NodesInv, Frame, now \in Nat
  PROVE  NodesInv'
  <1>1. phase = "frame" /\ phase' = "switch" /\ decoders' = decoders /\ windows' = windows /\ now' = now
    BY DEF Frame, vars
  <1>2. CASE tree' = tree
    <2>1. UNCHANGED nodes
      BY <1>1, <1>2 DEF nodes
    <2> QED BY <1>1, <2>1, NodesStay
  <1>3. CASE tree' \in Changes
    <2> DEFINE q == tree'
    <2>1. /\ q \in TreeKind /\ q.m_initTime <= now /\ q.m_scene = tree.m_scene /\ q.created = tree.created
          /\ q.m_state = tree.m_state
          /\ \A s \in Scenes : SceneInv(q, decoders, windows[s], s)
      BY <1>1, <1>3, ChangesOfTree
    <2>2. InlineInv(q, phase')
      BY <1>1, <2>1 DEF NodesInv, InlineInv
    <2> QED BY <1>1, <2>1, <2>2, NodesFrom
  <1> QED
    BY <1>2, <1>3 DEF Frame

\* The threads of the decoders.
LEMMA NodesInThread ==
  ASSUME NodesInv, NEW d \in Scenes, Thread(d)
  PROVE  NodesInv' /\ UNCHANGED vars /\ phase' = phase
  <1>1. UNCHANGED <<vars, tree, phase>> /\ now' = now
    BY DEF Thread, vars
  <1>2. /\ decoders \in [Scenes -> DecoderType] /\ windows \in [Scenes -> SUBSET {"early", "dead", "foreign"}]
        /\ \A s \in Scenes : decoders[s].m_state = "LOADED" => decoders[s].read
    BY DEF NodesInv, DecodersInv
  <1>3. /\ DecodersInv(decoders') /\ windows' \in [Scenes -> SUBSET {"early", "dead", "foreign"}]
        /\ \A s \in Scenes : /\ decoders[s].read => decoders'[s].read
                             /\ "early" \in windows[s] => "early" \in windows'[s]
    <2>1. CASE Open(d)
      BY <1>2, <2>1 DEF Open, DecodersInv, DecoderType
    <2>2. CASE ReadScene(d)
      BY <1>2, <2>2 DEF ReadScene, DecodersInv, DecoderType
    <2>3. CASE Dies(d)
      BY <1>2, <2>3 DEF Dies, Met, DecodersInv, DecoderType
    <2>4. CASE Ends(d)
      BY <1>2, <2>4 DEF Ends, DecodersInv, DecoderType
    <2> QED BY <2>1, <2>2, <2>3, <2>4 DEF Thread
  <1>4. ASSUME NEW s \in Scenes
        PROVE  SceneInv(tree', decoders', windows'[s], s)
    <2>1. SceneInv(tree, decoders, windows[s], s)
      BY <1>4 DEF NodesInv
    <2>2. SceneInv(tree, decoders', windows'[s], s)
      BY <1>3, <1>4, <2>1, DataStays
    <2> QED BY <1>1, <2>2
  <1>5. tree' \in TreeKind /\ tree'.m_initTime <= now' /\ InlineInv(tree', phase')
    BY <1>1 DEF NodesInv
  <1> QED
    BY <1>1, <1>3, <1>4, <1>5 DEF NodesInv

\* The scenes after Switch.compose.
LEMMA NodesSwitched ==
  ASSUME NodesInv, phase # "left", NEW win \in [Scenes -> SUBSET {"early", "dead", "foreign"}],
         \A s \in Scenes : "early" \in windows[s] => "early" \in win[s],
         \A s \in Scenes : tree.m_scene = s /\ tree.switched /\ tree.shown /\ StartsEarly(tree) => "early" \in win[s]
  PROVE  LET r == SwitchCompose(tree)
         IN /\ r \in TreeKind /\ r.switched = FALSE /\ r.m_initTime = tree.m_initTime
            /\ r.m_scene = tree.m_scene /\ r.m_state = tree.m_state /\ r.created = tree.created
            /\ \A s \in Scenes : SceneInv(r, decoders, win[s], s)
  <1> DEFINE r == SwitchCompose(tree)
  <1>1. /\ tree \in TreeKind /\ tree.m_scene <= tree.created
        /\ \A s \in Scenes : SceneInv(tree, decoders, windows[s], s)
    BY DEF NodesInv, InlineInv
  <1>2. /\ r \in TreeKind /\ r.switched = FALSE /\ r.m_initTime = tree.m_initTime
        /\ r.m_scene = tree.m_scene /\ r.m_state = tree.m_state /\ r.created = tree.created
        /\ OthersAs(r, tree, tree.m_scene)
    BY <1>1, ComposeOfSwitch
  <1>3. ASSUME NEW s \in Scenes
        PROVE  SceneInv(r, decoders, win[s], s)
    <2>1. SceneInv(tree, decoders, win[s], s)
      <3>1. SceneInv(tree, decoders, windows[s], s) /\ ("early" \in windows[s] => "early" \in win[s])
        BY <1>1, <1>3
      <3> QED BY <3>1, DataStays
    <2>2. CASE tree.m_scene = s
      BY <1>1, <1>3, <2>1, <2>2, ScenesSwitched
    <2>3. CASE tree.m_scene # s
      <3>1. r.scenes[s] = tree.scenes[s]
        BY <1>2, <1>3, <2>3 DEF OthersAs
      <3> HIDE DEF r
      <3> QED BY <1>2, <2>1, <2>3, <3>1, SceneLeft
    <2> QED BY <2>2, <2>3
  <1> QED
    BY <1>2, <1>3

\* The scenes after the Inline has destroyed one and created another.
LEMMA NodesReloaded ==
  ASSUME NEW p \in TreeKind, p.m_url = "empty" \/ p.created # MaxScenes, p.m_scene <= p.created,
         NEW dec, NEW dek, NEW win, \A s \in Scenes : SceneInv(p, dec, win[s], s),
         \A s \in Scenes : dek[s] = dec[s] \/ (p.m_url # "empty" /\ s = NewScene(p))
  PROVE  LET r == Reload(p)
         IN \A s \in Scenes : SceneInv(r, dek, win[s], s)
  <1> DEFINE r == Reload(p)
             n == NewScene(p)
             old == p.m_scene
  <1>1. /\ r \in TreeKind
        /\ old # None /\ old # n => Destroyed(r, p, old)
        /\ p.m_url = "empty" => r.m_scene = None /\ r.created = p.created /\ OthersAs(r, p, old)
        /\ p.m_url # "empty" =>
             /\ n \in Scenes /\ r.m_scene = n /\ r.m_state = "LOADING" /\ r.created = n
             /\ \A x \in Scenes \ {old, n} : r.scenes[x] = p.scenes[x]
             /\ old # n => /\ Counts(r.scenes[n], p.scenes[n].starts, p.scenes[n].registered)
                           /\ r.scenes[n].m_decoder \in {Main, n}
                           /\ r.scenes[n].m_node = p.scenes[n].m_node
                           /\ r.scenes[n].sensor = p.scenes[n].sensor
    BY ReloadOfInline
  <1>2. /\ p.created \in Nat /\ old \in Nat /\ old # n /\ n = p.created + 1
        /\ \A s \in Scenes : s \in Nat /\ s # None
    BY InlineAssumption DEF TreeKind, Scenes, None, NewScene
  <1> HIDE DEF r, n
  <1>3. ASSUME NEW s \in Scenes
        PROVE  SceneInv(r, dek, win[s], s)
    <2>1. SceneInv(p, dec, win[s], s)
      BY <1>3
    <2>2. CASE p.m_url # "empty" /\ s = n
      BY <1>1, <1>2, <1>3, <2>1, <2>2, SceneCreated DEF n
    <2>3. CASE ~(p.m_url # "empty" /\ s = n)
      <3>1. SceneInv(p, dek, win[s], s)
        <4>1. dek[s] = dec[s]
          BY <1>3, <2>3 DEF n
        <4> QED BY <2>1, <4>1, DataStays
      <3>2. r.m_scene # s /\ p.created <= r.created /\ r.created \in Nat
        BY <1>1, <1>2, <1>3, <2>3
      <3>3. CASE s = old
        BY <1>1, <1>2, <1>3, <3>1, <3>2, <3>3, SceneDestroyed
      <3>4. CASE s # old
        <4>1. r.scenes[s] = p.scenes[s]
          BY <1>1, <1>3, <2>3, <3>4 DEF OthersAs
        <4>2. s > r.created => s > p.created
          BY <1>2, <1>3, <3>2
        <4> QED BY <3>1, <3>2, <3>4, <4>1, <4>2, SceneLeft
      <3> QED BY <3>3, <3>4
    <2> QED BY <2>2, <2>3
  <1> QED
    BY <1>3 DEF r

LEMMA NodesInSwitch ==
  ASSUME NodesInv, Switch, now \in Nat
  PROVE  /\ NodesInv'
         /\ phase' = "inline" => /\ tree'.switched = FALSE
                                 /\ tree'.chosen => ~tree'.m_isUpdated
  <1> DEFINE p == SwitchCompose(tree)
             early == tree.switched /\ tree.shown /\ StartsEarly(tree)
             reloads == p.chosen /\ p.m_isUpdated
             news == IF reloads /\ p.m_url # "empty" THEN {NewScene(p)} ELSE {}
  <1>0. phase = "switch" /\ now' = now
    BY DEF Switch, vars
  <1>1. CASE Full(p)
    <2>1. phase' = "full" /\ UNCHANGED nodes
      BY <1>1 DEF Switch
    <2> QED BY <1>0, <2>1, NodesStay
  <1>2. CASE ~Full(p)
    <2>1. /\ phase' = "inline" /\ tree' = IF reloads THEN Reload(p) ELSE p
          /\ decoders' = [s \in Scenes |-> IF s \in news THEN NewDecoder(p) ELSE decoders[s]]
          /\ windows' = [s \in Scenes |->
               windows[s] \cup (IF early /\ s = tree.m_scene THEN {"early"} ELSE {})
                          \cup (IF s \in news /\ IsForeign(p) THEN {"foreign"} ELSE {})]
      BY <1>2 DEF Switch
    <2>2. /\ windows' \in [Scenes -> SUBSET {"early", "dead", "foreign"}]
          /\ \A s \in Scenes : "early" \in windows[s] => "early" \in windows'[s]
          /\ \A s \in Scenes : tree.m_scene = s /\ tree.switched /\ tree.shown /\ StartsEarly(tree)
                                 => "early" \in windows'[s]
      <3> HIDE DEF p, news
      <3> QED BY <2>1 DEF NodesInv
    <2>3. /\ p \in TreeKind /\ p.switched = FALSE /\ p.m_initTime = tree.m_initTime
          /\ p.m_scene = tree.m_scene /\ p.m_state = tree.m_state /\ p.created = tree.created
          /\ \A s \in Scenes : SceneInv(p, decoders, windows'[s], s)
      BY <1>0, <2>2, NodesSwitched
    <2> HIDE DEF p, early
    <2>4. DecodersInv(decoders')
      <3>1. NewDecoder(p) \in DecoderType /\ NewDecoder(p).m_state # "LOADED"
        <4>1. NewDecoder(p) \in {[m_state |-> "OPENING", read |-> FALSE, thread |-> "open"],
                                 [m_state |-> "NONE", read |-> FALSE, thread |-> "none"]}
          BY DEF NewDecoder
        <4>2. \A b \in {"OPENING", "NONE"} : \A c \in {"open", "none"} :
                LET x == [m_state |-> b, read |-> FALSE, thread |-> c]
                IN x \in DecoderType /\ x.m_state # "LOADED"
          BY DEF DecoderType
        <4> QED BY <4>1, <4>2
      <3> HIDE DEF news
      <3> QED BY <2>1, <3>1 DEF NodesInv, DecodersInv
    <2>5. tree.m_initTime <= now /\ InlineInv(tree, phase)
      BY DEF NodesInv
    <2>6. CASE ~reloads
      <3>1. tree' = p /\ decoders' = decoders
        <4>1. news = {}
          BY <2>6
        <4>2. decoders \in [Scenes -> DecoderType]
          BY DEF NodesInv, DecodersInv
        <4> QED BY <2>1, <2>6, <4>1, <4>2
      <3>2. InlineInv(tree', phase') /\ tree'.m_initTime <= now'
        BY <1>0, <2>1, <2>3, <2>5, <3>1 DEF InlineInv
      <3>3. \A s \in Scenes : SceneInv(tree', decoders', windows'[s], s)
        BY <2>3, <3>1
      <3> QED BY <2>2, <2>3, <2>4, <2>6, <3>1, <3>2, <3>3 DEF NodesInv
    <2>7. CASE reloads
      <3> DEFINE r == Reload(p)
      <3>1. tree' = r
        BY <2>1, <2>7
      <3>2. p.m_url = "empty" \/ p.created # MaxScenes
        BY <1>2, <2>7 DEF Full
      <3>3. p.m_scene <= p.created
        BY <2>3, <2>5 DEF InlineInv
      <3>4. \A s \in Scenes : decoders'[s] = decoders[s] \/ (p.m_url # "empty" /\ s = NewScene(p))
        <4>1. news \subseteq {NewScene(p)} /\ (news # {} => p.m_url # "empty")
          OBVIOUS
        <4> HIDE DEF news
        <4> QED BY <2>1, <4>1
      <3>5. \A s \in Scenes : SceneInv(r, decoders', windows'[s], s)
        BY <2>3, <3>2, <3>3, <3>4, NodesReloaded
      <3>6. /\ r \in TreeKind /\ SwitchAs(r, p) /\ r.m_initTime = p.m_initTime /\ r.m_isUpdated = FALSE
            /\ p.m_url = "empty" => r.m_scene = None /\ r.m_state = "CLOSED" /\ r.created = p.created
            /\ p.m_url # "empty" => r.m_scene = NewScene(p) /\ r.created = NewScene(p) /\ NewScene(p) \in Scenes
        BY <2>3, <3>2, ReloadOfInline
      <3> HIDE DEF r
      <3>7. InlineInv(r, phase')
        <4>1. \A s \in Scenes : s \in Nat /\ s # None
          BY InlineAssumption DEF Scenes, None
        <4>2. p.created \in Nat
          BY <2>3, InlineAssumption DEF TreeKind
        <4> QED BY <3>6, <4>1, <4>2 DEF InlineInv, None
      <3>8. tree' \in TreeKind /\ tree'.m_initTime <= now' /\ InlineInv(tree', phase')
        BY <1>0, <2>3, <2>5, <3>1, <3>6, <3>7
      <3>9. \A s \in Scenes : SceneInv(tree', decoders', windows'[s], s)
        BY <3>1, <3>5
      <3> QED BY <2>2, <2>3, <2>4, <3>1, <3>6, <3>8, <3>9 DEF NodesInv, SwitchAs
    <2> QED BY <2>6, <2>7
  <1> QED
    BY <1>1, <1>2

\* The Inline is composed.
LEMMA NodesReadied ==
  ASSUME NodesInv, now \in Nat, phase # "left", tree.chosen
  PROVE  LET r == Ready(tree, now)
         IN /\ r \in TreeKind /\ SwitchAs(r, tree) /\ r.m_isUpdated = tree.m_isUpdated
            /\ r.m_scene = tree.m_scene /\ r.m_initTime <= now
            /\ r.m_state \in {"LOADING", "ERROR"} => tree.m_state = "LOADING" /\ r.m_state # "READY"
            /\ \A ph : ph # "left" => InlineInv(r, ph)
            /\ \A s \in Scenes : SceneInv(r, decoders, windows[s], s)
  <1> DEFINE r == Ready(tree, now)
             x == tree.m_scene
  <1>1. /\ tree \in TreeKind /\ DecodersInv(decoders) /\ tree.m_initTime <= now
        /\ x <= tree.created /\ (tree.m_state \in {"LOADING", "READY"} => x # None)
        /\ \A s \in Scenes : SceneInv(tree, decoders, windows[s], s)
    BY DEF NodesInv, InlineInv
  <1>2. /\ r \in TreeKind /\ SwitchAs(r, tree) /\ OthersAs(r, tree, x)
        /\ r.m_isUpdated = tree.m_isUpdated /\ r.m_scene = x /\ r.created = tree.created
        /\ Readied(r, tree, now) \/ Unreadied(r, tree)
    BY <1>1, ReadyOfInline
  <1>3. ASSUME NEW s \in Scenes
        PROVE  SceneInv(r, decoders, windows[s], s)
    <2>1. SceneInv(tree, decoders, windows[s], s)
      BY <1>1, <1>3
    <2>2. CASE x = s
      BY <1>1, <1>3, <2>1, <2>2, SceneReadied
    <2>3. CASE x # s
      <3>1. r.scenes[s] = tree.scenes[s]
        BY <1>2, <1>3, <2>3 DEF OthersAs
      <3> HIDE DEF r
      <3> QED BY <1>2, <2>1, <2>3, <3>1, SceneLeft
    <2> QED BY <2>2, <2>3
  <1> HIDE DEF r
  <1>4. /\ r.m_initTime <= now
        /\ r.m_state \in {"LOADING", "READY"} => tree.m_state \in {"LOADING", "READY"}
        /\ r.m_state \in {"LOADING", "ERROR"} => tree.m_state = "LOADING" /\ r.m_state # "READY"
    <2>1. CASE Readied(r, tree, now)
      BY <1>1, <2>1 DEF Readied
    <2>2. CASE Unreadied(r, tree)
      BY <1>1, <2>2 DEF Unreadied
    <2> QED BY <1>2, <2>1, <2>2
  <1>5. \A ph : ph # "left" => InlineInv(r, ph)
    BY <1>1, <1>2, <1>4 DEF InlineInv
  <1> QED
    BY <1>2, <1>3, <1>4, <1>5 DEF r

LEMMA NodesComposed ==
  ASSUME NEW tr \in TreeKind, now \in Nat, tr.m_initTime <= now, tr.m_state = "READY", tr.m_scene # None,
         ~InlineThrows(tr, now), NEW dec, NEW win,
         \A s \in Scenes : SceneInv(tr, dec, win[s], s)
  PROVE  LET r == InlineCompose(tr, now)
             x == tr.m_scene
             ts == r.scenes[x].sensor
         IN /\ r \in TreeKind /\ TopAs(r, tr)
            /\ \A s \in Scenes : SceneInv(r, dec, win[s], s)
            /\ tr.chosen /\ ~SceneNotifies(tr, x, InTime(tr, now)) => Quiet(ts)
  <1> DEFINE r == InlineCompose(tr, now)
             x == tr.m_scene
             t == InTime(tr, now)
             sc == tr.scenes[x]
             n == sc.registered
             a == Activated(sc.sensor, t, n)
  <1>1. x \in Scenes /\ tr.scenes \in [Scenes -> SceneKind] /\ sc \in SceneKind /\ tr.m_initTime \in Nat
    BY DEF TreeKind
  <1>2. t \in Nat
    BY <1>1 DEF InTime
  <1>3. SceneInv(tr, dec, win[x], x)
    BY <1>1
  <1>4. sc.sensor \in SensorType /\ n \in 0..2 /\ (tr.chosen => n > 0)
    <2>1. sc.sensor \in SensorType /\ n \in Nat
      BY <1>1 DEF SceneKind
    <2>2. n <= MostStarts(tr, x) /\ (tr.chosen => n >= 1)
      BY <1>3 DEF SceneInv, RunsIn
    <2>3. MostStarts(tr, x) \in 0..2
      BY DEF MostStarts
    <2> HIDE DEF n
    <2> QED BY <2>1, <2>2, <2>3
  <1>5. n = 0 \/ ~Throws(sc.sensor, t)
    BY <1>4 DEF InlineThrows, SceneThrows
  <1>6. r = [tr EXCEPT !.scenes[x].sensor = a]
    BY <1>1 DEF InlineCompose, InnerCompose
  <1>7. SceneNotifies(tr, x, t) <=> n > 0 /\ Notifies(sc.sensor, t)
    BY DEF SceneNotifies
  <1> HIDE DEF n, t, r
  <1>8. /\ a \in SensorType /\ SensorTold(a)
        /\ n > 0 /\ ~Notifies(sc.sensor, t) => Quiet(a)
    <2>1. SensorTold(sc.sensor)
      BY <1>3 DEF SceneInv
    <2> QED BY <1>2, <1>4, <1>5, <2>1, ActivationsOfSensor
  <1> HIDE DEF a, sc
  <1>9. r \in TreeKind /\ Sensed(r, tr, x, a)
    BY <1>1, <1>6, <1>8, SetSensor
  <1>10. \A s \in Scenes : SceneInv(r, dec, win[s], s)
    BY <1>1, <1>8, <1>9, SceneSensed DEF sc
  <1>11. TopAs(r, tr) /\ r.scenes[x].sensor = a
    BY <1>9 DEF Sensed
  <1>12. tr.chosen /\ ~SceneNotifies(tr, x, t) => Quiet(r.scenes[x].sensor)
    BY <1>4, <1>7, <1>8, <1>11
  <1> QED
    BY <1>9, <1>10, <1>11, <1>12 DEF r, t

LEMMA NodesInInline ==
  ASSUME NodesInv, ComposeInline, now \in Nat
  PROVE  /\ NodesInv' /\ tree'.switched = tree.switched
         /\ tree'.chosen = tree.chosen /\ tree'.m_isUpdated = tree.m_isUpdated
         /\ phase' = "script" /\ ~composeAgain' /\ tree'.chosen =>
              /\ tree'.m_state \notin {"LOADING", "ERROR"}
              /\ tree'.m_state = "READY" => Quiet(tree'.scenes[tree'.m_scene].sensor)
  <1> DEFINE tr == Ready(tree, now)
  <1>1. phase = "inline" /\ phase' \in {"script", "broken"} /\ now' = now /\ decoders' = decoders /\ windows' = windows
    BY DEF ComposeInline, vars
  <1>2. CASE ~tree.chosen
    <2>1. tree' = tree
      BY <1>2 DEF ComposeInline
    <2>2. UNCHANGED nodes
      BY <1>1, <2>1 DEF nodes
    <2> QED BY <1>1, <1>2, <2>1, <2>2, NodesStay
  <1>3. CASE tree.chosen
    <2>1. /\ tr \in TreeKind /\ SwitchAs(tr, tree) /\ tr.m_isUpdated = tree.m_isUpdated
          /\ tr.m_scene = tree.m_scene /\ tr.m_initTime <= now
          /\ tr.m_state \in {"LOADING", "ERROR"} => tree.m_state = "LOADING" /\ tr.m_state # "READY"
          /\ \A ph : ph # "left" => InlineInv(tr, ph)
          /\ \A s \in Scenes : SceneInv(tr, decoders, windows[s], s)
      BY <1>1, <1>3, NodesReadied
    <2>2. InlineInv(tr, phase') /\ InlineInv(tr, "inline")
      BY <1>1, <2>1
    <2>3. \/ phase' = "broken" /\ tree' = tr
          \/ /\ phase' = "script" /\ ~InlineThrows(tr, now) /\ tree' = InlineCompose(tr, now)
             /\ composeAgain' = (composeAgain \/ InlineNotifies(tree, tr, now))
      BY <1>3 DEF ComposeInline
    <2> HIDE DEF tr
    <2>4. CASE phase' = "broken" /\ tree' = tr
      <3>1. NodesInv'
        BY <1>1, <2>1, <2>2, <2>4, NodesFrom
      <3> QED BY <2>1, <2>4, <3>1 DEF SwitchAs
    <2>5. CASE /\ phase' = "script" /\ ~InlineThrows(tr, now) /\ tree' = InlineCompose(tr, now)
               /\ composeAgain' = (composeAgain \/ InlineNotifies(tree, tr, now))
      <3>1. ~composeAgain' => /\ ~(tree.m_state = "LOADING" /\ tr.m_state # "READY")
                              /\ ~(tr.m_state = "READY" /\ SceneNotifies(tr, tr.m_scene, InTime(tr, now)))
        BY <2>5 DEF InlineNotifies
      <3>2. CASE tr.m_state # "READY"
        <4>1. tree' = tr
          BY <2>5, <3>2 DEF InlineCompose
        <4>2. NodesInv'
          BY <1>1, <2>1, <2>2, <4>1, NodesFrom
        <4>3. ~composeAgain' => tr.m_state \notin {"LOADING", "ERROR"}
          BY <2>1, <3>1
        <4> QED BY <2>1, <3>2, <4>1, <4>2, <4>3 DEF SwitchAs
      <3>3. CASE tr.m_state = "READY"
        <4> DEFINE q == InlineCompose(tr, now)
        <4>1. tr.m_scene # None
          BY <2>2, <3>3 DEF InlineInv
        <4>2. /\ q \in TreeKind /\ TopAs(q, tr)
              /\ \A s \in Scenes : SceneInv(q, decoders, windows[s], s)
              /\ tr.chosen /\ ~SceneNotifies(tr, tr.m_scene, InTime(tr, now)) => Quiet(q.scenes[tr.m_scene].sensor)
          BY <2>1, <2>5, <3>3, <4>1, NodesComposed
        <4> HIDE DEF q
        <4>3. tree' = q
          BY <2>5 DEF q
        <4>4. q.m_initTime <= now /\ InlineInv(q, phase')
          BY <2>1, <2>2, <4>2 DEF TopAs, InlineAs, InlineInv
        <4>5. NodesInv'
          BY <1>1, <4>2, <4>3, <4>4, NodesFrom
        <4> QED BY <1>3, <2>1, <3>1, <3>3, <4>2, <4>3, <4>5 DEF TopAs, InlineAs, SwitchAs
      <3> QED BY <3>2, <3>3
    <2> QED BY <2>3, <2>4, <2>5
  <1> QED
    BY <1>2, <1>3

\* The scene is left.
LEMMA NodesInLeave ==
  ASSUME NodesInv, LeaveScene, now \in Nat
  PROVE  NodesInv'
  <1> DEFINE p == SwitchStop(tree)
             q == InlineDestroy(p)
             x == tree.m_scene
  <1>1. /\ phase \in {"broken", "decide"} /\ phase' = "left" /\ now' = now
        /\ decoders' = decoders /\ windows' = windows
        /\ tree' = p \/ tree' = q
    BY DEF LeaveScene, vars
  <1>2. /\ tree \in TreeKind /\ tree.m_initTime <= now /\ x <= tree.created
        /\ \A s \in Scenes : SceneInv(tree, decoders, windows[s], s)
    BY DEF NodesInv, InlineInv
  <1>3. p \in TreeKind /\ InlineAs(p, tree) /\ OthersAs(p, tree, x) /\ p.chosen = FALSE
    BY <1>2, StopOfSwitch
  <1>4. ASSUME NEW s \in Scenes
        PROVE  SceneInv(p, decoders, windows[s], s)
    <2>1. SceneInv(tree, decoders, windows[s], s)
      BY <1>2, <1>4
    <2>2. CASE x = s
      BY <1>2, <1>4, <2>1, <2>2, SceneStopped
    <2>3. CASE x # s
      <3>1. p.scenes[s] = tree.scenes[s]
        BY <1>3, <1>4, <2>3 DEF OthersAs
      <3> HIDE DEF p
      <3> QED BY <1>3, <2>1, <2>3, <3>1, SceneLeft DEF InlineAs
    <2> QED BY <2>2, <2>3
  <1>5. InlineInv(p, phase') /\ p.m_initTime <= now /\ p.m_scene = x /\ p.created = tree.created
    BY <1>1, <1>2, <1>3 DEF InlineAs, InlineInv
  <1> HIDE DEF p
  <1>6. CASE tree' = p
    BY <1>1, <1>3, <1>4, <1>5, <1>6, NodesFrom
  <1>7. CASE tree' = q
    <2>1. /\ q \in TreeKind /\ OthersAs(q, p, x) /\ q.m_scene = None
          /\ q.m_initTime = p.m_initTime /\ q.created = p.created
          /\ x # None => Destroyed(q, p, x)
      BY <1>3, <1>5, DestroyOfInline
    <2>2. p.created \in Nat /\ \A s \in Scenes : s # None
      BY <1>3, InlineAssumption DEF TreeKind, Scenes, None
    <2> HIDE DEF q
    <2>3. ASSUME NEW s \in Scenes
          PROVE  SceneInv(q, decoders, windows[s], s)
      <3>1. SceneInv(p, decoders, windows[s], s) /\ q.m_scene # s
        BY <1>4, <2>1, <2>2, <2>3
      <3>2. CASE x = s
        <4>1. Destroyed(q, p, s) /\ p.m_scene = s /\ p.m_scene <= p.created /\ q.created \in Nat /\ p.created <= q.created
          BY <1>2, <1>5, <2>1, <2>2, <2>3, <3>2
        <4> QED BY <1>3, <2>3, <3>1, <4>1, SceneDestroyed
      <3>3. CASE x # s
        <4>1. q.scenes[s] = p.scenes[s] /\ p.m_scene # s /\ q.created = p.created
          BY <1>5, <2>1, <2>3, <3>3 DEF OthersAs
        <4> QED BY <3>1, <4>1, SceneLeft
      <3> QED BY <3>2, <3>3
    <2>4. InlineInv(q, phase') /\ q.m_initTime <= now
      BY <1>1, <1>5, <2>1, <2>2 DEF InlineInv, None
    <2> QED BY <1>1, <1>7, <2>1, <2>3, <2>4, NodesFrom
  <1> QED
    BY <1>1, <1>6, <1>7

\* The clock does not go back, and a scene that is left stays so.
LEMMA ClockSteps ==
  ASSUME CallInv, [SceneNext]_sceneVars
  PROVE  now \in Nat /\ now' \in Nat /\ now <= now' /\ (phase' # "left" => phase # "left")
  <1>1. now \in Nat
    BY DEF CallInv, CallbackInv, HeapKinds
  <1>2. CASE UNCHANGED sceneVars
    BY <1>1, <1>2 DEF sceneVars, vars, loop
  <1>3. CASE Frame \/ Switch \/ ComposeInline \/ Event \/ LeaveScene
    BY <1>1, <1>3 DEF Frame, Switch, ComposeInline, Event, LeaveScene, vars
  <1>4. CASE \E d \in Scenes : Thread(d)
    BY <1>1, <1>4 DEF Thread, vars
  <1>5. CASE Walk
    <2>1. now' = now
      BY <1>5 DEF Walk, vars, InvokeCallbacks, InvokeNext, FunctionReturns, AddFromFunction, InvokeEnds
    <2> QED BY <1>1, <1>5, <2>1 DEF Walk
  <1>6. CASE Decide
    BY <1>1, <1>6 DEF Decide
  <1>7. CASE WakeUp
    <2>1. now' = now \/ now' \in now..wake
      BY <1>7 DEF WakeUp
    <2> QED BY <1>1, <1>7, <2>1 DEF WakeUp
  <1>8. CASE Posted
    BY <1>1, <1>8 DEF Posted
  <1>9. CASE SetTimeout
    BY <1>1, <1>9 DEF SetTimeout, loop
  <1> QED
    BY <1>2, <1>3, <1>4, <1>5, <1>6, <1>7, <1>8, <1>9 DEF SceneNext, Step

LEMMA NodesSteps ==
  ASSUME CallInv, NodesInv, [SceneNext]_sceneVars
  PROVE  NodesInv'
  <1>1. now \in Nat /\ now' \in Nat /\ now <= now' /\ (phase' # "left" => phase # "left")
    BY ClockSteps
  <1>2. ASSUME UNCHANGED nodes
        PROVE  NodesInv'
    BY <1>1, <1>2, NodesStay
  <1>3. CASE UNCHANGED sceneVars
    BY <1>2, <1>3 DEF sceneVars
  <1>4. CASE Walk \/ Decide \/ WakeUp \/ Event \/ Posted \/ SetTimeout
    BY <1>2, <1>4 DEF Walk, Decide, WakeUp, Event, Posted, SetTimeout
  <1>5. CASE Frame
    BY <1>1, <1>5, NodesInFrame
  <1>6. CASE Switch
    BY <1>1, <1>6, NodesInSwitch
  <1>7. CASE ComposeInline
    BY <1>1, <1>7, NodesInInline
  <1>8. CASE LeaveScene
    BY <1>1, <1>8, NodesInLeave
  <1>9. CASE \E d \in Scenes : Thread(d)
    BY <1>9, NodesInThread
  <1> QED
    BY <1>3, <1>4, <1>5, <1>6, <1>7, <1>8, <1>9 DEF SceneNext, Step

LEMMA NodesInvariance == SceneSpec => []NodesInv
  <1>1. SceneInit => NodesInv
    BY NodesStart
  <1>2. CallInv /\ NodesInv /\ [SceneNext]_sceneVars => NodesInv'
    BY NodesSteps
  <1> QED
    BY <1>1, <1>2, CallbackInvariance, PTL DEF SceneSpec

\* Whatever is hidden, shown again, loaded, replaced or left, and in whatever order the
\* threads of the decoders come to their end, a scene that was not started before it
\* was loaded has been started once if it is shown and ready, and not at all otherwise
\* (Scene.start and stop, Inline.compose, start, stop and destroy, Switch.compose).
THEOREM StartsAsShown == SceneSpec => []StartedAsShown
  <1>1. NodesInv => StartedAsShown
    BY DEF NodesInv, SceneInv, StartedAsShown, Running, RunsIn
  <1> QED
    BY <1>1, NodesInvariance, PTL

-----------------------------------------------------------------------------
(* The sleep of the canvas.                                                *)

\* The first of two times, or none at all.
LEMMA EarliestOfTwo ==
  ASSUME NEW a \in Int, NEW b \in Int
  PROVE  LET e == Earliest({a, b})
         IN e \in Int /\ (e = SLEEP_CANCELED \/ (a # SLEEP_CANCELED /\ b # SLEEP_CANCELED
                                                  /\ e <= a /\ e <= b /\ e <= SLEEP_FOREVER))
  <1> DEFINE W == {a, b}
             X == W \cup {SLEEP_FOREVER}
             IsFirst(w) == \A v \in X : w <= v
  <1>1. CASE SLEEP_CANCELED \in W
    BY <1>1 DEF Earliest, SLEEP_CANCELED
  <1>2. CASE SLEEP_CANCELED \notin W
    <2>1. SLEEP_FOREVER \in Int
      BY DEF SLEEP_FOREVER
    <2>2. \E w \in X : IsFirst(w)
      <3>1. CASE a <= b /\ a <= SLEEP_FOREVER
        BY <2>1, <3>1
      <3>2. CASE b <= a /\ b <= SLEEP_FOREVER
        BY <2>1, <3>2
      <3>3. CASE SLEEP_FOREVER <= a /\ SLEEP_FOREVER <= b
        BY <2>1, <3>3
      <3> QED BY <2>1, <3>1, <3>2, <3>3
    <2>3. Earliest(W) = CHOOSE w \in X : IsFirst(w)
      BY <1>2 DEF Earliest
    <2>4. Earliest(W) \in X /\ IsFirst(Earliest(W))
      <3> HIDE DEF IsFirst
      <3> QED BY <2>2, <2>3
    <2> QED BY <1>2, <2>1, <2>4
  <1> QED
    BY <1>1, <1>2

\* A sensor that waits asks to be woken up when it can be activated at the latest.
LEMMA SensorWakesUp ==
  ASSUME NEW ts \in SensorType, SensorTold(ts), NEW t \in Int
  PROVE  LET w == TimeSensorWakeup(ts, t, FALSE)
         IN /\ w \in Int
            /\ ~ts.m_started /\ w # SLEEP_CANCELED =>
                 \A u \in Int : t <= u /\ isActivable(ts, u) => w <= u
  <1> DEFINE w == TimeSensorWakeup(ts, t, FALSE)
  <1>1. /\ ts.m_startTime \in Int /\ ts.stopTime \in Int /\ ts.cycleInterval \in Nat
        /\ ts.m_started \in BOOLEAN /\ ts.loop \in BOOLEAN
    BY DEF SensorType
  <1>2. SLEEP_CANCELED \in Int /\ SLEEP_FOREVER \in Int
    BY DEF SLEEP_CANCELED, SLEEP_FOREVER
  <1>3. CASE ts.m_started /\ ts.stopTime > ts.m_startTime
    <2>0. ~(ts.stopTime <= ts.m_startTime)
      BY <1>1, <1>3
    <2>1. w = IF t >= ts.stopTime THEN SLEEP_CANCELED
              ELSE IF ts.loop \/ ts.stopTime <= ts.m_startTime + ts.cycleInterval THEN ts.stopTime
              ELSE ts.m_startTime + ts.cycleInterval
      BY <1>3, <2>0 DEF TimeSensorWakeup
    <2> HIDE DEF w
    <2>2. w \in Int
      BY <1>1, <1>2, <2>1
    <2> QED BY <1>3, <2>2 DEF w
  <1>4. CASE ts.m_started /\ ts.stopTime <= ts.m_startTime
    <2>1. ~(ts.stopTime > ts.m_startTime)
      BY <1>1, <1>4
    <2>2. w = IF ts.loop THEN t + ts.cycleInterval - ((t - ts.m_startTime) % ts.cycleInterval)
              ELSE IF t - ts.m_startTime >= ts.cycleInterval THEN SLEEP_CANCELED
              ELSE ts.m_startTime + ts.cycleInterval
      BY <1>4, <2>1 DEF TimeSensorWakeup
    <2>3. ts.cycleInterval \in Nat \ {0}
      BY <1>1, <1>4 DEF SensorTold
    <2>4. (t - ts.m_startTime) % ts.cycleInterval \in Int
      BY <1>1, <2>3
    <2> HIDE DEF w
    <2>5. w \in Int
      BY <1>1, <1>2, <2>2, <2>4
    <2> QED BY <1>4, <2>5 DEF w
  <1>5. CASE ~ts.m_started
    <2>1. w = IF isActivable(ts, t) THEN SLEEP_CANCELED
              ELSE IF ts.m_startTime > t /\ isActivable(ts, ts.m_startTime) THEN ts.m_startTime
              ELSE SLEEP_FOREVER
      BY <1>5 DEF TimeSensorWakeup
    <2> HIDE DEF w
    <2>2. w \in Int
      BY <1>1, <1>2, <2>1
    <2>3. ASSUME w # SLEEP_CANCELED, NEW u \in Int, t <= u, isActivable(ts, u)
          PROVE  w <= u
      <3>1. ~isActivable(ts, t)
        BY <2>1, <2>3
      <3>2. ts.m_startTime <= u /\ ts.m_startTime > t /\ isActivable(ts, ts.m_startTime)
        BY <1>1, <2>3, <3>1 DEF isActivable, IsOver
      <3> QED BY <2>1, <3>1, <3>2
    <2> QED BY <2>2, <2>3 DEF w
  <1>6. ts.stopTime > ts.m_startTime \/ ts.stopTime <= ts.m_startTime
    BY <1>1
  <1> QED
    BY <1>3, <1>4, <1>5, <1>6

\* The Inline asks in the time of its parent.
LEMMA InlineWakesUp ==
  ASSUME NEW tr \in TreeKind, NEW t \in Int, NEW dec, NEW win,
         \A s \in Scenes : SceneInv(tr, dec, win[s], s)
  PROVE  LET w == InlineWakeup(tr, t, FALSE)
             ts == tr.scenes[tr.m_scene].sensor
         IN /\ w \in Int
            /\ /\ tr.chosen /\ tr.m_scene # None /\ tr.m_state = "READY" /\ ~ts.m_started
               /\ w # SLEEP_CANCELED
               => \A u \in Int : t <= u /\ isActivable(ts, InTime(tr, u)) => w <= u
  <1> DEFINE w == InlineWakeup(tr, t, FALSE)
             x == tr.m_scene
             sc == tr.scenes[x]
             ts == sc.sensor
             at == InTime(tr, t)
             v == TimeSensorWakeup(ts, at, FALSE)
             y == SceneWakeup(tr, x, at, FALSE)
  <1>0. SLEEP_CANCELED = -1 /\ SLEEP_FOREVER \in Int /\ tr.m_initTime \in Nat
    BY DEF SLEEP_CANCELED, SLEEP_FOREVER, TreeKind
  <1>1. CASE x = None
    BY <1>0, <1>1 DEF InlineWakeup
  <1>2. CASE x # None
    <2>1. x \in Scenes /\ sc \in SceneKind /\ SceneInv(tr, dec, win[x], x)
      BY <1>2 DEF TreeKind
    <2>2. ts \in SensorType /\ SensorTold(ts) /\ at \in Int
      BY <1>0, <2>1 DEF SceneKind, SceneInv, InTime
    <2>3. /\ v \in Int
          /\ ~ts.m_started /\ v # SLEEP_CANCELED => \A u \in Int : at <= u /\ isActivable(ts, u) => v <= u
      BY <2>2, SensorWakesUp
    <2>4. y = IF sc.registered > 0 THEN v ELSE SLEEP_FOREVER
      BY DEF SceneWakeup
    <2>5. w = IF IsTime(y) THEN y + tr.m_initTime ELSE y
      BY <1>2 DEF InlineWakeup, InParent
    <2> HIDE DEF v, y, w
    <2>6. y \in Int /\ w \in Int
      BY <1>0, <2>3, <2>4, <2>5
    <2>7. ASSUME tr.chosen, tr.m_state = "READY", ~ts.m_started, w # SLEEP_CANCELED,
                 NEW u \in Int, t <= u, isActivable(ts, InTime(tr, u))
          PROVE  w <= u
      <3>1. y = v
        <4>1. sc.registered >= 1 /\ sc.registered \in Nat
          <5>1. RunsIn(tr, x)
            BY <2>7 DEF RunsIn
          <5>2. sc.registered \in Nat
            BY <2>1 DEF SceneKind
          <5> QED BY <2>1, <5>1, <5>2 DEF SceneInv
        <4> QED BY <2>4, <4>1
      <3>2. y # SLEEP_CANCELED
        BY <2>5, <2>7 DEF IsTime
      <3>3. InTime(tr, u) \in Int /\ at <= InTime(tr, u) /\ InTime(tr, u) = u - tr.m_initTime
        BY <1>0, <2>7 DEF InTime
      <3>4. v <= InTime(tr, u)
        BY <2>3, <2>7, <3>1, <3>2, <3>3
      <3> QED BY <1>0, <2>5, <2>6, <2>7, <3>1, <3>3, <3>4
    <2> QED BY <1>2, <2>6, <2>7 DEF w
  <1> QED
    BY <1>1, <1>2

\* The first callback wakes the canvas up, and the others are later.
LEMMA CallbackWakesUp ==
  ASSUME CallbackInv, pc = "idle", NEW t \in Nat
  PROVE  LET w == GetWakeupTime(t)
         IN /\ w \in Int
            /\ ~stale /\ w # SLEEP_CANCELED => \A q \in Waiting : w <= due[q]
  <1> DEFINE w == GetWakeupTime(t)
             h == m_cbList
  <1>1. PICK L \in Seq(Cells), P \in Seq(Cells) : Shape(L, P)
    BY DEF CallbackInv
  <1>2. ListOf(next, L, h) /\ Contents(fn, time, Len(due), invoked, L, 1, stale)
        /\ \A i \in 1..Len(L) : L[i] \in 1..created
    BY <1>1 DEF Shape, Lists, Cursor, First
  <1>3. /\ SLEEP_CANCELED = -1 /\ SLEEP_FOREVER \in Int /\ Len(L) \in Nat
        /\ time \in [Cells -> Times] /\ 1..created \subseteq Cells
        /\ \A c \in 1..created : due[fn[c]] = time[c]
    BY LenProperties, BoundsAssumption DEF SLEEP_CANCELED, SLEEP_FOREVER, CallbackInv, HeapKinds, Cells
  <1>4. ASSUME ~stale, NEW q \in Waiting
        PROVE  \E i \in 1..Len(L) : fn[L[i]] = q
    <2>1. q \in 1..Len(due) /\ ~Called(invoked, q)
      BY DEF Waiting, Requests, IsInvoked, Called
    <2> QED BY <1>2, <1>4, <2>1 DEF Contents
  <1>5. CASE h = Null
    <2>1. w = SLEEP_FOREVER
      BY <1>5 DEF GetWakeupTime
    <2>2. Len(L) = 0
      BY <1>2, <1>5, ListHead
    <2> QED BY <1>3, <1>4, <2>1, <2>2
  <1>6. CASE h # Null
    <2>1. 1 \in 1..Len(L) /\ h = L[1] /\ h \in Cells
      BY <1>2, <1>6, ListHead
    <2>2. time[h] \in Int
      BY <1>3, <2>1 DEF Times, Immediate
    <2>3. w \in Int /\ (w # SLEEP_CANCELED => w <= time[h])
      <3>1. w = IF time[h] = Immediate \/ time[h] < t THEN SLEEP_CANCELED ELSE time[h] - t
        BY <1>6 DEF GetWakeupTime
      <3> HIDE DEF w
      <3> QED BY <1>3, <2>2, <3>1
    <2>4. ASSUME ~stale, NEW q \in Waiting
          PROVE  time[h] <= due[q] /\ due[q] \in Int
      <3>1. PICK i \in 1..Len(L) : fn[L[i]] = q
        BY <1>4, <2>4
      <3>2. L[i] \in Cells /\ due[q] = time[L[i]] /\ time[L[i]] \in Int
        BY <1>2, <1>3, <3>1 DEF Times, Immediate
      <3>3. i = 1 \/ 1 < i
        BY <1>3
      <3>4. time[L[1]] <= time[L[i]]
        BY <1>2, <2>1, <2>2, <2>4, <3>2, <3>3 DEF Contents, SortedBy
      <3> QED BY <2>1, <3>2, <3>4
    <2> HIDE DEF w
    <2>5. ASSUME ~stale, w # SLEEP_CANCELED, NEW q \in Waiting
          PROVE  w <= due[q]
      BY <2>2, <2>3, <2>4, <2>5
    <2> QED BY <2>3, <2>5 DEF w
  <1> QED
    BY <1>5, <1>6

\* Variables of the loop, and the clock within the bound of the play.
LoopKinds ==
  /\ play \in Plays /\ requests \in 0..play.requests
  /\ phase \in {"frame", "switch", "inline", "script", "walk", "decide", "asleep"} \cup Ended
  /\ wake \in Nat \cup {SLEEP_CANCELED}
  /\ composeAgain \in BOOLEAN /\ event \in BOOLEAN
  /\ stale \in BOOLEAN /\ reentrant \in 0..MaxReentrant
  /\ now \in 0..play.time

\* Once the Switch and the Inline have been composed, nothing is left for them to do but
\* what another frame has been asked for.
Composing == {"script", "walk", "decide", "asleep"}
Settled ==
  /\ event => composeAgain
  /\ phase \in {"inline"} \cup Composing => ~tree.switched /\ (tree.chosen => ~tree.m_isUpdated)
  /\ phase \in Composing /\ ~composeAgain /\ tree.chosen =>
       /\ tree.m_state \notin {"LOADING", "ERROR"}
       /\ tree.m_state = "READY" => Quiet(tree.scenes[tree.m_scene].sensor)

\* The canvas wakes up for callbacks and for sensors.
WakesUpFor(w, tr, t) ==
  /\ ~stale => \A r \in Waiting : w <= due[r]
  /\ \A s \in Scenes : RunsIn(tr, s) =>
       \A u \in t..play.time : isActivable(tr.scenes[s].sensor, InTime(tr, u)) => w <= u

LoopInv ==
  LoopKinds /\ Settled /\ (phase = "asleep" /\ ~composeAgain => WakesUpFor(wake, tree, now))

\* What the loop decides.
LEMMA DecideWakesUp ==
  ASSUME CallInv, NodesInv, LoopInv, Decide
  PROVE  /\ wake' \in Nat \cup {SLEEP_CANCELED}
         /\ phase' \in {"frame", "asleep"}
         /\ phase' = "asleep" => ~composeAgain /\ ~event /\ WakesUpFor(wake', tree, now')
  <1> DEFINE a(t) == GetWakeupTime(t)
             b(t) == IF tree.chosen THEN InlineWakeup(tree, t, FALSE) ELSE a(t)
  <1>1. PICK t \in {now, now + 1} :
          LET d == IF composeAgain \/ event THEN SLEEP_CANCELED ELSE Duration(WakeupTime(t), t)
          IN /\ t <= play.time
             /\ now' = t
             /\ IF d > 0 THEN /\ phase' = "asleep"
                              /\ wake' = IF d = SLEEP_FOREVER THEN SLEEP_FOREVER ELSE t + d
                ELSE phase' = "frame" /\ wake' = SLEEP_CANCELED
    BY DEF Decide
  <1>2. /\ t \in Nat /\ pc = "idle" /\ phase = "decide" /\ CallbackInv /\ tree \in TreeKind
        /\ \A s \in Scenes : SceneInv(tree, decoders, windows[s], s)
    BY <1>1 DEF Decide, CallInv, CallbackInv, HeapKinds, NodesInv
  <1>3. SLEEP_CANCELED = -1 /\ SLEEP_FOREVER = 1000000
    BY DEF SLEEP_CANCELED, SLEEP_FOREVER
  <1> DEFINE e == WakeupTime(t)
             d == IF composeAgain \/ event THEN SLEEP_CANCELED ELSE Duration(e, t)
  <1>4. /\ a(t) \in Int
        /\ ~stale /\ a(t) # SLEEP_CANCELED => \A q \in Waiting : a(t) <= due[q]
    BY <1>2, CallbackWakesUp
  <1>5. /\ InlineWakeup(tree, t, FALSE) \in Int
        /\ /\ tree.chosen /\ tree.m_scene # None /\ tree.m_state = "READY"
           /\ ~tree.scenes[tree.m_scene].sensor.m_started
           /\ InlineWakeup(tree, t, FALSE) # SLEEP_CANCELED
           => \A u \in Int : t <= u /\ isActivable(tree.scenes[tree.m_scene].sensor, InTime(tree, u))
                               => InlineWakeup(tree, t, FALSE) <= u
    <2>1. t \in Int
      BY <1>2
    <2> QED BY <1>2, <2>1, InlineWakesUp
  <1>6. e = Earliest({a(t), b(t)})
    BY DEF WakeupTime
  <1>7. b(t) \in Int
    BY <1>4, <1>5
  <1> HIDE DEF a, b
  <1>8. e \in Int /\ (e = SLEEP_CANCELED \/ (a(t) # SLEEP_CANCELED /\ b(t) # SLEEP_CANCELED
                                               /\ e <= a(t) /\ e <= b(t) /\ e <= SLEEP_FOREVER))
    BY <1>4, <1>6, <1>7, EarliestOfTwo
  <1> HIDE DEF e
  <1>9. CASE ~(d > 0)
    <2>1. phase' = "frame" /\ wake' = SLEEP_CANCELED
      BY <1>1, <1>9 DEF e
    <2> QED BY <2>1
  <1>10. CASE d > 0
    <2>1. phase' = "asleep" /\ wake' = IF d = SLEEP_FOREVER THEN SLEEP_FOREVER ELSE t + d
      BY <1>1, <1>10 DEF e
    <2>2. ~composeAgain /\ ~event /\ d = Duration(e, t)
      BY <1>3, <1>10
    <2>3. wake' = e /\ e # SLEEP_CANCELED /\ e \in Nat
      <3>1. d = IF e \notin {SLEEP_CANCELED, SLEEP_FOREVER} THEN e - t ELSE e
        BY <2>2 DEF Duration, IsTime
      <3> HIDE DEF d
      <3> QED BY <1>2, <1>3, <1>8, <1>10, <2>1, <3>1
    <2> HIDE DEF d
    <2>4. e <= a(t) /\ e <= b(t) /\ a(t) # SLEEP_CANCELED /\ b(t) # SLEEP_CANCELED
      BY <1>8, <2>3
    <2>5. ASSUME ~stale, NEW q \in Waiting
          PROVE  e <= due[q]
      <3>1. a(t) <= due[q]
        BY <1>4, <2>4, <2>5
      <3>2. due[q] \in Int
        BY ElementOfSeq DEF CallInv, CallbackInv, HeapKinds, Times, Immediate, Waiting, Requests
      <3> QED BY <1>4, <1>8, <2>4, <3>1, <3>2
    <2>6. ASSUME NEW s \in Scenes, RunsIn(tree, s), NEW u \in t..play.time,
                 isActivable(tree.scenes[s].sensor, InTime(tree, u))
          PROVE  e <= u
      <3>1. tree.chosen /\ tree.m_scene = s /\ tree.m_state = "READY" /\ s # None
        BY <2>6 DEF RunsIn, Scenes, None
      <3>2. ~tree.scenes[s].sensor.m_started
        BY <1>2, <2>2, <3>1 DEF LoopInv, Settled, Composing, Quiet
      <3>3. play.time \in Int
        BY PlaysAssumption DEF LoopInv, LoopKinds
      <3>4. u \in Int /\ t <= u
        BY <1>2, <3>3
      <3>5. b(t) = InlineWakeup(tree, t, FALSE)
        BY <3>1 DEF b
      <3>6. b(t) <= u
        BY <1>5, <2>4, <2>6, <3>1, <3>2, <3>4, <3>5
      <3> QED BY <1>7, <1>8, <2>4, <3>4, <3>6
    <2>7. WakesUpFor(e, tree, t)
      BY <2>5, <2>6 DEF WakesUpFor
    <2> QED BY <1>1, <2>1, <2>2, <2>3, <2>7
  <1> QED
    BY <1>9, <1>10

LEMMA LoopStarts ==
  ASSUME SceneInit
  PROVE  LoopInv
  <1>1. /\ play \in Plays /\ requests = 0 /\ phase = "frame" /\ wake = SLEEP_CANCELED
        /\ composeAgain = FALSE /\ event = FALSE /\ stale = FALSE /\ reentrant = 0 /\ now = 0
    BY DEF SceneInit, Init
  <1>2. play.requests \in Nat /\ play.time \in Nat /\ MaxReentrant \in Nat
    BY <1>1, PlaysAssumption, BoundsAssumption
  <1>3. LoopKinds
    <2>1. requests \in 0..play.requests /\ now \in 0..play.time /\ reentrant \in 0..MaxReentrant
      BY <1>1, <1>2
    <2>2. composeAgain \in BOOLEAN /\ event \in BOOLEAN /\ stale \in BOOLEAN
      BY <1>1
    <2> QED BY <1>1, <2>1, <2>2 DEF LoopKinds
  <1> QED
    BY <1>1, <1>3 DEF LoopInv, Settled, Composing

\* A step that leaves the callbacks, the nodes and the phase alone.
LEMMA LoopStays ==
  ASSUME LoopInv, UNCHANGED <<vars, tree, play, phase, wake>>,
         composeAgain' \in BOOLEAN, event' \in BOOLEAN, requests' \in 0..play.requests,
         composeAgain \/ event' # event => composeAgain'
  PROVE  LoopInv'
  <1>1. LoopKinds'
    BY DEF LoopInv, LoopKinds, vars
  <1>2. Settled'
    BY DEF LoopInv, LoopKinds, Settled, Composing
  <1>3. WakesUpFor(wake, tree, now) => WakesUpFor(wake, tree, now)'
    BY DEF WakesUpFor, Waiting, Requests, IsInvoked, RunsIn, isActivable, IsOver, InTime, vars
  <1> QED
    BY <1>1, <1>2, <1>3 DEF LoopInv, vars

\* A step into another phase than the sleep.
LEMMA LoopMoves ==
  ASSUME LoopInv, UNCHANGED <<play, now>>, requests' = requests, wake' \in {wake, SLEEP_CANCELED},
         composeAgain' \in BOOLEAN, event' \in BOOLEAN, stale' \in BOOLEAN, reentrant' \in 0..MaxReentrant,
         phase' \in {"frame", "switch", "inline", "script", "walk", "decide"} \cup Ended,
         Settled'
  PROVE  LoopInv'
  BY DEF LoopInv, LoopKinds, Ended

LEMMA LoopSteps ==
  ASSUME CallInv, NodesInv, LoopInv, [SceneNext]_sceneVars
  PROVE  LoopInv'
  <1>0. now \in Nat /\ LoopKinds /\ Settled
    BY DEF CallInv, CallbackInv, HeapKinds, LoopInv
  <1>1. CASE UNCHANGED sceneVars
    BY <1>0, <1>1, LoopStays DEF LoopKinds, sceneVars, nodes, loop
  <1>2. CASE Frame
    <2>1. /\ phase' = "switch" /\ event' = FALSE /\ composeAgain' \in BOOLEAN /\ wake' = SLEEP_CANCELED
          /\ UNCHANGED <<play, now, stale, reentrant, requests>>
      BY <1>2 DEF Frame, vars
    <2>2. Settled'
      BY <2>1 DEF Settled, Composing
    <2> QED BY <1>0, <2>1, <2>2, LoopMoves DEF LoopKinds
  <1>3. CASE Switch
    <2>1. /\ phase' \in {"inline", "full"}
          /\ UNCHANGED <<play, now, stale, reentrant, wake, composeAgain, event, requests>>
      BY <1>3 DEF Switch, vars
    <2>2. phase' = "inline" => tree'.switched = FALSE /\ (tree'.chosen => ~tree'.m_isUpdated)
      BY <1>0, <1>3, NodesInSwitch
    <2>3. Settled'
      BY <1>0, <2>1, <2>2 DEF Settled, Composing
    <2> QED BY <1>0, <2>1, <2>3, LoopMoves DEF LoopKinds, Ended
  <1>4. CASE ComposeInline
    <2>1. /\ phase = "inline" /\ phase' \in {"script", "broken"}
          /\ composeAgain' \in BOOLEAN /\ (composeAgain => composeAgain')
          /\ UNCHANGED <<play, now, stale, reentrant, wake, event, requests>>
      BY <1>0, <1>4 DEF ComposeInline, vars, LoopKinds
    <2>2. /\ tree'.switched = tree.switched
          /\ tree'.chosen = tree.chosen /\ tree'.m_isUpdated = tree.m_isUpdated
          /\ phase' = "script" /\ ~composeAgain' /\ tree'.chosen =>
               /\ tree'.m_state \notin {"LOADING", "ERROR"}
               /\ tree'.m_state = "READY" => Quiet(tree'.scenes[tree'.m_scene].sensor)
      BY <1>0, <1>4, NodesInInline
    <2>3. Settled'
      BY <1>0, <2>1, <2>2 DEF Settled, Composing
    <2> QED BY <1>0, <2>1, <2>3, LoopMoves DEF LoopKinds, Ended
  <1>5. CASE Walk
    <2>1. /\ phase \in {"script", "walk"} /\ phase' \in {"walk", "decide"}
          /\ UNCHANGED <<tree, play, wake, composeAgain, event, requests, now>>
      BY <1>5 DEF Walk, nodes, vars, InvokeCallbacks, InvokeNext, FunctionReturns, AddFromFunction, InvokeEnds
    <2>2. stale' \in BOOLEAN /\ reentrant' \in 0..MaxReentrant
      <3>1. stale \in BOOLEAN /\ reentrant \in 0..MaxReentrant /\ MaxReentrant \in Nat
        BY <1>0, BoundsAssumption DEF LoopKinds
      <3>2. CASE AddFromFunction
        BY <3>1, <3>2 DEF AddFromFunction
      <3>3. CASE InvokeNext
        BY <3>1, <3>3 DEF InvokeNext
      <3>4. CASE UNCHANGED vars \/ InvokeCallbacks \/ FunctionReturns \/ InvokeEnds
        BY <3>1, <3>4 DEF vars, InvokeCallbacks, FunctionReturns, InvokeEnds
      <3> QED BY <1>5, <3>2, <3>3, <3>4 DEF Walk
    <2>3. Settled'
      BY <1>0, <2>1 DEF Settled, Composing
    <2> QED BY <1>0, <2>1, <2>2, <2>3, LoopMoves DEF LoopKinds
  <1>6. CASE Decide
    <2>1. /\ wake' \in Nat \cup {SLEEP_CANCELED} /\ phase' \in {"frame", "asleep"}
          /\ phase' = "asleep" => ~composeAgain /\ ~event /\ WakesUpFor(wake', tree, now')
      BY <1>6, DecideWakesUp
    <2>2. /\ phase = "decide" /\ now' \in {now, now + 1} /\ now' <= play.time
          /\ UNCHANGED <<due, invoked, stale, reentrant, tree, play, composeAgain, event, requests>>
      BY <1>6 DEF Decide, nodes
    <2>3. LoopKinds'
      <3>1. now' \in 0..play.time
        <4>1. play.time \in Nat
          BY <1>0, PlaysAssumption DEF LoopKinds
        <4> QED BY <1>0, <2>2, <4>1
      <3> QED BY <1>0, <2>1, <2>2, <3>1 DEF LoopKinds
    <2>4. Settled'
      BY <1>0, <2>1, <2>2 DEF Settled, Composing
    <2>5. WakesUpFor(wake', tree, now') => WakesUpFor(wake, tree, now)'
      BY <2>2 DEF WakesUpFor, Waiting, Requests, IsInvoked, RunsIn, isActivable, IsOver, InTime
    <2> QED BY <2>1, <2>3, <2>4, <2>5 DEF LoopInv
  <1>7. CASE WakeUp
    <2>1. /\ phase = "asleep" /\ phase' = "frame"
          /\ UNCHANGED <<stale, reentrant, tree, play, wake, composeAgain, event, requests>>
      BY <1>7 DEF WakeUp, nodes
    <2>2. now' \in 0..play.time
      <3>1. play.time \in Nat /\ now \in 0..play.time
        BY <1>0, PlaysAssumption DEF LoopKinds
      <3>2. CASE now' = now
        BY <3>1, <3>2
      <3>3. CASE now' \in now..wake /\ now' <= play.time
        BY <3>1, <3>3
      <3> QED BY <1>7, <3>2, <3>3 DEF WakeUp
    <2>3. LoopKinds' /\ Settled'
      BY <1>0, <2>1, <2>2 DEF LoopKinds, Settled, Composing
    <2> QED BY <2>1, <2>3 DEF LoopInv
  <1>8. CASE Event
    BY <1>0, <1>8, LoopStays, PlaysAssumption DEF Event, LoopKinds, nodes
  <1>9. CASE Posted
    <2>1. /\ composeAgain' = TRUE /\ UNCHANGED <<reentrant, stale, now, tree, play, phase, wake, event, requests>>
      BY <1>9 DEF Posted, nodes
    <2>2. LoopKinds' /\ Settled'
      BY <1>0, <2>1 DEF LoopKinds, Settled, Composing
    <2> QED BY <2>1, <2>2 DEF LoopInv
  <1>10. CASE SetTimeout
    <2>1. phase = "script" /\ UNCHANGED <<reentrant, stale, now, tree, play, phase, wake, composeAgain, event, requests>>
      BY <1>10 DEF SetTimeout, nodes, loop
    <2>2. Settled'
      BY <1>0, <2>1 DEF Settled, Composing
    <2> QED BY <1>0, <2>1, <2>2, LoopMoves DEF LoopKinds
  <1>11. CASE LeaveScene
    <2>1. phase' = "left" /\ UNCHANGED <<play, now, stale, reentrant, wake, composeAgain, event, requests>>
      BY <1>11 DEF LeaveScene, vars
    <2>2. Settled'
      BY <1>0, <2>1 DEF Settled, Composing
    <2> QED BY <1>0, <2>1, <2>2, LoopMoves DEF LoopKinds, Ended
  <1>12. CASE \E d \in Scenes : Thread(d)
    <2>1. /\ UNCHANGED <<vars, tree, play, phase, wake, event, requests>>
          /\ composeAgain' \in BOOLEAN /\ (composeAgain => composeAgain')
      BY <1>0, <1>12 DEF Thread, LoopKinds
    <2> QED BY <1>0, <2>1, LoopStays DEF LoopKinds
  <1> QED
    BY <1>1, <1>2, <1>3, <1>4, <1>5, <1>6, <1>7, <1>8, <1>9, <1>10, <1>11, <1>12 DEF SceneNext, Step

LEMMA LoopInvariance == SceneSpec => []LoopInv
  <1>1. SceneInit => LoopInv
    BY LoopStarts
  <1>2. CallInv /\ NodesInv /\ LoopInv /\ [SceneNext]_sceneVars => LoopInv'
    BY LoopSteps
  <1> QED
    BY <1>1, <1>2, CallbackInvariance, NodesInvariance, PTL DEF SceneSpec

\* The canvas does not sleep past what has to be done, whatever is changed by events,
\* called back, loaded by threads or composed before it decides: it is not asleep with
\* a choice, a url or a scene to be composed, and wakes up for each callback and for
\* each start of a sensor within the clock's bound (MyCanvas.eventLoop, getWakeupTime of
\* Script, TimeSensor, Inline and Scene).
THEOREM SleepsNoLonger == SceneSpec => []SleepsUntilNeeded
  <1>1. ASSUME NodesInv, LoopInv, phase = "asleep", ~composeAgain
        PROVE  /\ ~event /\ ~tree.switched
               /\ tree.chosen => ~tree.m_isUpdated /\ tree.m_state \notin {"LOADING", "ERROR"}
               /\ ~stale => \A r \in Waiting : wake <= due[r]
               /\ \A s \in Scenes : Running(s) =>
                    LET ts == tree.scenes[s].sensor IN
                    /\ ~ts.m_started /\ ~ts.isActive
                    /\ \A u \in now .. play.time : isActivable(ts, InTime(tree, u)) => u >= wake
    <2>1. Settled /\ WakesUpFor(wake, tree, now)
      BY <1>1 DEF LoopInv
    <2>2. /\ ~event /\ ~tree.switched
          /\ tree.chosen => ~tree.m_isUpdated /\ tree.m_state \notin {"LOADING", "ERROR"}
          /\ ~stale => \A r \in Waiting : wake <= due[r]
      BY <1>1, <2>1 DEF Settled, Composing, WakesUpFor
    <2>3. ASSUME NEW s \in Scenes, Running(s)
          PROVE  LET ts == tree.scenes[s].sensor
                 IN /\ ~ts.m_started /\ ~ts.isActive
                    /\ \A u \in now .. play.time : isActivable(ts, InTime(tree, u)) => u >= wake
      <3> DEFINE ts == tree.scenes[s].sensor
      <3>1. Quiet(ts)
        BY <1>1, <2>1, <2>3 DEF Settled, Composing, Running
      <3>2. SensorTold(ts) /\ ts.m_lastFrac \in Int
        <4>1. SceneInv(tree, decoders, windows[s], s) /\ tree.scenes[s] \in SceneKind
          BY <1>1, <2>3 DEF NodesInv, TreeKind
        <4> QED BY <4>1 DEF SceneInv, SceneKind, SensorType
      <3>3. ~ts.m_started /\ ~ts.isActive
        BY <3>1, <3>2 DEF Quiet, SensorTold
      <3>4. \A u \in now .. play.time : isActivable(ts, InTime(tree, u)) => u >= wake
        BY <2>1, <2>3 DEF WakesUpFor, Running, RunsIn
      <3> QED BY <3>3, <3>4
    <2> QED BY <2>2, <2>3
  <1>2. NodesInv /\ LoopInv => SleepsUntilNeeded
    BY <1>1 DEF SleepsUntilNeeded
  <1> QED
    BY <1>2, NodesInvariance, LoopInvariance, PTL

\* The variables of the scene, of its nodes and of the loop have their types; the starts
\* of a scene and the registrations of its sensor, which the code does not bound, are
\* two at most.
THEOREM TypesKept == SceneSpec => []SceneTypeOK
  <1>1. ASSUME CallInv, LoopInv
        PROVE  TypeOK
    <2>1. HeapKinds /\ LoopKinds
      BY <1>1 DEF CallInv, CallbackInv, LoopInv
    <2>2. /\ Len(due) \in Nat /\ Len(due) <= MaxCalls /\ MaxCalls \in Nat /\ MaxTime \in Nat
          /\ created \in 0..Len(due)
      BY <2>1, BoundsAssumption, LenProperties DEF HeapKinds
    <2>3. created \in 0..MaxCalls /\ 1..created \subseteq Cells
      BY <2>2 DEF Cells
    <2>4. next \in [Cells -> Cells \cup {Null}] /\ {s_pool, m_cbList, cb} \subseteq Cells \cup {Null}
      BY <2>1, <2>3 DEF HeapKinds
    <2>5. fn \in [Cells -> 0..MaxCalls]
      BY <2>1, <2>2 DEF HeapKinds
    <2>6. invoked \in Seq(1..MaxCalls)
      <3>1. invoked \in Seq(Nat) /\ \A i \in 1..Len(invoked) : invoked[i] \in 1..MaxCalls
        BY <2>1, <2>2 DEF HeapKinds
      <3>2. Len(invoked) \in Nat /\ DOMAIN invoked = 1..Len(invoked)
        BY <3>1, LenProperties
      <3>3. invoked = [i \in 1..Len(invoked) |-> invoked[i]]
        BY <3>1, <3>2
      <3>4. invoked \in [1..Len(invoked) -> 1..MaxCalls]
        <4> DEFINE n == Len(invoked)
        <4>1. invoked = [i \in 1..n |-> invoked[i]] /\ \A i \in 1..n : invoked[i] \in 1..MaxCalls
          BY <3>1, <3>3
        <4> HIDE DEF n
        <4>2. invoked \in [1..n -> 1..MaxCalls]
          BY <4>1
        <4> QED BY <4>2 DEF n
      <3> QED BY <3>2, <3>4, SeqDef
    <2>7. now \in 0..MaxTime
      <3>1. play.time \in 0..MaxTime /\ now \in 0..play.time
        BY <2>1, PlaysAssumption DEF LoopKinds
      <3> QED BY <2>2, <3>1
    <2> QED BY <2>1, <2>2, <2>3, <2>4, <2>5, <2>6, <2>7 DEF TypeOK, HeapKinds, LoopKinds, Times
  <1>2. ASSUME NodesInv
        PROVE  tree \in TreeType
    <2>1. ASSUME NEW s \in Scenes
          PROVE  tree.scenes[s] \in [ m_decoder : Scenes \cup {Main}, m_node : {"none", "decoded", "destroyed"},
                                      starts : 0..2, registered : 0..2, sensor : SensorType ]
      <3> DEFINE sc == tree.scenes[s]
      <3>1. sc \in SceneKind /\ SceneInv(tree, decoders, windows[s], s)
        BY <1>2, <2>1 DEF NodesInv, TreeKind
      <3>2. sc.starts <= MostStarts(tree, s) /\ sc.registered = sc.starts /\ MostStarts(tree, s) \in 0..2
        BY <3>1 DEF SceneInv, MostStarts
      <3> HIDE DEF sc
      <3>3. sc.starts \in 0..2 /\ sc.registered \in 0..2
        BY <3>1, <3>2 DEF SceneKind
      <3>4. sc \in [ m_decoder : Scenes \cup {Main}, m_node : {"none", "decoded", "destroyed"},
                     starts : 0..2, registered : 0..2, sensor : SensorType ]
        BY <3>1, <3>3 DEF SceneKind
      <3> QED BY <3>4 DEF sc
    <2> QED BY <1>2, <2>1 DEF NodesInv, TreeKind, TreeType
  <1>3. CallInv /\ NodesInv /\ LoopInv => SceneTypeOK
    BY <1>1, <1>2 DEF SceneTypeOK, NodesInv, DecodersInv, LoopInv, LoopKinds
  <1> QED
    BY <1>3, CallbackInvariance, NodesInvariance, LoopInvariance, PTL
===============================================================================
