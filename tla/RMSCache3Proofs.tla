--------------------------- MODULE RMSCache3Proofs ---------------------------
(***************************************************************************)
(* The cache manager for every set of keys and values and every bound.     *)
(* Kinds holds in every behaviour; SoundInv as long as none of the windows *)
(* of FaultKinds has been met, and what the manager promises follows from  *)
(* it: a read returns the last write (TableFollows), a key without an      *)
(* operation is stored once with its last value (TruthFollows), a kill     *)
(* leaves what was saved (SavedValues), closeAll leaves nothing to write   *)
(* (Looking).  The other parts say why a flush, which runs without the     *)
(* monitor, still writes the record of its key: it has read of its entry   *)
(* what the last call left there (Writing), and the entry of the last      *)
(* operation of a key knows its records (Owners).                          *)
(***************************************************************************)
EXTENDS RMSCache3, FiniteSetTheorems, SequenceTheorems, TLAPS

OpKind    == [key : Keys \cup Values \cup {EraseAll}, e : Nat]
EntryKind == [name : Keys \cup Values, index : Nat, data : Keys \cup Values \cup {None}]

-----------------------------------------------------------------------------
(* Queues.  What matters of a queue is which operations are in it.         *)

Op(k, e) == [key |-> k, e |-> e]

\* A queue has one operation per key; the operation without an entry is the erasing.
QueueKind(q) ==
  /\ q \in Seq(OpKind)
  /\ \A i, j \in DOMAIN q : q[i].key = q[j].key => i = j
  /\ \A o \in Range(q) : o.e = 0 <=> o.key = EraseAll

\* The store is erased before anything is written.
ErasesFirst(q) == \A i \in DOMAIN q : q[i].key = EraseAll => i = 1

LEMMA QueueIs ==
  ASSUME NEW q, QueueKind(q)
  PROVE  /\ Len(q) \in Nat /\ DOMAIN q = 1..Len(q) /\ Range(q) \subseteq OpKind
         /\ KeysOf(q) = {o.key : o \in Range(q)}
         /\ ObjectsOf(q) = {o.e : o \in Range(q)} \ {0}
         /\ ObjectsOf(q) \subseteq Nat \ {0}
         /\ \A o, p \in Range(q) : o.key = p.key => o = p
  <1>1. Len(q) \in Nat /\ DOMAIN q = 1..Len(q) /\ Range(q) \subseteq OpKind
    BY LenProperties, RangeOfSeq DEF QueueKind
  <1>2. KeysOf(q) = {o.key : o \in Range(q)} /\ ObjectsOf(q) = {o.e : o \in Range(q)} \ {0}
    BY DEF KeysOf, ObjectsOf, Range
  <1>3. \A o, p \in Range(q) : o.key = p.key => o = p
    BY DEF QueueKind, Range
  <1>4. ObjectsOf(q) \subseteq Nat \ {0}
    BY <1>1, <1>2 DEF OpKind
  <1> QED BY <1>1, <1>2, <1>3, <1>4

LEMMA EmptyQueue ==
  /\ QueueKind(<<>>) /\ ErasesFirst(<<>>)
  /\ Range(<<>>) = {} /\ KeysOf(<<>>) = {} /\ ObjectsOf(<<>>) = {}
  <1>1. <<>> \in Seq(OpKind) /\ DOMAIN <<>> = {}
    BY EmptySeq
  <1> QED BY <1>1 DEF QueueKind, ErasesFirst, Range, KeysOf, ObjectsOf

\* An operation takes the place of the one of the same key, or the last place.
LEMMA QueueAdds ==
  ASSUME NEW q, QueueKind(q), NEW k, NEW e, Op(k, e) \in OpKind, e = 0 <=> k = EraseAll
  PROVE  LET r == addAsyncOperation(q, k, e) IN
         /\ QueueKind(r)
         /\ Range(r) = {o \in Range(q) : o.key # k} \cup {Op(k, e)}
         /\ ErasesFirst(q) /\ (q = <<>> \/ k # EraseAll) => ErasesFirst(r)
  <1> DEFINE o == Op(k, e)
             n == Len(q)
             r == addAsyncOperation(q, k, e)
  <1>1. n \in Nat /\ DOMAIN q = 1..n /\ q \in Seq(OpKind) /\ \A i \in 1..n : q[i] \in OpKind
    BY QueueIs, ElementOfSeq DEF QueueKind
  <1>2. o \in OpKind /\ o.key = k /\ o.e = e
    BY DEF Op
  <1>3. r = IF k \in KeysOf(q) THEN [i \in DOMAIN q |-> IF q[i].key = k THEN o ELSE q[i]]
            ELSE Append(q, o)
    BY DEF addAsyncOperation, Op
  <1> HIDE DEF o, r
  <1>4. CASE k \in KeysOf(q)
    <2>1. /\ DOMAIN r = 1..n /\ r \in [1..n -> OpKind]
          /\ \A i \in 1..n : r[i] = IF q[i].key = k THEN o ELSE q[i]
      BY <1>1, <1>2, <1>3, <1>4
    <2>2. r \in Seq(OpKind)
      BY <1>1, <2>1, SeqDef
    <2>3. PICK j \in 1..n : q[j].key = k
      BY <1>1, <1>4 DEF KeysOf
    <2>4. \A i \in 1..n : r[i].key = q[i].key
      BY <1>2, <2>1
    <2>5. \A i, j2 \in DOMAIN r : r[i].key = r[j2].key => i = j2
      BY <1>1, <2>1, <2>4 DEF QueueKind
    <2>6. Range(r) = {p \in Range(q) : p.key # k} \cup {o}
      <3>1. \A i \in 1..n : r[i] \in {p \in Range(q) : p.key # k} \cup {o}
        BY <1>1, <2>1 DEF Range
      <3>2. \A i \in 1..n : q[i].key # k => q[i] \in Range(r)
        BY <1>1, <2>1 DEF Range
      <3>3. o \in Range(r)
        BY <2>1, <2>3 DEF Range
      <3> QED BY <1>1, <2>1, <3>1, <3>2, <3>3 DEF Range
    <2>7. \A p \in Range(r) : p.e = 0 <=> p.key = EraseAll
      BY <2>6, <1>2 DEF QueueKind
    <2>8. ErasesFirst(q) => ErasesFirst(r)
      BY <1>1, <2>1, <2>4 DEF ErasesFirst
    <2> QED BY <2>2, <2>5, <2>6, <2>7, <2>8 DEF QueueKind, o, r
  <1>5. CASE k \notin KeysOf(q)
    <2>1. /\ r \in Seq(OpKind) /\ DOMAIN r = 1..(n + 1) /\ r[n + 1] = o
          /\ \A i \in 1..n : r[i] = q[i]
      BY <1>1, <1>2, <1>3, <1>5, AppendProperties, LenProperties
    <2>2. \A i \in 1..n : q[i].key # k
      BY <1>1, <1>5 DEF KeysOf
    <2>3. \A i, j \in DOMAIN r : r[i].key = r[j].key => i = j
      BY <1>1, <1>2, <2>1, <2>2 DEF QueueKind
    <2>4. Range(r) = {p \in Range(q) : p.key # k} \cup {o}
      <3>1. \A i \in DOMAIN r : r[i] \in {p \in Range(q) : p.key # k} \cup {o}
        BY <1>1, <2>1, <2>2 DEF Range
      <3>2. \A i \in 1..n : q[i] \in Range(r)
        BY <1>1, <2>1 DEF Range
      <3>3. o \in Range(r)
        BY <1>1, <2>1 DEF Range
      <3> QED BY <1>1, <2>1, <3>1, <3>2, <3>3 DEF Range
    <2>5. \A p \in Range(r) : p.e = 0 <=> p.key = EraseAll
      BY <2>4, <1>2 DEF QueueKind
    <2>6. ErasesFirst(q) /\ (q = <<>> \/ k # EraseAll) => ErasesFirst(r)
      <3>1. q = <<>> => n = 0
        BY EmptySeq
      <3> QED BY <1>1, <1>2, <2>1, <3>1 DEF ErasesFirst
    <2> QED BY <2>1, <2>3, <2>4, <2>5, <2>6 DEF QueueKind, o, r
  <1> QED BY <1>4, <1>5

\* The first operation is done.
LEMMA QueueMoves ==
  ASSUME NEW q, QueueKind(q), q # <<>>
  PROVE  /\ Head(q) \in Range(q) /\ QueueKind(Tail(q))
         /\ Range(Tail(q)) = Range(q) \ {Head(q)}
         /\ ErasesFirst(q) => EraseAll \notin KeysOf(Tail(q))
         /\ ErasesFirst(q) /\ EraseAll \in KeysOf(q) => Head(q).key = EraseAll
  <1> DEFINE n == Len(q)
             t == Tail(q)
  <1>1. n \in Nat \ {0} /\ DOMAIN q = 1..n /\ q \in Seq(OpKind)
    BY QueueIs, EmptySeq DEF QueueKind
  <1>2. /\ t \in Seq(OpKind) /\ DOMAIN t = 1..(n - 1) /\ \A i \in 1..(n - 1) : t[i] = q[i + 1]
    <2>1. t \in Seq(OpKind) /\ Len(t) = n - 1 /\ \A i \in 1..Len(t) : t[i] = q[i + 1]
      BY <1>1, HeadTailProperties
    <2> QED BY <2>1, LenProperties
  <1>3. Head(q) = q[1] /\ 1 \in 1..n
    BY <1>1
  <1> HIDE DEF t
  <1>4. Head(q) \in Range(q)
    BY <1>1, <1>3 DEF Range
  <1>5. \A i, j \in DOMAIN t : t[i].key = t[j].key => i = j
    <2>1. ASSUME NEW i \in 1..(n - 1), NEW j \in 1..(n - 1), t[i].key = t[j].key PROVE i = j
      <3>1. i + 1 \in 1..n /\ j + 1 \in 1..n
        BY <1>1
      <3>2. i + 1 = j + 1
        BY <1>1, <1>2, <2>1, <3>1 DEF QueueKind
      <3> QED BY <3>2
    <2> QED BY <1>2, <2>1
  <1>6. Range(t) = Range(q) \ {Head(q)}
    <2>1. ASSUME NEW i \in 1..(n - 1) PROVE t[i] \in Range(q) /\ t[i] # q[1]
      <3>1. i + 1 \in 1..n /\ i + 1 # 1
        BY <1>1
      <3> QED BY <1>1, <1>2, <1>3, <3>1 DEF QueueKind, Range
    <2>2. ASSUME NEW i \in 1..n, q[i] # q[1] PROVE q[i] \in Range(t)
      <3>1. i - 1 \in 1..(n - 1) /\ (i - 1) + 1 = i
        BY <1>1, <2>2
      <3>2. t[i - 1] = q[i]
        BY <1>2, <3>1
      <3> QED BY <1>2, <3>1, <3>2 DEF Range
    <2> QED BY <1>1, <1>2, <1>3, <2>1, <2>2 DEF Range
  <1>7. \A p \in Range(t) : p.e = 0 <=> p.key = EraseAll
    BY <1>6 DEF QueueKind
  <1>8. ErasesFirst(q) => EraseAll \notin KeysOf(t)
    <2>1. ASSUME ErasesFirst(q), NEW i \in 1..(n - 1) PROVE t[i].key # EraseAll
      <3>1. i + 1 \in 1..n /\ i + 1 # 1
        BY <1>1
      <3> QED BY <1>1, <1>2, <2>1, <3>1 DEF ErasesFirst
    <2> QED BY <1>2, <2>1 DEF KeysOf
  <1>9. ErasesFirst(q) /\ EraseAll \in KeysOf(q) => Head(q).key = EraseAll
    BY <1>1, <1>3 DEF ErasesFirst, KeysOf
  <1> QED BY <1>2, <1>4, <1>5, <1>6, <1>7, <1>8, <1>9 DEF QueueKind, t

-----------------------------------------------------------------------------
(* The objects and the table.                                              *)

LEMMA ObjectsKept ==
  ASSUME NEW o, NEW t, NEW q, NEW p
  PROVE  /\ DOMAIN Kept(o, t, q, p) = t \cup ObjectsOf(q) \cup ObjectsOf(p)
         /\ \A e \in DOMAIN Kept(o, t, q, p) : Kept(o, t, q, p)[e] = o[e]
  BY DEF Kept

\* A queue refers to finitely many objects.
LEMMA FewObjects ==
  ASSUME NEW q, QueueKind(q)
  PROVE  IsFiniteSet(ObjectsOf(q))
  <1> DEFINE f == [i \in DOMAIN q |-> q[i].e]
  <1>1. IsFiniteSet(DOMAIN q)
    BY QueueIs, FS_Interval
  <1>2. f \in Surjection(DOMAIN q, {q[i].e : i \in DOMAIN q})
    BY DEF Surjection
  <1>3. IsFiniteSet({q[i].e : i \in DOMAIN q})
    <2> HIDE DEF f
    <2> QED BY <1>1, <1>2, FS_Surjection
  <1>4. ObjectsOf(q) \in SUBSET {q[i].e : i \in DOMAIN q}
    BY DEF ObjectsOf
  <1> QED BY <1>3, <1>4, FS_Subset

\* There is always a new object.
LEMMA NewObjectIsNew ==
  ASSUME IsFiniteSet(DOMAIN obj)
  PROVE  NewObject \in Nat \ {0} /\ NewObject \notin DOMAIN obj
  <1> DEFINE n == Cardinality(DOMAIN obj)
  <1>1. n \in Nat
    BY FS_CardinalityType
  <1>2. \E i \in 1..(n + 1) : i \notin DOMAIN obj
    <2>1. SUFFICES ASSUME 1..(n + 1) \in SUBSET DOMAIN obj PROVE FALSE
      OBVIOUS
    <2>2. Cardinality(1..(n + 1)) <= n
      BY <2>1, FS_Subset
    <2>3. 1 \in Int /\ n + 1 \in Int /\ ~(1 > n + 1) /\ n + 1 - 1 + 1 = n + 1
      BY <1>1
    <2>4. Cardinality(1..(n + 1)) = n + 1
      BY <2>3, FS_Interval
    <2> QED BY <1>1, <2>2, <2>4
  <1> QED BY <1>1, <1>2 DEF NewObject

\* A finite set is the range of the sequence without repetition that it is turned into.
LEMMA SequenceOf ==
  ASSUME NEW S, IsFiniteSet(S)
  PROVE  LET s == SetToSeq(S) IN
         /\ s \in Seq(S) /\ Range(s) = S
         /\ \A i, j \in DOMAIN s : s[i] = s[j] => i = j
  <1> DEFINE n == Cardinality(S)
             s == SetToSeq(S)
  <1>1. n \in Nat /\ ExistsBijection(1..n, S)
    BY FS_CardinalityType
  <1>2. PICK g : g \in Bijection(1..n, S)
    BY <1>1 DEF ExistsBijection
  <1>3. g \in [1..n -> S] /\ IsInjective(g)
    BY <1>2 DEF Bijection, Injection
  <1>4. s \in [1..n -> S] /\ IsInjective(s)
    BY <1>3 DEF SetToSeq
  <1> HIDE DEF s
  <1>5. s \in Injection(1..n, S)
    BY <1>4 DEF Injection
  <1>6. s \in Seq(S) /\ DOMAIN s = 1..n
    BY <1>1, <1>4, SeqDef
  <1>7. s \in Surjection(1..n, S)
    <2>1. IsFiniteSet(1..n) /\ Cardinality(1..n) = n
      <3>1. 1 \in Int /\ n \in Int /\ (1 > n => n = 0) /\ n - 1 + 1 = n
        BY <1>1
      <3> QED BY <3>1, FS_Interval
    <2>2. Range(s) \in SUBSET S
      BY <1>4 DEF Range
    <2>3. s \in Surjection(1..n, Range(s)) /\ s \in Injection(1..n, Range(s))
      BY <1>4, <1>6 DEF Range, Surjection, Injection
    <2>4. IsFiniteSet(Range(s)) /\ Cardinality(Range(s)) = n
      BY <2>1, <2>3, FS_Surjection
    <2>5. Range(s) = S
      BY <2>2, <2>4, FS_Subset
    <2> QED BY <1>4, <1>6, <2>5 DEF Range, Surjection
  <1>8. Range(s) = S
    BY <1>4, <1>6, <1>7 DEF Range, Surjection
  <1> QED BY <1>4, <1>6, <1>8 DEF IsInjective, s

\* The names of a finite table.
LEMMA FewNames ==
  ASSUME NEW T, IsFiniteSet(T), NEW o
  PROVE  IsFiniteSet({o[e].name : e \in T})
  <1> DEFINE f == [e \in T |-> o[e].name]
  <1>1. f \in Surjection(T, {o[e].name : e \in T})
    BY DEF Surjection
  <1> HIDE DEF f
  <1> QED BY <1>1, FS_Surjection

\* The queue of a pack: the erasing, and every entry of the table.
LEMMA PackedIs ==
  ASSUME QueueKind(queue), IsFiniteSet(m_entries), m_entries \subseteq DOMAIN obj,
         DOMAIN obj \subseteq Nat \ {0}, \A e \in DOMAIN obj : obj[e] \in EntryKind
  PROVE  LET q     == addAsyncOperation(queue, EraseAll, 0)
             one(k) == CHOOSE e \in findEntry(k) : TRUE
         IN
         /\ QueueKind(PackedQueue) /\ Op(EraseAll, 0) \in Range(PackedQueue)
         /\ Range(PackedQueue) = {o \in Range(q) : findEntry(o.key) = {}}
                                 \cup {Op(obj[e].name, one(obj[e].name)) : e \in m_entries}
         /\ \A e \in m_entries : one(obj[e].name) \in m_entries /\ obj[one(obj[e].name)].name = obj[e].name
         /\ queue = <<>> => ErasesFirst(PackedQueue)
  <1> DEFINE q      == addAsyncOperation(queue, EraseAll, 0)
             one(k) == CHOOSE e \in findEntry(k) : TRUE
             names  == {obj[e].name : e \in m_entries}
             others == SetToSeq(names \ KeysOf(q))
             l      == [i \in DOMAIN q |-> IF findEntry(q[i].key) = {} THEN q[i]
                                           ELSE Op(q[i].key, one(q[i].key))]
             t      == [i \in DOMAIN others |-> Op(others[i], one(others[i]))]
             n      == Len(q)
             m      == Len(others)
             r      == l \o t
  <1>1. /\ QueueKind(q) /\ Range(q) = {o \in Range(queue) : o.key # EraseAll} \cup {Op(EraseAll, 0)}
        /\ queue = <<>> => ErasesFirst(q)
    <2>1. Op(EraseAll, 0) \in OpKind /\ (0 = 0 <=> EraseAll = EraseAll)
      BY DEF Op, OpKind
    <2> QED BY <2>1, QueueAdds, EmptyQueue
  <1>2. PackedQueue = r
    BY DEF PackedQueue, Op
  <1>3. names \subseteq Keys \cup Values
    BY DEF EntryKind
  <1>4. \A k \in names : one(k) \in m_entries /\ obj[one(k)].name = k /\ findEntry(k) # {}
    BY DEF findEntry
  <1>5. \A k : findEntry(k) # {} => k \in names
    BY DEF findEntry
  <1>6. \A k \in names : Op(k, one(k)) \in OpKind /\ one(k) # 0 /\ k # EraseAll
    BY <1>3, <1>4, ConstantsAssumption DEF Op, OpKind
  <1>7. /\ others \in Seq(names \ KeysOf(q)) /\ Range(others) = names \ KeysOf(q)
        /\ \A i, j \in DOMAIN others : others[i] = others[j] => i = j
    <2>1. IsFiniteSet(names)
      BY FewNames
    <2>2. names \ KeysOf(q) \in SUBSET names
      OBVIOUS
    <2>3. IsFiniteSet(names \ KeysOf(q))
      BY <2>1, <2>2, FS_Subset
    <2> HIDE DEF names, q
    <2> QED BY <2>3, SequenceOf
  <1> HIDE DEF q, one, names, others
  <1>8. n \in Nat /\ DOMAIN q = 1..n /\ q \in Seq(OpKind) /\ KeysOf(q) = {o.key : o \in Range(q)}
    BY <1>1, QueueIs DEF QueueKind
  <1>9. m \in Nat /\ DOMAIN others = 1..m /\ \A i \in 1..m : others[i] \in names \ KeysOf(q)
    BY <1>7, LenProperties, ElementOfSeq
  <1>10. /\ l \in Seq(OpKind) /\ Len(l) = n
         /\ \A i \in 1..n : l[i] = IF findEntry(q[i].key) = {} THEN q[i] ELSE Op(q[i].key, one(q[i].key))
    <2>1. \A i \in 1..n : q[i] \in OpKind
      BY <1>8, ElementOfSeq
    <2>2. l \in [1..n -> OpKind]
      BY <1>5, <1>6, <1>8, <2>1
    <2> QED BY SMTT(30), <1>8, <2>2, SeqDef
  <1>11. t \in Seq(OpKind) /\ Len(t) = m /\ \A i \in 1..m : t[i] = Op(others[i], one(others[i]))
    <2>1. t \in [1..m -> OpKind]
      BY <1>6, <1>9
    <2> QED BY <1>9, <2>1, SeqDef
  <1> HIDE DEF l, t, n, m
  <1>12. /\ r \in Seq(OpKind) /\ DOMAIN r = 1..(n + m)
         /\ \A i \in 1..n : r[i] = l[i]
         /\ \A i \in 1..m : i + n \in 1..(n + m) /\ r[i + n] = t[i]
    <2>1. /\ r \in Seq(OpKind) /\ Len(r) = Len(l) + Len(t)
          /\ \A i \in 1..(Len(l) + Len(t)) : r[i] = IF i <= Len(l) THEN l[i] ELSE t[i - Len(l)]
      <3> HIDE DEF r
      <3>1. l \in Seq(OpKind) /\ t \in Seq(OpKind)
        BY <1>10, <1>11
      <3> QED BY <3>1, ConcatProperties DEF r
    <2> HIDE DEF r
    <2>2. DOMAIN r = 1..(n + m)
      BY <1>10, <1>11, <2>1, LenProperties
    <2>3. \A i \in 1..m : i + n \in 1..(n + m) /\ ~(i + n <= n) /\ i + n - n = i
      BY <1>8, <1>9
    <2> QED BY <1>8, <1>9, <1>10, <1>11, <2>1, <2>2, <2>3
  <1> HIDE DEF r
  <1>13. \A i \in 1..(n + m) : i \in 1..n \/ \E j \in 1..m : i = j + n
    <2>1. ASSUME NEW i \in 1..(n + m), i \notin 1..n PROVE i - n \in 1..m /\ i = (i - n) + n
      BY <1>8, <1>9, <2>1
    <2> QED BY <2>1
  <1>14. /\ \A i \in 1..n : r[i].key = q[i].key
         /\ \A i \in 1..m : r[i + n].key = others[i]
    <2>1. \A k, e : Op(k, e).key = k
      BY DEF Op
    <2>2. ASSUME NEW i \in 1..n PROVE r[i].key = q[i].key
      <3>1. l[i] = q[i] \/ l[i] = Op(q[i].key, one(q[i].key))
        BY <1>10
      <3>2. l[i].key = q[i].key
        BY <2>1, <3>1
      <3> QED BY <1>12, <3>2
    <2>3. ASSUME NEW i \in 1..m PROVE r[i + n].key = others[i]
      <3>1. r[i + n] = Op(others[i], one(others[i]))
        BY <1>11, <1>12
      <3> QED BY <2>1, <3>1
    <2> QED BY <2>2, <2>3
  <1>15. \A i, j \in DOMAIN r : r[i].key = r[j].key => i = j
    <2>1. ASSUME NEW i \in 1..n, NEW j \in 1..n, r[i].key = r[j].key PROVE i = j
      BY <1>1, <1>8, <1>14, <2>1 DEF QueueKind
    <2>2. ASSUME NEW i \in 1..n, NEW j \in 1..m PROVE r[i].key # r[j + n].key
      BY ZenonT(60), <1>8, <1>9, <1>14 DEF Range
    <2>3. ASSUME NEW i \in 1..m, NEW j \in 1..m, r[i + n].key = r[j + n].key PROVE i + n = j + n
      BY <1>7, <1>9, <1>14, <2>3
    <2> QED BY <1>12, <1>13, <2>1, <2>2, <2>3
  <1>16. Range(r) = {o \in Range(q) : findEntry(o.key) = {}} \cup {Op(k, one(k)) : k \in names}
    <2>1. ASSUME NEW i \in 1..n
          PROVE r[i] \in {o \in Range(q) : findEntry(o.key) = {}} \cup {Op(k, one(k)) : k \in names}
      BY <1>5, <1>8, <1>10, <1>12 DEF Range
    <2>2. ASSUME NEW j \in 1..m PROVE r[j + n] \in {Op(k, one(k)) : k \in names}
      BY <1>9, <1>11, <1>12
    <2>3. ASSUME NEW i \in 1..n, findEntry(q[i].key) = {} PROVE q[i] \in Range(r)
      <3>1. r[i] = q[i] /\ i \in DOMAIN r
        BY <1>8, <1>9, <1>10, <1>12, <2>3
      <3> QED BY <3>1 DEF Range
    <2>4. ASSUME NEW k \in names, k \in KeysOf(q) PROVE Op(k, one(k)) \in Range(r)
      <3>1. PICK i \in 1..n : q[i].key = k
        BY <1>8, <2>4 DEF Range
      <3>2. i \in DOMAIN r
        BY <1>8, <1>9, <1>12
      <3>3. r[i] = l[i] /\ findEntry(q[i].key) # {}
        BY <1>4, <1>12, <3>1
      <3>4. r[i] = Op(q[i].key, one(q[i].key))
        BY <1>10, <3>3
      <3>5. r[i] = Op(k, one(k))
        BY <3>1, <3>4
      <3> QED BY <3>2, <3>5 DEF Range
    <2>5. ASSUME NEW k \in names, k \notin KeysOf(q) PROVE Op(k, one(k)) \in Range(r)
      <3>1. PICK j \in 1..m : others[j] = k
        BY <1>7, <1>9, <2>5 DEF Range
      <3>2. r[j + n] = Op(k, one(k)) /\ j + n \in DOMAIN r
        BY <1>11, <1>12, <3>1
      <3> QED BY <3>2 DEF Range
    <2>6. Range(r) \subseteq {o \in Range(q) : findEntry(o.key) = {}} \cup {Op(k, one(k)) : k \in names}
      BY <1>12, <1>13, <2>1, <2>2 DEF Range
    <2>7. {o \in Range(q) : findEntry(o.key) = {}} \subseteq Range(r)
      BY <1>8, <2>3 DEF Range
    <2>8. {Op(k, one(k)) : k \in names} \subseteq Range(r)
      BY <2>4, <2>5
    <2> QED BY <2>6, <2>7, <2>8
  <1>17. \A o \in Range(r) : o.e = 0 <=> o.key = EraseAll
    BY <1>1, <1>6, <1>16 DEF QueueKind, Op
  <1>18. queue = <<>> => ErasesFirst(r)
    <2>1. ErasesFirst(q) => ErasesFirst(r)
      <3>1. \A j \in 1..m : others[j] # EraseAll
        BY <1>6, <1>9
      <3> QED BY <1>8, <1>12, <1>13, <1>14, <3>1 DEF ErasesFirst
    <2> QED BY <1>1, <2>1
  <1>19. Op(EraseAll, 0) \in Range(r)
    <2>1. Op(EraseAll, 0).key = EraseAll
      BY DEF Op
    <2>2. findEntry(EraseAll) = {}
      BY <1>5, <1>6
    <2> QED BY <1>1, <1>16, <2>1, <2>2
  <1>20. {Op(k, one(k)) : k \in names} = {Op(obj[e].name, one(obj[e].name)) : e \in m_entries}
    BY DEF names
  <1>21. \A e \in m_entries : obj[e].name \in names
    BY DEF names
  <1> QED BY <1>2, <1>4, <1>12, <1>15, <1>16, <1>17, <1>18, <1>19, <1>20, <1>21 DEF QueueKind, q, one

-----------------------------------------------------------------------------
(* The invariant.  Kinds holds always, the rest as long as the behaviour   *)
(* has not met one of the windows (Sound).                                 *)

StoreKinds ==
  /\ nextId \in Nat \ {0} /\ DOMAIN rec \subseteq 1..(nextId - 1)
  /\ \A i \in DOMAIN rec : rec[i] \in Keys \cup Values

TableKinds ==
  /\ QueueKind(queue) /\ QueueKind(pendingOp) /\ IsFiniteSet(m_entries)
  /\ m_entries \cup ObjectsOf(queue) \cup ObjectsOf(pendingOp) = DOMAIN obj
  /\ DOMAIN obj \subseteq Nat \ {0}
  /\ \A e \in DOMAIN obj : obj[e] \in EntryKind

\* A flush has an operation in hand from the moment it takes it from pendingOp.
FlushKinds ==
  /\ flusher \in {"none", "worker", "app"} /\ fpc \in {"idle", "op", "erase", "open", "write", "data"}
  /\ data \in Keys \cup Values \cup {None} /\ index \in Nat
  /\ flusher = "none" <=> fpc = "idle"
  /\ fpc = "idle" => pendingOp = <<>>
  /\ fpc = "erase" => pendingOp # <<>> /\ Head(pendingOp).key = EraseAll
  /\ fpc \in {"open", "write", "data"} => pendingOp # <<>> /\ Head(pendingOp).key # EraseAll

LoadKinds ==
  /\ call \in Requests \cup {NoCall} /\ lpc \in {"none", "open", "size", "read", "done"}
  /\ lpc = "none" <=> call = NoCall
  /\ recordId \in Nat /\ maxRecordId \in Nat /\ deleted \in Nat

ThreadKinds ==
  /\ m_recordStore \in BOOLEAN /\ m_tableLoaded \in BOOLEAN /\ m_quit \in BOOLEAN
  /\ worker \in {"off", "head", "wait", "flush", "check", "final", "ending"}
  /\ closing \in {"no", "joining", "closed"}
  /\ calls \in 0..MaxCalls /\ restarts \in 0..MaxRestarts

HistoryKinds ==
  /\ truth \in [Keys -> Keys \cup Values \cup {None}] /\ DOMAIN since = Keys
  /\ \A k \in Keys : truth[k] \in since[k]
  /\ packing \in BOOLEAN /\ faults \subseteq FaultKinds

Kinds == StoreKinds /\ TableKinds /\ FlushKinds /\ LoadKinds /\ ThreadKinds /\ HistoryKinds

Odd(i) == i % 2 = 1
EraseQueued  == EraseAll \in KeysOf(queue)
ErasePending == EraseAll \in KeysOf(pendingOp)
Busy == fpc \in {"write", "data"}

\* The name of a key is at an odd index and its data follows, unless the name
\* is just written; each key is stored once.
RecordsInPairs ==
  /\ \A i \in DOMAIN rec : IF Odd(i) THEN rec[i] \in Keys /\ (i + 1 \in DOMAIN rec \/ (HalfAdded /\ i = index))
                           ELSE rec[i] \in Values
  /\ Odd(nextId) <=> ~HalfAdded
  /\ \A k \in Keys : \A i, j \in Pairs(k) : i = j

\* Operations are of the entries of their keys.
QueuesNamed ==
  /\ ErasesFirst(queue) /\ ErasesFirst(pendingOp)
  /\ \A o \in Range(queue) \cup Range(pendingOp) : o.key # EraseAll => obj[o.e].name = o.key
  /\ \A e \in DOMAIN obj : obj[e].name \in Keys /\ obj[e].data \in Values \cup {None}

\* The last value of a key is that of its last operation, or the stored one.
TruthFollows ==
  /\ \A o \in Range(queue) : o.key # EraseAll => truth[o.key] = obj[o.e].data
  /\ EraseQueued => \A k \in Keys \ KeysOf(queue) : truth[k] = None
  /\ ~EraseQueued => \A o \in Range(pendingOp) :
       o.key # EraseAll /\ o.key \notin KeysOf(queue) => truth[o.key] = obj[o.e].data
  /\ ~EraseQueued /\ ErasePending =>
       \A k \in Keys \ (KeysOf(queue) \cup KeysOf(pendingOp)) : truth[k] = None
  /\ \A k \in Keys : ~Pending(k) => IF truth[k] = None THEN Pairs(k) = {}
                                    ELSE \E i \in Pairs(k) : rec[i + 1] = truth[k]

\* The entry of an operation knows the records of its key, as far as there are any.
Owns(e, k) ==
  /\ Pairs(k) \subseteq {obj[e].index} /\ obj[e].index < nextId
  /\ obj[e].index > 0 /\ (obj[e].index \in DOMAIN rec \/ obj[e].data # None) => obj[e].index \in Pairs(k)

Owners ==
  /\ ~ErasePending => \A o \in Range(pendingOp) : Owns(o.e, o.key)
  /\ ~ErasePending /\ ~EraseQueued =>
       \A o \in Range(queue) : o.key \notin KeysOf(pendingOp) => Owns(o.e, o.key)
  /\ ~EraseQueued => \A p \in Range(pendingOp), o \in Range(queue) :
       p.key = o.key /\ p.e # o.e => obj[p.e].data = None /\ obj[o.e].index = 0

\* What is to be written after the erasing is new.
Erasing ==
  /\ EraseQueued => \A e \in m_entries \cup ObjectsOf(queue) :
       obj[e].index = 0 /\ e \notin ObjectsOf(pendingOp)
  /\ ErasePending => fpc \in {"op", "erase"} /\ \A e \in DOMAIN obj : obj[e].index = 0

\* What the flush has read of the entry in hand, and the records it has written.
Writing ==
  Busy =>
    LET e == Head(pendingOp).e
        k == Head(pendingOp).key
    IN
    /\ m_recordStore
    /\ data \in Values \cup {None}
    /\ data = None => obj[e].data = None
    /\ k \notin KeysOf(queue) /\ ~EraseQueued => data = obj[e].data
    /\ ~EraseQueued => \A o \in Range(queue) : o.key = k /\ o.e # e => data = None
    /\ fpc = "write" => index = obj[e].index /\ (data # None /\ index > 0 => index \in Pairs(k))
    /\ fpc = "data" => Pairs(k) = {} /\ index > 0 /\ Odd(index)
    /\ fpc = "data" /\ data = None => obj[e].index = index /\ index \notin DOMAIN rec /\ index < nextId
    /\ fpc = "data" /\ data # None =>
         obj[e].index = 0 /\ index = nextId - 1 /\ index \in DOMAIN rec /\ rec[index] = k

\* The table has the last values, an operation is that of an entry in it, and an
\* entry without an operation has its index.
TableFollows ==
  m_tableLoaded /\ lpc \in {"none", "done"} =>
    /\ \A d, e \in m_entries : obj[d].name = obj[e].name => d = e
    /\ \A e \in m_entries : obj[e].data # None /\ truth[obj[e].name] = obj[e].data
    /\ \A k \in Keys : truth[k] # None => findEntry(k) # {}
    /\ \A o \in Range(queue) : o.key # EraseAll /\ obj[o.e].data # None => o.e \in m_entries
    /\ ~EraseQueued => \A o \in Range(pendingOp) :
         o.key # EraseAll /\ o.key \notin KeysOf(queue) /\ obj[o.e].data # None => o.e \in m_entries
    /\ \A e \in m_entries : ~Pending(obj[e].name) => obj[e].index \in Pairs(obj[e].name)

\* While there is no table nothing is written but an erasing.
Unloaded ==
  /\ ~m_tableLoaded => KeysOf(queue) \cup KeysOf(pendingOp) \subseteq {EraseAll}
  /\ lpc \in {"open", "size", "read"} => ~m_tableLoaded /\ queue = <<>> /\ pendingOp = <<>>
  /\ lpc = "done" => m_tableLoaded /\ pendingOp = <<>>

\* The table has the pairs up to recordId.
Reading ==
  lpc = "read" =>
    /\ m_recordStore /\ maxRecordId = nextId /\ Odd(recordId) /\ recordId <= nextId
    /\ \A e \in m_entries :
         LET i == obj[e].index IN
         i < recordId /\ Odd(i) /\ {i, i + 1} \subseteq DOMAIN rec /\ obj[e] = Entry(rec[i], i, rec[i + 1])
    /\ \A i \in DOMAIN rec : Odd(i) /\ i < recordId /\ i + 1 \in DOMAIN rec =>
         \E e \in m_entries : obj[e].index = i
    /\ \A d, e \in m_entries : obj[d].index = obj[e].index => d = e

\* Nothing is queued when the thread does not look any more.
Looking ==
  /\ LastLookDone \/ worker = "off" => queue = <<>>
  /\ flusher = "worker" => worker \in {"flush", "final"}
  /\ closing # "no" => flusher # "app" /\ MonitorFree
  /\ closing = "closed" => worker = "off"

\* What is stored or will be is a value the key has had since it was saved; in a
\* pack the store is empty meanwhile.
SavedValues ==
  /\ \A k \in Keys : \/ Stored(k) \in since[k]
                     \/ Repacking /\ k \in KeysOf(pendingOp) /\ Pairs(k) = {}
  /\ \A o \in Range(queue) \cup Range(pendingOp) : o.key # EraseAll => obj[o.e].data \in since[o.key]
  /\ Busy => data \in since[Head(pendingOp).key]
  /\ EraseQueued => \A k \in Keys :
       None \in since[k] \/ (packing /\ k \in KeysOf(queue) /\ pendingOp = <<>>)
  /\ ErasePending => \A k \in Keys :
       None \in since[k] \/ (packing /\ k \in KeysOf(pendingOp) /\ ~EraseQueued)

SoundInv == /\ RecordsInPairs /\ QueuesNamed /\ TruthFollows /\ Owners /\ Erasing /\ Writing
            /\ TableFollows /\ Unloaded /\ Reading /\ Looking /\ SavedValues

\* The store stays open while the flush waits for the monitor.
Opened == fpc = "open" => m_recordStore

IInv == Kinds /\ (Sound => SoundInv /\ Opened)

-----------------------------------------------------------------------------
(* The calls that change a record.                                         *)

LEMMA OneMore ==
  ASSUME NEW o, NEW n, NEW x, n \notin DOMAIN o
  PROVE  /\ DOMAIN Added(o, n, x) = DOMAIN o \cup {n}
         /\ Added(o, n, x)[n] = x
         /\ \A e \in DOMAIN o : Added(o, n, x)[e] = o[e]
  BY DEF Added

\* setRecord and deleteRecord: e is the entry of the key k, or a new one, v its
\* data from now on.
Changes(k, e, v) ==
  /\ k \in Keys \cup Values /\ v \in Keys \cup Values \cup {None} /\ e \in Nat \ {0}
  /\ \/ e \in m_entries /\ obj[e].name = k
     \/ findEntry(k) = {} /\ e \notin DOMAIN obj /\ v # None
  /\ m_entries' = IF v = None THEN m_entries \ {e} ELSE m_entries \cup {e}
  /\ QueueKind(queue') /\ Range(queue') = {o \in Range(queue) : o.key # k} \cup {Op(k, e)}
  /\ ErasesFirst(queue) => ErasesFirst(queue')
  /\ DOMAIN obj' = m_entries' \cup ObjectsOf(queue') \cup ObjectsOf(pendingOp)
  /\ obj'[e] = Entry(k, IF e \in DOMAIN obj THEN obj[e].index ELSE 0, v)
  /\ \A d \in DOMAIN obj' \ {e} : d \in DOMAIN obj /\ obj'[d] = obj[d]
  /\ wakeThread
  /\ truth' = [truth EXCEPT ![k] = v] /\ since' = [since EXCEPT ![k] = @ \cup {v}]
  /\ faults' = faults \cup LateFault \cup ReplacedFault(k, e)

\* What is left of the objects when one of them has changed.
LEMMA ChangesIs ==
  ASSUME TableKinds, NEW k \in Keys \cup Values, NEW v \in Keys \cup Values \cup {None},
         NEW e \in Nat \ {0}, NEW o,
         (e \in m_entries /\ obj[e].name = k) \/ (findEntry(k) = {} /\ e \notin DOMAIN obj /\ v # None),
         m_entries' = IF v = None THEN m_entries \ {e} ELSE m_entries \cup {e},
         queue' = addAsyncOperation(queue, k, e),
         obj' = Kept(o, m_entries', queue', pendingOp),
         o[e] = Entry(k, IF e \in DOMAIN obj THEN obj[e].index ELSE 0, v),
         \A d \in DOMAIN obj \ {e} : o[d] = obj[d],
         wakeThread, truth' = [truth EXCEPT ![k] = v], since' = [since EXCEPT ![k] = @ \cup {v}],
         faults' = faults \cup LateFault \cup ReplacedFault(k, e)
  PROVE  Changes(k, e, v)
  <1>1. k # EraseAll /\ e # 0 /\ Op(k, e) \in OpKind /\ Op(k, e).e = e
    BY ConstantsAssumption DEF Op, OpKind
  <1>2. QueueKind(queue) /\ QueueKind(pendingOp)
    BY DEF TableKinds
  <1>3. /\ QueueKind(queue') /\ Range(queue') = {p \in Range(queue) : p.key # k} \cup {Op(k, e)}
        /\ ErasesFirst(queue) => ErasesFirst(queue')
    <2>1. e = 0 <=> k = EraseAll
      BY <1>1
    <2> QED BY <1>1, <1>2, <2>1, QueueAdds
  <1>4. /\ DOMAIN obj' = m_entries' \cup ObjectsOf(queue') \cup ObjectsOf(pendingOp)
        /\ \A d \in DOMAIN obj' : obj'[d] = o[d]
    BY DEF Kept
  <1>5. ObjectsOf(queue') \subseteq ObjectsOf(queue) \cup {e} /\ e \in ObjectsOf(queue')
    BY <1>1, <1>2, <1>3, QueueIs
  <1>6. \A d \in DOMAIN obj' \ {e} : d \in DOMAIN obj
    BY <1>4, <1>5 DEF TableKinds
  <1>7. obj'[e] = o[e] /\ \A d \in DOMAIN obj' \ {e} : obj'[d] = obj[d]
    BY <1>4, <1>5, <1>6
  <1> QED BY <1>3, <1>4, <1>6, <1>7 DEF Changes

LEMMA SetRecordIs ==
  ASSUME TableKinds, NEW k \in Keys, NEW v \in Values, setRecord(k, v)
  PROVE  \E e : Changes(k, e, v)
  <1>1. k \in Keys \cup Values /\ v \in Keys \cup Values \cup {None} /\ v # None
    BY ConstantsAssumption
  <1>2. IsFiniteSet(DOMAIN obj)
    <2>1. IsFiniteSet(ObjectsOf(queue)) /\ IsFiniteSet(ObjectsOf(pendingOp)) /\ IsFiniteSet(m_entries)
      BY FewObjects DEF TableKinds
    <2>2. IsFiniteSet(m_entries \cup ObjectsOf(queue))
      BY <2>1, FS_Union
    <2>3. IsFiniteSet((m_entries \cup ObjectsOf(queue)) \cup ObjectsOf(pendingOp))
      BY <2>1, <2>2, FS_Union
    <2> QED BY <2>3 DEF TableKinds
  <1>3. m_entries \subseteq DOMAIN obj /\ DOMAIN obj \subseteq Nat \ {0}
    BY DEF TableKinds
  <1>4. CASE findEntry(k) = {}
    <2> DEFINE n == NewObject
               o == Added(obj, n, Entry(k, 0, v))
    <2>1. n \in Nat \ {0} /\ n \notin DOMAIN obj
      BY <1>2, NewObjectIsNew
    <2>2. /\ m_entries' = m_entries \cup {n}
          /\ queue' = addAsyncOperation(queue, k, n)
          /\ obj' = Kept(o, m_entries', queue', pendingOp)
          /\ wakeThread /\ truth' = [truth EXCEPT ![k] = v] /\ since' = [since EXCEPT ![k] = @ \cup {v}]
          /\ faults' = faults \cup LateFault \cup ReplacedFault(k, n)
      BY <1>4 DEF setRecord
    <2> HIDE DEF n
    <2>3. /\ o[n] = Entry(k, 0, v) /\ \A d \in DOMAIN obj : o[d] = obj[d]
      BY <2>1 DEF Added
    <2> HIDE DEF o
    <2>4. Changes(k, n, v)
      <3>1. (n \in m_entries /\ obj[n].name = k) \/ (findEntry(k) = {} /\ n \notin DOMAIN obj /\ v # None)
        BY <1>1, <1>4, <2>1
      <3>2. m_entries' = IF v = None THEN m_entries \ {n} ELSE m_entries \cup {n}
        BY <1>1, <2>2
      <3>3. o[n] = Entry(k, IF n \in DOMAIN obj THEN obj[n].index ELSE 0, v)
        BY <2>1, <2>3
      <3>4. \A d \in DOMAIN obj \ {n} : o[d] = obj[d]
        BY <2>3
      <3> QED BY <1>1, <2>1, <2>2, <3>1, <3>2, <3>3, <3>4, ChangesIs
    <2> QED BY <2>4
  <1>5. CASE findEntry(k) # {}
    <2>1. PICK e \in findEntry(k) :
            /\ m_entries' = m_entries \cup {e}
            /\ queue' = addAsyncOperation(queue, k, e)
            /\ obj' = Kept([obj EXCEPT ![e].data = v], m_entries', queue', pendingOp)
            /\ wakeThread /\ truth' = [truth EXCEPT ![k] = v] /\ since' = [since EXCEPT ![k] = @ \cup {v}]
            /\ faults' = faults \cup LateFault \cup ReplacedFault(k, e)
      BY <1>5 DEF setRecord
    <2> DEFINE o == [obj EXCEPT ![e].data = v]
    <2>2. e \in m_entries /\ obj[e].name = k /\ e \in DOMAIN obj /\ e \in Nat \ {0}
      BY <1>3 DEF findEntry
    <2>3. o[e] = Entry(k, obj[e].index, v)
      <3>1. obj[e] \in EntryKind
        BY <2>2 DEF TableKinds
      <3> QED BY <2>2, <3>1 DEF EntryKind, Entry
    <2>4. \A d \in DOMAIN obj \ {e} : o[d] = obj[d]
      OBVIOUS
    <2>5. obj' = Kept(o, m_entries', queue', pendingOp)
      BY <2>1
    <2> HIDE DEF o
    <2>6. Changes(k, e, v)
      <3>1. (e \in m_entries /\ obj[e].name = k) \/ (findEntry(k) = {} /\ e \notin DOMAIN obj /\ v # None)
        BY <2>2
      <3>2. m_entries' = IF v = None THEN m_entries \ {e} ELSE m_entries \cup {e}
        BY <1>1, <2>1
      <3>3. o[e] = Entry(k, IF e \in DOMAIN obj THEN obj[e].index ELSE 0, v)
        BY <2>2, <2>3
      <3> QED BY <1>1, <2>1, <2>2, <2>4, <2>5, <3>1, <3>2, <3>3, ChangesIs
    <2> QED BY <2>6
  <1> QED BY <1>4, <1>5

LEMMA DeleteRecordIs ==
  ASSUME TableKinds, NEW k \in Keys, deleteRecord(k), findEntry(k) # {}
  PROVE  \E e : Changes(k, e, None)
  <1>1. k \in Keys \cup Values /\ None \in Keys \cup Values \cup {None}
    OBVIOUS
  <1>2. m_entries \subseteq DOMAIN obj /\ DOMAIN obj \subseteq Nat \ {0}
    BY DEF TableKinds
  <1>3. PICK e \in findEntry(k) :
          /\ m_entries' = m_entries \ {e}
          /\ queue' = addAsyncOperation(queue, k, e)
          /\ obj' = Kept([obj EXCEPT ![e].data = None], m_entries', queue', pendingOp)
          /\ wakeThread /\ truth' = [truth EXCEPT ![k] = None] /\ since' = [since EXCEPT ![k] = @ \cup {None}]
          /\ faults' = faults \cup LateFault \cup ReplacedFault(k, e)
    BY DEF deleteRecord
  <1> DEFINE o == [obj EXCEPT ![e].data = None]
  <1>4. e \in m_entries /\ obj[e].name = k /\ e \in DOMAIN obj /\ e \in Nat \ {0}
    BY <1>2 DEF findEntry
  <1>5. o[e] = Entry(k, obj[e].index, None)
    <2>1. obj[e] \in EntryKind
      BY <1>4 DEF TableKinds
    <2> QED BY <1>4, <2>1 DEF EntryKind, Entry
  <1>6. \A d \in DOMAIN obj \ {e} : o[d] = obj[d]
    OBVIOUS
  <1>7. obj' = Kept(o, m_entries', queue', pendingOp)
    BY <1>3
  <1> HIDE DEF o
  <1>8. (e \in m_entries /\ obj[e].name = k) \/ (findEntry(k) = {} /\ e \notin DOMAIN obj /\ None # None)
    BY <1>4
  <1>9. m_entries' = IF None = None THEN m_entries \ {e} ELSE m_entries \cup {e}
    BY <1>3
  <1>10. o[e] = Entry(k, IF e \in DOMAIN obj THEN obj[e].index ELSE 0, None)
    BY <1>4, <1>5
  <1>11. Changes(k, e, None)
    BY <1>1, <1>3, <1>4, <1>6, <1>7, <1>8, <1>9, <1>10, ChangesIs
  <1> QED BY <1>11

Unchanged == <<obj, m_entries, queue, worker, truth, since, faults>>

LEMMA PerformIs ==
  ASSUME TableKinds, NEW c \in Requests, Perform(c)
  PROVE  /\ \/ UNCHANGED Unchanged
            \/ \E k \in Keys, v \in Values \cup {None} : \E e : Changes(k, e, v)
         /\ UNCHANGED <<rec, nextId, m_recordStore, m_tableLoaded, flusher, fpc, pendingOp, data, index,
                        m_quit, closing, restarts, packing>>
  <1>1. UNCHANGED <<rec, nextId, m_recordStore, m_tableLoaded, flusher, fpc, pendingOp, data, index,
                    m_quit, closing, restarts, packing>>
    BY DEF Perform, disk, flush
  <1>2. \/ c = Get
        \/ \E k \in Keys, v \in Values : c = [op |-> "set", key |-> k, data |-> v]
        \/ \E k \in Keys : c = [op |-> "delete", key |-> k, data |-> None]
    BY DEF Requests
  <1>3. CASE c = Get
    <2>1. c.op = "get"
      BY <1>3 DEF Get
    <2> QED BY <1>1, <2>1 DEF Perform, Unchanged
  <1>4. ASSUME NEW k \in Keys, NEW v \in Values, c = [op |-> "set", key |-> k, data |-> v]
        PROVE  \E e : Changes(k, e, v)
    <2>1. c.op = "set" /\ c.key = k /\ c.data = v
      BY <1>4
    <2>2. setRecord(k, v)
      BY <2>1 DEF Perform
    <2> QED BY <2>2, SetRecordIs
  <1>5. ASSUME NEW k \in Keys, c = [op |-> "delete", key |-> k, data |-> None]
        PROVE  UNCHANGED Unchanged \/ \E e : Changes(k, e, None)
    <2>1. c.op = "delete" /\ c.key = k
      BY <1>5
    <2>2. deleteRecord(k)
      BY <2>1 DEF Perform
    <2>3. CASE findEntry(k) = {}
      BY <2>2, <2>3 DEF deleteRecord, Unchanged
    <2> QED BY <2>2, <2>3, DeleteRecordIs
  <1> QED BY <1>1, <1>2, <1>3, <1>4, <1>5

-----------------------------------------------------------------------------
(* Every variable keeps its kind, whatever windows a behaviour meets.      *)

LEMMA FewObjectsInAll ==
  ASSUME TableKinds
  PROVE  IsFiniteSet(DOMAIN obj)
  <1>1. IsFiniteSet(ObjectsOf(queue)) /\ IsFiniteSet(ObjectsOf(pendingOp)) /\ IsFiniteSet(m_entries)
    BY FewObjects DEF TableKinds
  <1>2. IsFiniteSet(m_entries \cup ObjectsOf(queue))
    BY <1>1, FS_Union
  <1>3. IsFiniteSet((m_entries \cup ObjectsOf(queue)) \cup ObjectsOf(pendingOp))
    BY <1>1, <1>2, FS_Union
  <1> QED BY <1>3 DEF TableKinds

\* What is kept of the objects o.
LEMMA TableKept ==
  ASSUME NEW o, QueueKind(queue'), QueueKind(pendingOp'), IsFiniteSet(m_entries'),
         obj' = Kept(o, m_entries', queue', pendingOp'), m_entries' \subseteq Nat \ {0},
         \A e \in m_entries' \cup ObjectsOf(queue') \cup ObjectsOf(pendingOp') : o[e] \in EntryKind
  PROVE  TableKinds'
  <1>1. ObjectsOf(queue') \subseteq Nat \ {0} /\ ObjectsOf(pendingOp') \subseteq Nat \ {0}
    BY QueueIs
  <1>2. /\ DOMAIN obj' = m_entries' \cup ObjectsOf(queue') \cup ObjectsOf(pendingOp')
        /\ \A e \in DOMAIN obj' : obj'[e] = o[e]
    BY DEF Kept
  <1> QED BY <1>1, <1>2 DEF TableKinds

\* Objects leave the table, or an operation leaves a queue.
LEMMA TableShrinks ==
  ASSUME TableKinds, NEW o, QueueKind(queue'), QueueKind(pendingOp'), m_entries' \subseteq m_entries,
         m_entries' \cup ObjectsOf(queue') \cup ObjectsOf(pendingOp') \subseteq DOMAIN obj,
         obj' = Kept(o, m_entries', queue', pendingOp'), \A e \in DOMAIN obj : o[e] \in EntryKind
  PROVE  TableKinds'
  <1>1. m_entries' \in SUBSET m_entries /\ IsFiniteSet(m_entries)
    BY DEF TableKinds
  <1>2. IsFiniteSet(m_entries')
    BY <1>1, FS_Subset
  <1>3. m_entries' \subseteq Nat \ {0}
    BY DEF TableKinds
  <1>4. \A e \in m_entries' \cup ObjectsOf(queue') \cup ObjectsOf(pendingOp') : o[e] \in EntryKind
    OBVIOUS
  <1> QED BY <1>2, <1>3, <1>4, TableKept

LEMMA OperationDone ==
  ASSUME TableKinds, pendingOp # <<>>, NEW o, NextOp(o), UNCHANGED <<m_entries, queue>>,
         \A e \in DOMAIN obj : o[e] \in EntryKind
  PROVE  /\ TableKinds'
         /\ DOMAIN obj' \subseteq DOMAIN obj /\ \A e \in DOMAIN obj' : obj'[e] = o[e]
         /\ Range(pendingOp') = Range(pendingOp) \ {Head(pendingOp)}
         /\ Head(pendingOp) \in Range(pendingOp)
  <1>1. /\ QueueKind(queue) /\ QueueKind(pendingOp) /\ IsFiniteSet(m_entries)
        /\ m_entries \cup ObjectsOf(queue) \cup ObjectsOf(pendingOp) = DOMAIN obj
    BY DEF TableKinds
  <1>2. pendingOp' = Tail(pendingOp) /\ obj' = Kept(o, m_entries', queue', pendingOp')
    BY DEF NextOp
  <1>3. /\ QueueKind(pendingOp') /\ Range(pendingOp') = Range(pendingOp) \ {Head(pendingOp)}
        /\ Head(pendingOp) \in Range(pendingOp)
    BY <1>1, <1>2, QueueMoves
  <1>4. ObjectsOf(pendingOp') \subseteq ObjectsOf(pendingOp)
    BY <1>1, <1>3, QueueIs
  <1>5. QueueKind(queue') /\ ObjectsOf(queue') = ObjectsOf(queue) /\ m_entries' = m_entries
    BY <1>1
  <1>6. m_entries' \cup ObjectsOf(queue') \cup ObjectsOf(pendingOp') \subseteq DOMAIN obj
    BY <1>1, <1>4, <1>5
  <1>7. TableKinds'
    <2>1. m_entries' \subseteq m_entries
      BY <1>5
    <2> QED BY <1>2, <1>3, <1>5, <1>6, <2>1, TableShrinks
  <1>8. DOMAIN obj' \subseteq DOMAIN obj /\ \A e \in DOMAIN obj' : obj'[e] = o[e]
    BY <1>2, <1>6 DEF Kept
  <1> QED BY <1>3, <1>7, <1>8

LEMMA ChangesKinds ==
  ASSUME TableKinds, NEW k, NEW v, NEW e, Changes(k, e, v), pendingOp' = pendingOp
  PROVE  TableKinds'
  <1>1. IsFiniteSet(m_entries')
    <2>1. IsFiniteSet(m_entries \cup {e})
      BY FS_AddElement DEF TableKinds
    <2>2. m_entries' \in SUBSET (m_entries \cup {e})
      BY DEF Changes
    <2> QED BY <2>1, <2>2, FS_Subset
  <1>2. DOMAIN obj' \subseteq Nat \ {0}
    BY DEF Changes, TableKinds
  <1>3. obj'[e] \in EntryKind
    <2>1. (IF e \in DOMAIN obj THEN obj[e].index ELSE 0) \in Nat
      BY DEF TableKinds, EntryKind
    <2> QED BY <2>1 DEF Changes, Entry, EntryKind
  <1>4. \A d \in DOMAIN obj' : obj'[d] \in EntryKind
    BY <1>3 DEF Changes, TableKinds
  <1> QED BY <1>1, <1>2, <1>4 DEF Changes, TableKinds

Steps == \/ Invoke \/ erase \/ AppFlush \/ LoadOpen \/ LoadSize \/ LoadRead \/ LoadEnd \/ Resume
         \/ FlushOp \/ FlushFields \/ FlushErase \/ FlushAborts \/ FlushWrite \/ FlushData \/ FlushEnd
         \/ WhileNotQuit \/ WaitEnds \/ WorkerFlush \/ Check \/ ThreadEnds
         \/ finalClose \/ Joined \/ Start \/ UNCHANGED vars

LEMMA NextIs == ASSUME [Next]_vars PROVE Steps
  BY DEF Next, Load, Flush, Worker, Steps

LEMMA StoreKindsKept ==
  ASSUME Kinds, Steps
  PROVE  StoreKinds'
  <1> USE DEF Kinds
  <1>1. CASE UNCHANGED disk
    BY <1>1 DEF disk, StoreKinds
  <1>2. CASE FlushErase
    BY <1>2 DEF FlushErase, disk, StoreKinds
  <1>3. CASE FlushWrite
    <2>1. obj[Head(pendingOp).e].name \in Keys \cup Values
      <3>1. Head(pendingOp) \in Range(pendingOp) /\ Head(pendingOp).key # EraseAll
        BY <1>3, QueueMoves DEF FlushWrite, FlushKinds, TableKinds
      <3>2. Head(pendingOp).e \in ObjectsOf(pendingOp)
        BY <3>1, QueueIs DEF TableKinds, QueueKind
      <3> QED BY <3>2 DEF TableKinds, EntryKind
    <2>2. CASE UNCHANGED disk
      BY <2>2, <1>1
    <2>3. CASE rec' = Restrict(rec, DOMAIN rec \ {index}) /\ nextId' = nextId
      BY <2>3 DEF Restrict, StoreKinds
    <2>4. CASE data # None /\ nextId' = nextId
               /\ rec' = IF DataRecord \in DOMAIN rec THEN [rec EXCEPT ![DataRecord] = data] ELSE rec
      <3>1. data \in Keys \cup Values
        BY <2>4 DEF FlushKinds
      <3> QED BY <2>4, <3>1 DEF StoreKinds
    <2>5. CASE rec' = Added(rec, nextId, obj[Head(pendingOp).e].name) /\ nextId' = nextId + 1
      BY <2>1, <2>5 DEF Added, StoreKinds
    <2> QED BY <1>3, <2>2, <2>3, <2>4, <2>5 DEF FlushWrite, FlushKinds
  <1>4. CASE FlushData
    <2>1. CASE data = None
      BY <1>4, <2>1 DEF FlushData, Restrict, StoreKinds
    <2>2. CASE data # None
      <3>1. data \in Keys \cup Values /\ rec' = Added(rec, nextId, data) /\ nextId' = nextId + 1
        BY <1>4, <2>2 DEF FlushData, FlushKinds
      <3> QED BY <3>1 DEF Added, StoreKinds
    <2> QED BY <2>1, <2>2
  <1>5. CASE Invoke
    <2>1. UNCHANGED disk
      BY <1>5 DEF Invoke, Perform
    <2> QED BY <1>1, <2>1
  <1> QED BY <1>1, <1>2, <1>3, <1>4, <1>5
      DEF Steps, erase, AppFlush, FlushBegin, LoadOpen, LoadSize, LoadRead, LoadEnd, Resume, Perform,
          FlushOp, FlushFields, FlushAborts, FlushEnd, WhileNotQuit, WaitEnds, WorkerFlush, Check,
          ThreadEnds, WorkerOnly, finalClose, Joined, Start, vars, disk

LEMMA PackKinds ==
  ASSUME TableKinds, LoadEnd, PackNeeded
  PROVE  /\ TableKinds' /\ DOMAIN obj' \subseteq DOMAIN obj
         /\ ObjectsOf(queue') \subseteq ObjectsOf(queue) \cup m_entries
         /\ \A e \in DOMAIN obj' :
              obj'[e] = IF e \in m_entries THEN Entry(obj[e].name, 0, obj[e].data) ELSE obj[e]
  <1> DEFINE o == [e \in DOMAIN obj |-> IF e \in m_entries THEN [obj[e] EXCEPT !.index = 0] ELSE obj[e]]
             q == addAsyncOperation(queue, EraseAll, 0)
             one(k) == CHOOSE e \in findEntry(k) : TRUE
  <1>1. /\ queue' = PackedQueue /\ obj' = Kept(o, m_entries, queue', pendingOp)
        /\ UNCHANGED <<m_entries, pendingOp>>
    BY DEF LoadEnd, flush
  <1>2. /\ QueueKind(queue) /\ QueueKind(pendingOp) /\ IsFiniteSet(m_entries)
        /\ m_entries \cup ObjectsOf(queue) \cup ObjectsOf(pendingOp) = DOMAIN obj
        /\ DOMAIN obj \subseteq Nat \ {0} /\ \A e \in DOMAIN obj : obj[e] \in EntryKind
    BY DEF TableKinds
  <1>3. /\ QueueKind(queue')
        /\ Range(queue') = {p \in Range(q) : findEntry(p.key) = {}}
                           \cup {Op(obj[e].name, one(obj[e].name)) : e \in m_entries}
        /\ \A e \in m_entries : one(obj[e].name) \in m_entries
    <2>1. m_entries \subseteq DOMAIN obj
      BY <1>2
    <2> QED BY <1>1, <1>2, <2>1, PackedIs
  <1>4. Range(q) = {p \in Range(queue) : p.key # EraseAll} \cup {Op(EraseAll, 0)}
    <2>1. Op(EraseAll, 0) \in OpKind /\ (0 = 0 <=> EraseAll = EraseAll)
      BY DEF Op, OpKind
    <2> QED BY <1>2, <2>1, QueueAdds
  <1>5. \A e \in DOMAIN obj : o[e] = IF e \in m_entries THEN Entry(obj[e].name, 0, obj[e].data) ELSE obj[e]
    BY <1>2 DEF EntryKind, Entry
  <1> HIDE DEF o, q, one
  <1>6. ObjectsOf(queue') \subseteq ObjectsOf(queue) \cup m_entries
    <2>1. ASSUME NEW p \in Range(queue'), p.e # 0 PROVE p.e \in ObjectsOf(queue) \cup m_entries
      <3>1. CASE p \in Range(queue)
        BY <1>2, <2>1, <3>1, QueueIs
      <3>2. CASE p = Op(EraseAll, 0)
        BY <2>1, <3>2 DEF Op
      <3>3. ASSUME NEW e \in m_entries, p = Op(obj[e].name, one(obj[e].name)) PROVE p.e \in m_entries
        BY <1>3, <3>3 DEF Op
      <3> QED BY <1>3, <1>4, <2>1, <3>1, <3>2, <3>3
    <2>2. ObjectsOf(queue') = {p.e : p \in Range(queue')} \ {0}
      BY <1>3, QueueIs
    <2> QED BY <2>1, <2>2
  <1>7. m_entries \cup ObjectsOf(queue') \cup ObjectsOf(pendingOp) \subseteq DOMAIN obj
    BY <1>2, <1>6
  <1>8. \A e \in DOMAIN obj : o[e] \in EntryKind
    <2>1. \A e \in DOMAIN obj : Entry(obj[e].name, 0, obj[e].data) \in EntryKind
      BY <1>2 DEF EntryKind, Entry
    <2> QED BY <1>2, <1>5, <2>1
  <1>9. TableKinds'
    <2>1. QueueKind(pendingOp') /\ m_entries' \subseteq m_entries
      BY <1>1, <1>2
    <2>2. m_entries' \cup ObjectsOf(queue') \cup ObjectsOf(pendingOp') \subseteq DOMAIN obj
      BY <1>1, <1>7
    <2>3. obj' = Kept(o, m_entries', queue', pendingOp')
      BY <1>1
    <2> QED BY <1>3, <1>8, <2>1, <2>2, <2>3, TableShrinks
  <1>10. DOMAIN obj' \subseteq DOMAIN obj /\ \A e \in DOMAIN obj' : obj'[e] = o[e]
    BY <1>1, <1>7 DEF Kept
  <1> QED BY <1>5, <1>6, <1>9, <1>10

LEMMA TableKindsKept ==
  ASSUME Kinds, Steps
  PROVE  TableKinds'
  <1>1. TableKinds
    BY DEF Kinds
  <1>2. /\ QueueKind(queue) /\ QueueKind(pendingOp) /\ IsFiniteSet(m_entries)
        /\ m_entries \cup ObjectsOf(queue) \cup ObjectsOf(pendingOp) = DOMAIN obj
        /\ DOMAIN obj \subseteq Nat \ {0} /\ \A e \in DOMAIN obj : obj[e] \in EntryKind
    BY <1>1 DEF TableKinds
  <1>3. CASE UNCHANGED <<obj, m_entries, queue, pendingOp>>
    BY <1>1, <1>3 DEF TableKinds
  <1>4. ASSUME NEW c \in Requests, Perform(c) PROVE TableKinds'
    <2>1. CASE UNCHANGED Unchanged
      BY <1>1, <1>3, <1>4, <2>1, PerformIs DEF Unchanged
    <2>2. CASE \E k \in Keys, v \in Values \cup {None} : \E e : Changes(k, e, v)
      BY <1>1, <1>4, <2>2, PerformIs, ChangesKinds
    <2> QED BY <1>1, <1>4, <2>1, <2>2, PerformIs
  <1>5. CASE Invoke
    <2>1. CASE UNCHANGED table /\ UNCHANGED flush
      BY <1>3, <2>1 DEF table, flush
    <2> QED BY <1>4, <1>5, <2>1 DEF Invoke
  <1>6. CASE Resume
    BY <1>4, <1>6 DEF Resume, Kinds, LoadKinds, NoCall
  <1>7. CASE erase
    <2>1. /\ m_entries' = {} /\ queue' = addAsyncOperation(<<>>, EraseAll, 0)
          /\ obj' = Kept(obj, {}, <<>>, pendingOp) /\ pendingOp' = pendingOp
      BY <1>7 DEF erase, flush
    <2>2. QueueKind(queue') /\ Range(queue') = {Op(EraseAll, 0)}
      <3>1. Op(EraseAll, 0) \in OpKind /\ (0 = 0 <=> EraseAll = EraseAll)
        BY DEF Op, OpKind
      <3> QED BY <2>1, <3>1, EmptyQueue, QueueAdds
    <2>3. ObjectsOf(queue') = {} /\ ObjectsOf(<<>>) = {}
      BY <2>2, EmptyQueue, QueueIs DEF Op
    <2>4. obj' = Kept(obj, m_entries', queue', pendingOp')
      BY <2>1, <2>3 DEF Kept
    <2>5. m_entries' \subseteq m_entries /\ m_entries' \cup ObjectsOf(queue') \cup ObjectsOf(pendingOp') \subseteq DOMAIN obj
      BY <1>2, <2>1, <2>3
    <2> QED BY <1>1, <1>2, <2>1, <2>2, <2>4, <2>5, TableShrinks
  <1>8. ASSUME UNCHANGED <<queue, pendingOp>>, m_entries' = {}, obj' = Kept(obj, {}, queue, pendingOp)
        PROVE  TableKinds'
    <2>1. QueueKind(queue') /\ QueueKind(pendingOp') /\ m_entries' \subseteq m_entries
      BY <1>2, <1>8
    <2>2. m_entries' \cup ObjectsOf(queue') \cup ObjectsOf(pendingOp') \subseteq DOMAIN obj
      BY <1>2, <1>8
    <2>3. obj' = Kept(obj, m_entries', queue', pendingOp')
      BY <1>8
    <2> QED BY <1>1, <1>2, <2>1, <2>2, <2>3, TableShrinks
  <1>9. CASE LoadSize
    BY <1>3, <1>8, <1>9 DEF LoadSize, flush
  <1>10. CASE LoadRead
    <2> DEFINE n == NewObject
               x == Entry(rec[recordId], recordId, rec[recordId + 1])
    <2>1. CASE UNCHANGED <<obj, m_entries>>
      BY <1>3, <1>10, <2>1 DEF LoadRead, flush
    <2>2. CASE obj' = Added(obj, n, x) /\ m_entries' = m_entries \cup {n}
               /\ {recordId, recordId + 1} \subseteq DOMAIN rec
      <3>1. x \in EntryKind
        BY <2>2 DEF Entry, EntryKind, Kinds, StoreKinds, LoadKinds
      <3>2. n \in Nat \ {0} /\ n \notin DOMAIN obj
        BY <1>1, FewObjectsInAll, NewObjectIsNew
      <3> HIDE DEF n, x
      <3>3. IsFiniteSet(m_entries')
        BY <1>2, <2>2, FS_AddElement
      <3>4. UNCHANGED <<queue, pendingOp>>
        BY <1>10 DEF LoadRead, flush
      <3>5. DOMAIN obj' = DOMAIN obj \cup {n} /\ obj'[n] = x /\ \A e \in DOMAIN obj : obj'[e] = obj[e]
        BY <2>2, <3>2 DEF Added
      <3>6. \A e \in DOMAIN obj' : obj'[e] \in EntryKind
        BY <1>2, <3>1, <3>5
      <3> QED BY <1>2, <2>2, <3>2, <3>3, <3>4, <3>5, <3>6 DEF TableKinds
    <2> QED BY <1>10, <2>1, <2>2 DEF LoadRead
  <1>11. CASE LoadEnd
    <2>1. CASE PackNeeded
      BY <1>1, <1>11, <2>1, PackKinds
    <2>2. CASE ~PackNeeded
      BY <1>3, <1>11, <2>2 DEF LoadEnd, flush
    <2> QED BY <2>1, <2>2
  <1>12. ASSUME NEW p, FlushBegin(p) PROVE TableKinds'
    <2>1. pendingOp' = queue /\ queue' = <<>> /\ pendingOp = <<>> /\ UNCHANGED <<obj, m_entries>>
      BY <1>12 DEF FlushBegin, Kinds, FlushKinds
    <2> QED BY <1>1, <2>1, EmptyQueue DEF TableKinds
  <1>13. ASSUME pendingOp # <<>>, NEW o, NextOp(o), UNCHANGED <<m_entries, queue>>,
                \A e \in DOMAIN obj : o[e] \in EntryKind
         PROVE  TableKinds'
    BY <1>1, <1>13, OperationDone
  <1>14. CASE FlushErase
    BY <1>2, <1>13, <1>14 DEF FlushErase, Kinds, FlushKinds
  <1>15. CASE FlushWrite
    <2>1. pendingOp # <<>> /\ UNCHANGED <<m_entries, queue>>
      BY <1>15 DEF FlushWrite, Kinds, FlushKinds
    <2>2. CASE NextOp(obj)
      BY <1>2, <1>13, <2>1, <2>2
    <2>3. CASE UNCHANGED <<pendingOp, obj>>
      BY <1>3, <2>1, <2>3
    <2> QED BY <1>15, <2>2, <2>3 DEF FlushWrite, Kinds, FlushKinds
  <1>16. CASE FlushData
    <2> DEFINE o == [obj EXCEPT ![Head(pendingOp).e].index = index]
    <2>1. pendingOp # <<>> /\ UNCHANGED <<m_entries, queue>>
      BY <1>16 DEF FlushData, Kinds, FlushKinds
    <2>2. CASE NextOp(obj)
      BY <1>2, <1>13, <2>1, <2>2
    <2>3. CASE NextOp(o)
      <3>1. \A e \in DOMAIN obj : o[e] \in EntryKind
        BY <1>2 DEF EntryKind, Kinds, FlushKinds
      <3> QED BY <1>13, <2>1, <2>3, <3>1
    <2> QED BY <1>16, <2>2, <2>3 DEF FlushData
  <1>17. CASE FlushAborts
    <2>1. /\ pendingOp' = <<>> /\ UNCHANGED <<m_entries, queue>>
          /\ obj' = Kept(obj, m_entries, queue, <<>>)
      BY <1>17 DEF FlushAborts
    <2>2. QueueKind(queue') /\ QueueKind(pendingOp') /\ m_entries' \subseteq m_entries /\ ObjectsOf(pendingOp') = {}
      BY <1>2, <2>1, EmptyQueue
    <2>3. m_entries' \cup ObjectsOf(queue') \cup ObjectsOf(pendingOp') \subseteq DOMAIN obj
      BY <1>2, <2>1, <2>2
    <2>4. obj' = Kept(obj, m_entries', queue', pendingOp')
      BY <2>1
    <2> QED BY <1>1, <1>2, <2>2, <2>3, <2>4, TableShrinks
  <1>18. CASE Check
    BY <1>3, <1>8, <1>18 DEF Check, flush
  <1>19. CASE Start
    <2>1. queue' = <<>> /\ pendingOp' = <<>> /\ obj' = <<>> /\ m_entries' = {}
      BY <1>19 DEF Start
    <2>2. IsFiniteSet({}) /\ DOMAIN <<>> = {}
      BY FS_EmptySet, EmptySeq
    <2> QED BY <2>1, <2>2, EmptyQueue DEF TableKinds
  <1> QED BY <1>3, <1>5, <1>6, <1>7, <1>9, <1>10, <1>11, <1>12, <1>14, <1>15, <1>16, <1>17, <1>18, <1>19
      DEF Steps, AppFlush, LoadOpen, FlushOp, FlushFields, FlushEnd, WhileNotQuit, WaitEnds, WorkerFlush, ThreadEnds,
          WorkerOnly, finalClose, Joined, vars, table, flush

LEMMA FlushKindsKept ==
  ASSUME Kinds, Steps
  PROVE  FlushKinds'
  <1>1. FlushKinds /\ TableKinds /\ StoreKinds
    BY DEF Kinds
  <1>2. CASE UNCHANGED flush
    BY <1>1, <1>2 DEF FlushKinds, flush
  <1>3. CASE Invoke
    BY <1>2, <1>3 DEF Invoke, Perform
  <1>4. ASSUME NEW p \in {"worker", "app"}, FlushBegin(p) PROVE FlushKinds'
    BY <1>1, <1>4 DEF FlushBegin, FlushKinds
  <1>5. CASE FlushOp
    BY <1>1, <1>5 DEF FlushOp, FlushKinds
  <1>13. CASE FlushFields
    <2>1. Head(pendingOp) \in Range(pendingOp) /\ Head(pendingOp).key # EraseAll
      BY <1>1, <1>13, QueueMoves DEF FlushFields, FlushKinds, TableKinds
    <2>2. Head(pendingOp).e \in DOMAIN obj
      <3>1. Head(pendingOp).e \in ObjectsOf(pendingOp)
        BY <1>1, <2>1, QueueIs DEF TableKinds, QueueKind
      <3> QED BY <1>1, <3>1 DEF TableKinds
    <2>3. obj[Head(pendingOp).e].data \in Keys \cup Values \cup {None} /\ obj[Head(pendingOp).e].index \in Nat
      BY <1>1, <2>2 DEF TableKinds, EntryKind
    <2> QED BY <1>1, <1>13, <2>3 DEF FlushFields, FlushKinds
  <1>6. ASSUME NEW o, NextOp(o), flusher' = flusher, fpc # "idle" PROVE FlushKinds'
    BY <1>1, <1>6 DEF FlushKinds, NextOp
  <1>7. CASE FlushErase
    BY <1>6, <1>7 DEF FlushErase
  <1>8. CASE FlushAborts
    BY <1>1, <1>8 DEF FlushAborts, FlushKinds
  <1>9. CASE FlushWrite
    <2>1. CASE \E o : NextOp(o)
      BY <1>6, <1>9, <2>1 DEF FlushWrite
    <2>2. CASE UNCHANGED <<pendingOp, data, index>> /\ fpc' = "data"
      BY <1>1, <1>9, <2>2 DEF FlushWrite, FlushKinds
    <2>3. CASE UNCHANGED <<pendingOp, data>> /\ fpc' = "data" /\ index' = nextId
      BY <1>1, <1>9, <2>3 DEF FlushWrite, FlushKinds, StoreKinds
    <2> QED BY <1>1, <1>9, <2>1, <2>2, <2>3 DEF FlushWrite, FlushKinds
  <1>10. CASE FlushData
    BY <1>6, <1>10 DEF FlushData
  <1>11. CASE FlushEnd
    BY <1>1, <1>11 DEF FlushEnd, FlushKinds
  <1>12. CASE Start
    BY <1>12 DEF Start, FlushKinds
  <1> QED BY <1>2, <1>3, <1>4, <1>5, <1>7, <1>8, <1>9, <1>10, <1>11, <1>12, <1>13
      DEF Steps, erase, AppFlush, LoadOpen, LoadSize, LoadRead, LoadEnd, Resume, Perform,
          WhileNotQuit, WaitEnds, WorkerFlush, Check, ThreadEnds, WorkerOnly, finalClose, Joined, vars, flush

LEMMA LoadKindsKept ==
  ASSUME Kinds, Steps
  PROVE  LoadKinds'
  <1>1. LoadKinds /\ nextId \in Nat /\ maxRecordId \in Nat
    BY DEF Kinds, StoreKinds, LoadKinds
  <1>2. CASE UNCHANGED loader
    BY <1>1, <1>2 DEF LoadKinds, loader
  <1>3. CASE Invoke
    <2>1. CASE UNCHANGED loader
      BY <1>2, <2>1
    <2>2. CASE ~UNCHANGED loader
      <3>1. PICK c \in Requests : call' = c /\ lpc' = "open" /\ UNCHANGED <<recordId, maxRecordId, deleted>>
        BY <1>3, <2>2 DEF Invoke
      <3>2. c # NoCall
        BY <3>1 DEF Requests, NoCall, Get
      <3> QED BY <1>1, <3>1, <3>2 DEF LoadKinds
    <2> QED BY <2>1, <2>2
  <1>4. CASE LoadOpen \/ LoadSize \/ LoadRead \/ LoadEnd
    BY <1>1, <1>4 DEF LoadOpen, LoadSize, LoadRead, LoadEnd, LoadKinds
  <1>5. CASE Resume
    BY <1>1, <1>5 DEF Resume, LoadKinds
  <1>6. CASE Start
    <2>1. Get \in Requests /\ Get # NoCall
      BY DEF Requests, Get, NoCall
    <2> QED BY <1>6, <2>1 DEF Start, LoadKinds
  <1> QED BY <1>2, <1>3, <1>4, <1>5, <1>6
      DEF Steps, erase, AppFlush, FlushBegin, FlushOp, FlushFields, FlushErase, FlushAborts, FlushWrite,
          FlushData, FlushEnd,
          WhileNotQuit, WaitEnds, WorkerFlush, Check, ThreadEnds, WorkerOnly, finalClose, Joined, vars, loader

LEMMA ThreadKindsKept ==
  ASSUME Kinds, Steps
  PROVE  ThreadKinds'
  <1>1. ThreadKinds /\ MaxCalls \in Nat /\ MaxRestarts \in Nat
    BY ConstantsAssumption DEF Kinds
  <1>2. ASSUME wakeThread, UNCHANGED <<m_recordStore, m_tableLoaded, m_quit, closing, restarts>>,
               calls' = calls \/ (calls < MaxCalls /\ calls' = calls + 1)
        PROVE  ThreadKinds'
    BY <1>1, <1>2 DEF ThreadKinds, wakeThread
  <1>3. ASSUME NEW c \in Requests, Perform(c), calls' = calls \/ (calls < MaxCalls /\ calls' = calls + 1)
        PROVE  ThreadKinds'
    <2>1. worker' = worker \/ wakeThread
      BY <1>3, PerformIs DEF Kinds, Unchanged, Changes
    <2>2. worker' \in {"off", "head", "wait", "flush", "check", "final", "ending"}
      BY <1>1, <2>1 DEF ThreadKinds, wakeThread
    <2>3. UNCHANGED <<m_recordStore, m_tableLoaded, m_quit, closing, restarts>>
      BY <1>3 DEF Perform
    <2> QED BY <1>1, <1>3, <2>2, <2>3 DEF ThreadKinds
  <1>4. CASE Invoke
    <2>1. calls' = calls \/ (calls < MaxCalls /\ calls' = calls + 1)
      BY <1>4 DEF Invoke
    <2>2. CASE UNCHANGED <<m_recordStore, table, thread, restarts>>
      BY <1>1, <2>1, <2>2 DEF ThreadKinds, table, thread
    <2> QED BY <1>3, <1>4, <2>1, <2>2 DEF Invoke
  <1>5. CASE Resume
    BY <1>3, <1>5 DEF Resume, Kinds, LoadKinds, NoCall
  <1>6. CASE erase
    BY <1>2, <1>6 DEF erase
  <1>7. CASE AppFlush
    BY <1>1, <1>7 DEF AppFlush, FlushBegin, ThreadKinds, thread
  <1>8. CASE LoadOpen \/ LoadSize \/ LoadRead
    BY <1>1, <1>8 DEF LoadOpen, LoadSize, LoadRead, ThreadKinds, thread, counts, table
  <1>9. CASE LoadEnd
    BY <1>1, <1>9 DEF LoadEnd, ThreadKinds, counts, wakeThread
  <1>10. CASE FlushOp \/ FlushFields \/ FlushErase \/ FlushAborts \/ FlushEnd
    BY <1>1, <1>10 DEF FlushOp, FlushFields, FlushErase, FlushAborts, FlushEnd, ThreadKinds, thread, counts, table
  <1>11. CASE FlushWrite \/ FlushData
    BY <1>1, <1>11 DEF FlushWrite, FlushData, ThreadKinds, thread, counts
  <1>12. CASE WhileNotQuit \/ WaitEnds \/ ThreadEnds
    BY <1>1, <1>12 DEF WhileNotQuit, WaitEnds, ThreadEnds, WorkerOnly, ThreadKinds, counts
  <1>13. CASE WorkerFlush
    BY <1>1, <1>13 DEF WorkerFlush, FlushBegin, ThreadKinds, thread
  <1>14. CASE Check
    BY <1>1, <1>14 DEF Check, ThreadKinds, counts
  <1>15. CASE finalClose \/ Joined
    BY <1>1, <1>15 DEF finalClose, Joined, ThreadKinds, counts, table
  <1>16. CASE Start
    <2>1. m_recordStore' \in BOOLEAN /\ m_tableLoaded' \in BOOLEAN /\ m_quit' \in BOOLEAN
      BY <1>16 DEF Start
    <2>2. calls' \in 0..MaxCalls /\ restarts' \in 0..MaxRestarts
      BY <1>1, <1>16 DEF Start, ThreadKinds
    <2>3. worker' = "off" /\ closing' = "no"
      BY <1>16 DEF Start
    <2> QED BY <2>1, <2>2, <2>3 DEF ThreadKinds
  <1>17. CASE UNCHANGED vars
    BY <1>1, <1>17 DEF vars, ThreadKinds
  <1> QED BY <1>4, <1>5, <1>6, <1>7, <1>8, <1>9, <1>10, <1>11, <1>12, <1>13, <1>14, <1>15, <1>16, <1>17 DEF Steps

\* What is stored under a key.
LEMMA StoredIs ==
  ASSUME NEW k
  PROVE  /\ Pairs(k) = {} => Stored(k) = None
         /\ Pairs(k) # {} => \E i \in Pairs(k) : Stored(k) = rec[i + 1]
  BY DEF Stored

LEMMA HistoryKindsKept ==
  ASSUME Kinds, Steps
  PROVE  HistoryKinds'
  <1> DEFINE Datum == Keys \cup Values \cup {None}
  <1>1. /\ truth \in [Keys -> Datum] /\ DOMAIN since = Keys
        /\ \A k \in Keys : truth[k] \in since[k]
        /\ packing \in BOOLEAN /\ faults \subseteq FaultKinds
    BY DEF Kinds, HistoryKinds
  <1>2. \A k, e : LateFault \subseteq FaultKinds /\ ReplacedFault(k, e) \subseteq FaultKinds
    BY DEF LateFault, ReplacedFault, FaultKinds
  <1>3. ASSUME UNCHANGED <<truth, since>>, packing' \in BOOLEAN, faults' \subseteq FaultKinds
        PROVE  HistoryKinds'
    BY <1>1, <1>3 DEF HistoryKinds
  <1>4. ASSUME NEW c \in Requests, Perform(c) PROVE HistoryKinds'
    <2>1. packing' = packing
      BY <1>4 DEF Perform
    <2>2. CASE UNCHANGED Unchanged
      BY <1>1, <1>3, <2>1, <2>2 DEF Unchanged
    <2>3. ASSUME NEW k \in Keys, NEW v \in Values \cup {None}, NEW e, Changes(k, e, v)
          PROVE  HistoryKinds'
      <3>1. /\ truth' = [truth EXCEPT ![k] = v] /\ since' = [since EXCEPT ![k] = @ \cup {v}]
            /\ faults' = faults \cup LateFault \cup ReplacedFault(k, e) /\ v \in Datum
        BY <2>3 DEF Changes
      <3>2. truth' \in [Keys -> Datum] /\ DOMAIN since' = Keys
        BY <1>1, <3>1
      <3>3. \A j \in Keys : truth'[j] \in since'[j]
        BY <1>1, <3>1
      <3> QED BY <1>1, <1>2, <2>1, <3>1, <3>2, <3>3 DEF HistoryKinds
    <2> QED BY <1>4, <2>2, <2>3, PerformIs DEF Kinds
  <1>5. CASE Invoke
    <2>1. CASE UNCHANGED <<truth, since, packing>> /\ \E f \in {{}, {"erased"}} : faults' = faults \cup f
      BY <1>1, <1>3, <2>1 DEF FaultKinds
    <2> QED BY <1>4, <1>5, <2>1 DEF Invoke
  <1>6. CASE Resume
    BY <1>4, <1>6 DEF Resume, Kinds, LoadKinds, NoCall
  <1>7. CASE erase
    <2>1. truth' \in [Keys -> Datum] /\ DOMAIN since' = Keys /\ \A k \in Keys : truth'[k] \in since'[k]
      BY <1>7 DEF erase
    <2>2. packing' \in BOOLEAN
      BY <1>7 DEF erase
    <2>3. faults' \subseteq FaultKinds
      BY <1>1, <1>2, <1>7 DEF erase
    <2> QED BY <2>1, <2>2, <2>3 DEF HistoryKinds
  <1>8. CASE LoadEnd
    <2>1. packing' \in BOOLEAN /\ UNCHANGED <<truth, since>>
      BY <1>1, <1>8 DEF LoadEnd
    <2>2. faults' \subseteq FaultKinds
      BY <1>1, <1>2, <1>8 DEF LoadEnd, FaultKinds
    <2> QED BY <1>3, <2>1, <2>2
  <1>9. CASE FlushOp \/ FlushErase
    BY <1>1, <1>3, <1>9 DEF FlushOp, FlushErase, FaultKinds
  <1>10. CASE FlushEnd
    <2>1. truth' = truth /\ DOMAIN since' = Keys /\ \A k \in Keys : truth[k] \in since'[k]
      BY <1>1, <1>10 DEF FlushEnd
    <2>2. packing' \in BOOLEAN /\ faults' \subseteq FaultKinds
      BY <1>1, <1>10 DEF FlushEnd, FaultKinds
    <2> QED BY <1>1, <2>1, <2>2 DEF HistoryKinds
  <1>11. CASE Check
    BY <1>1, <1>3, <1>11 DEF Check, FaultKinds
  <1>12. CASE Start
    <2>1. \A k \in Keys : Stored(k) \in Datum
      BY StoredIs DEF Pairs, Kinds, StoreKinds
    <2>2. truth' \in [Keys -> Datum] /\ DOMAIN since' = Keys /\ \A k \in Keys : truth'[k] \in since'[k]
      BY <1>12, <2>1 DEF Start
    <2>3. packing' \in BOOLEAN /\ faults' \subseteq FaultKinds
      BY <1>1, <1>12 DEF Start, FaultKinds
    <2> QED BY <2>2, <2>3 DEF HistoryKinds
  <1>13. CASE UNCHANGED history
    BY <1>1, <1>3, <1>13 DEF history
  <1> QED BY <1>5, <1>6, <1>7, <1>8, <1>9, <1>10, <1>11, <1>12, <1>13
      DEF Steps, AppFlush, FlushBegin, LoadOpen, LoadSize, LoadRead, FlushFields, FlushAborts, FlushWrite,
          FlushData, WhileNotQuit, WaitEnds, WorkerFlush, ThreadEnds, finalClose, Joined, vars, history

LEMMA KindsKept == ASSUME Kinds, [Next]_vars PROVE Kinds'
  BY NextIs, StoreKindsKept, TableKindsKept, FlushKindsKept, LoadKindsKept, ThreadKindsKept, HistoryKindsKept
     DEF Kinds

LEMMA KindsAtFirst == ASSUME Init PROVE Kinds
  <1>1. /\ rec = <<>> /\ nextId = 1 /\ obj = <<>> /\ m_entries = {} /\ queue = <<>> /\ pendingOp = <<>>
        /\ call = Get /\ MaxCalls \in Nat /\ MaxRestarts \in Nat
    BY ConstantsAssumption DEF Init, Started
  <1>2. DOMAIN <<>> = {} /\ IsFiniteSet({})
    BY EmptySeq, FS_EmptySet
  <1>3. StoreKinds
    BY <1>1, <1>2 DEF StoreKinds
  <1>4. TableKinds
    BY <1>1, <1>2, EmptyQueue DEF TableKinds
  <1>5. FlushKinds
    BY <1>1 DEF Init, Started, FlushKinds
  <1>6. LoadKinds
    <2>1. Get \in Requests /\ Get # NoCall
      BY DEF Requests, Get, NoCall
    <2> QED BY <1>1, <2>1 DEF Init, Started, LoadKinds
  <1>7. ThreadKinds
    <2>1. m_recordStore \in BOOLEAN /\ m_tableLoaded \in BOOLEAN /\ m_quit \in BOOLEAN
      BY DEF Init, Started
    <2>2. calls \in 0..MaxCalls /\ restarts \in 0..MaxRestarts
      BY <1>1 DEF Init
    <2>3. worker = "off" /\ closing = "no"
      BY DEF Init, Started
    <2> QED BY <2>1, <2>2, <2>3 DEF ThreadKinds
  <1>8. HistoryKinds
    BY DEF Init, Started, HistoryKinds, FaultKinds
  <1> QED BY <1>3, <1>4, <1>5, <1>6, <1>7, <1>8 DEF Kinds

LEMMA KindsAreTypes == ASSUME Kinds PROVE TypeOK
  <1>1. \A i \in DOMAIN rec : i \in 1..(nextId - 1) /\ rec[i] \in Keys \cup Values
    BY DEF Kinds, StoreKinds
  <1>2. \A e \in DOMAIN obj : /\ obj[e].name \in Keys \cup Values
                              /\ obj[e].index \in Nat
                              /\ obj[e].data \in Keys \cup Values \cup {None}
    BY DEF Kinds, TableKinds, EntryKind
  <1>3. KeysOf(queue) \cup KeysOf(pendingOp) \subseteq Keys \cup Values \cup {EraseAll}
    BY QueueIs DEF Kinds, TableKinds, OpKind
  <1> QED BY <1>1, <1>2, <1>3 DEF Kinds, TypeOK, TableKinds, FlushKinds, LoadKinds, ThreadKinds, HistoryKinds

\* Every object that is referred to exists, every queue has an operation per key,
\* and every variable is of its kind, whatever windows a behaviour has met.
THEOREM TypesKept == Spec => []TypeOK
  <1>1. Init => Kinds
    BY KindsAtFirst
  <1>2. Kinds /\ [Next]_vars => Kinds'
    BY KindsKept
  <1>3. Kinds => TypeOK
    BY KindsAreTypes
  <1> QED BY <1>1, <1>2, <1>3, PTL DEF Spec

-----------------------------------------------------------------------------
(* What a step leaves alone stays true.                                    *)

LEMMA RecordsStay ==
  ASSUME RecordsInPairs, UNCHANGED <<rec, nextId>>, HalfAdded' <=> HalfAdded, HalfAdded => index' = index
  PROVE  RecordsInPairs'
  BY DEF RecordsInPairs, Pairs

LEMMA NamesStay ==
  ASSUME QueuesNamed, UNCHANGED <<queue, pendingOp, obj>>
  PROVE  QueuesNamed'
  BY DEF QueuesNamed

LEMMA TruthStays ==
  ASSUME TruthFollows, UNCHANGED <<rec, queue, pendingOp, obj, truth>>
  PROVE  TruthFollows'
  BY DEF TruthFollows, EraseQueued, ErasePending, Pending, Pairs

LEMMA OwnersStay ==
  ASSUME Owners, UNCHANGED <<rec, nextId, queue, pendingOp, obj>>
  PROVE  Owners'
  BY DEF Owners, Owns, EraseQueued, ErasePending, Pairs

LEMMA ErasingStays ==
  ASSUME Erasing, UNCHANGED <<queue, pendingOp, obj, m_entries>>, ErasePending => fpc' \in {"op", "erase"}
  PROVE  Erasing'
  BY DEF Erasing, EraseQueued, ErasePending

LEMMA WritingStays ==
  ASSUME Writing, UNCHANGED <<rec, nextId, queue, pendingOp, obj, fpc, data, index>>, Busy => m_recordStore'
  PROVE  Writing'
  BY DEF Writing, Busy, EraseQueued, Pairs

LEMMA TableStays ==
  ASSUME TableFollows, UNCHANGED <<rec, queue, pendingOp, obj, m_entries, m_tableLoaded, truth>>,
         lpc \in {"none", "done"} <=> lpc' \in {"none", "done"}
  PROVE  TableFollows'
  BY DEF TableFollows, findEntry, EraseQueued, Pending, Pairs

LEMMA UnloadedStays ==
  ASSUME Unloaded, UNCHANGED <<m_tableLoaded, lpc, queue, pendingOp>>
  PROVE  Unloaded'
  BY DEF Unloaded

LEMMA ReadingStays ==
  ASSUME Reading, UNCHANGED <<lpc, m_recordStore, maxRecordId, nextId, recordId, m_entries, obj, rec>>
  PROVE  Reading'
  BY DEF Reading

LEMMA LookingStays ==
  ASSUME Looking, UNCHANGED <<worker, flusher, queue, closing, call>>
  PROVE  Looking'
  BY DEF Looking, LastLookDone, MonitorFree

LEMMA SavedStays ==
  ASSUME SavedValues, UNCHANGED <<rec, queue, pendingOp, obj, since, packing>>,
         Busy' => data' \in since[Head(pendingOp).key]
  PROVE  SavedValues'
  BY DEF SavedValues, Stored, Pairs, Repacking, EraseQueued, ErasePending

\* Steps of the threads that change nothing of what is stored or to be stored.
Contents == <<rec, nextId, m_recordStore, obj, m_entries, m_tableLoaded, queue, lpc, recordId,
              maxRecordId, fpc, pendingOp, data, index, truth, since, packing>>

LEMMA ContentsStay ==
  ASSUME SoundInv, UNCHANGED Contents, Looking'
  PROVE  SoundInv'
  <1>1. HalfAdded' <=> HalfAdded
    BY DEF Contents, HalfAdded
  <1>2. ErasePending => fpc' \in {"op", "erase"}
    BY DEF SoundInv, Erasing, Contents
  <1>3. Busy => m_recordStore'
    BY DEF SoundInv, Writing, Contents
  <1>4. Busy' => data' \in since[Head(pendingOp).key]
    BY DEF SoundInv, SavedValues, Contents, Busy
  <1>5. lpc \in {"none", "done"} <=> lpc' \in {"none", "done"}
    BY DEF Contents
  <1>6. RecordsInPairs'
    BY <1>1, RecordsStay DEF SoundInv, Contents
  <1>7. QueuesNamed' /\ TruthFollows' /\ Owners'
    BY NamesStay, TruthStays, OwnersStay DEF SoundInv, Contents
  <1>8. Erasing' /\ Writing'
    BY <1>2, <1>3, ErasingStays, WritingStays DEF SoundInv, Contents
  <1>9. TableFollows' /\ Unloaded' /\ Reading'
    BY <1>5, TableStays, UnloadedStays, ReadingStays DEF SoundInv, Contents
  <1>10. SavedValues'
    BY <1>4, SavedStays DEF SoundInv, Contents
  <1> QED BY <1>6, <1>7, <1>8, <1>9, <1>10 DEF SoundInv

-----------------------------------------------------------------------------
(* Records and queues.                                                     *)

\* The queues by the operations in them.
QueueSays(q) ==
  /\ \A k : k \in KeysOf(q) <=> \E o \in Range(q) : o.key = k
  /\ \A e : e \in ObjectsOf(q) <=> e # 0 /\ \E o \in Range(q) : o.e = e
  /\ \A o \in Range(q) : o.key # EraseAll => o.e \in ObjectsOf(q)
  /\ \A o, p \in Range(q) : o.key = p.key => o = p
  /\ q = <<>> <=> KeysOf(q) = {}

LEMMA QueueSaysSo == ASSUME NEW q, QueueKind(q) PROVE QueueSays(q)
  <1>1. /\ Range(q) \subseteq OpKind /\ KeysOf(q) = {o.key : o \in Range(q)}
        /\ ObjectsOf(q) = {o.e : o \in Range(q)} \ {0}
        /\ \A o, p \in Range(q) : o.key = p.key => o = p
    BY QueueIs
  <1>2. \A o \in Range(q) : o.key # EraseAll => o.e # 0
    BY DEF QueueKind
  <1>3. q # <<>> => Range(q) # {}
    BY QueueMoves
  <1>4. q = <<>> => KeysOf(q) = {}
    BY EmptyQueue
  <1>5. q # <<>> => KeysOf(q) # {}
    BY <1>1, <1>3
  <1> QED BY <1>1, <1>2, <1>4, <1>5 DEF QueueSays

\* The operations are of objects; their names are keys while the behaviour is sound.
LEMMA OpsAreOfObjects ==
  ASSUME Kinds
  PROVE  /\ QueueSays(queue) /\ QueueSays(pendingOp)
         /\ \A o \in Range(queue) \cup Range(pendingOp) : o.key # EraseAll => o.e \in DOMAIN obj
         /\ QueuesNamed => \A o \in Range(queue) \cup Range(pendingOp) : o.key # EraseAll => o.key \in Keys
         /\ EraseAll \notin Keys /\ None \notin Values /\ m_entries \subseteq DOMAIN obj
  <1>1. QueueSays(queue) /\ QueueSays(pendingOp)
    BY QueueSaysSo DEF Kinds, TableKinds
  <1>2. \A o \in Range(queue) \cup Range(pendingOp) : o.key # EraseAll => o.e \in DOMAIN obj
    BY <1>1 DEF QueueSays, Kinds, TableKinds
  <1>3. QueuesNamed => \A o \in Range(queue) \cup Range(pendingOp) : o.key # EraseAll => o.key \in Keys
    BY <1>2 DEF QueuesNamed
  <1> QED BY <1>1, <1>2, <1>3, ConstantsAssumption DEF Kinds, TableKinds

LEMMA HeadIs ==
  ASSUME Kinds, pendingOp # <<>>
  PROVE  Head(pendingOp) \in Range(pendingOp) /\ Head(pendingOp).key \in KeysOf(pendingOp)
  BY QueueMoves, OpsAreOfObjects DEF Kinds, TableKinds, QueueSays

\* A key is stored once: what is stored is the data of its pair.
LEMMA PairOf ==
  ASSUME RecordsInPairs, NEW k \in Keys, NEW i \in Pairs(k)
  PROVE  Pairs(k) = {i} /\ Stored(k) = rec[i + 1]
  BY DEF RecordsInPairs, Stored

LEMMA StoredSame ==
  ASSUME NEW k, Pairs(k)' = Pairs(k), \A i \in Pairs(k) : rec'[i + 1] = rec[i + 1]
  PROVE  Stored(k)' = Stored(k)
  <1>1. CASE Pairs(k) = {}
    BY <1>1 DEF Stored
  <1>2. CASE Pairs(k) # {}
    <2> DEFINE i == CHOOSE i \in Pairs(k) : TRUE
    <2>1. i \in Pairs(k)
      BY <1>2
    <2>2. Stored(k) = rec[i + 1] /\ Stored(k)' = rec'[i + 1]
      BY <1>2 DEF Stored
    <2> QED BY <2>1, <2>2
  <1> QED BY <1>1, <1>2

LEMMA Odds ==
  ASSUME NEW i \in Int
  PROVE  /\ Odd(i) => ~Odd(i + 1) /\ ~Odd(i - 1) /\ Odd(i + 2)
         /\ ~Odd(i) => Odd(i + 1) /\ Odd(i - 1)
         /\ Odd(1) /\ ~Odd(0)
  BY DEF Odd

-----------------------------------------------------------------------------
(* The steps of the thread and of the end, and a new start.                *)

LEMMA WorkerIsSound ==
  ASSUME Kinds, SoundInv, WhileNotQuit \/ WaitEnds \/ ThreadEnds \/ finalClose \/ Joined
  PROVE  SoundInv'
  <1>1. UNCHANGED Contents /\ UNCHANGED <<flusher, call>>
    BY DEF WhileNotQuit, WaitEnds, ThreadEnds, finalClose, Joined, WorkerOnly, Contents,
           disk, table, loader, flush, history
  <1>2. Looking
    BY DEF SoundInv
  <1>3. Looking'
    <2>1. CASE WhileNotQuit \/ WaitEnds
      BY <1>1, <1>2, <2>1 DEF WhileNotQuit, WaitEnds, WorkerOnly, Contents, Looking, LastLookDone, MonitorFree
    <2>2. CASE ThreadEnds
      BY <1>1, <1>2, <2>2 DEF ThreadEnds, WorkerOnly, Contents, Looking, LastLookDone, MonitorFree
    <2>3. CASE finalClose
      BY <1>1, <1>2, <2>3 DEF finalClose, Contents, Looking, LastLookDone, MonitorFree
    <2>4. CASE Joined
      BY <1>1, <1>2, <2>4 DEF Joined, Contents, Looking, LastLookDone, MonitorFree
    <2> QED BY <2>1, <2>2, <2>3, <2>4
  <1> QED BY <1>1, <1>3, ContentsStay

\* With no operation left, it matters what is stored and what the objects are.
LEMMA IdleKeeps ==
  ASSUME Kinds, SoundInv, queue = <<>>, pendingOp = <<>>,
         UNCHANGED <<rec, nextId, queue, pendingOp, fpc, data, truth, since, packing>>,
         \A e \in DOMAIN obj' : obj'[e].name \in Keys /\ obj'[e].data \in Values \cup {None}
  PROVE  /\ RecordsInPairs' /\ QueuesNamed' /\ TruthFollows' /\ Owners' /\ Erasing' /\ Writing' /\ SavedValues'
         /\ KeysOf(queue) = {} /\ KeysOf(pendingOp) = {} /\ ObjectsOf(queue) = {} /\ ObjectsOf(pendingOp) = {}
         /\ Range(queue) = {} /\ Range(pendingOp) = {} /\ ~HalfAdded /\ ~Busy
  <1>1. /\ KeysOf(queue) = {} /\ KeysOf(pendingOp) = {} /\ Range(queue) = {} /\ Range(pendingOp) = {}
        /\ ObjectsOf(queue) = {} /\ ObjectsOf(pendingOp) = {}
    BY EmptyQueue
  <1>2. /\ KeysOf(queue)' = {} /\ KeysOf(pendingOp)' = {} /\ Range(queue)' = {} /\ Range(pendingOp)' = {}
        /\ ErasesFirst(queue)' /\ ErasesFirst(pendingOp)'
    BY EmptyQueue
  <1>3. ~Busy /\ ~Busy' /\ ~HalfAdded /\ ~HalfAdded'
    BY DEF Busy, HalfAdded, Kinds, FlushKinds
  <1>4. \A k : Pairs(k)' = Pairs(k) /\ Stored(k)' = Stored(k)
    BY DEF Pairs, Stored
  <1>5. \A k : Pending(k)' <=> Pending(k)
    BY <1>1, <1>2 DEF Pending
  <1> USE DEF SoundInv
  <1>6. RecordsInPairs'
    BY <1>3, RecordsStay
  <1>7. QueuesNamed'
    BY <1>2 DEF QueuesNamed
  <1>8. TruthFollows'
    BY <1>2, <1>4, <1>5 DEF TruthFollows, EraseQueued, ErasePending
  <1>9. Owners' /\ Erasing' /\ Writing'
    BY <1>1, <1>2, <1>3 DEF Owners, Erasing, Writing, EraseQueued, ErasePending
  <1>10. SavedValues'
    BY <1>1, <1>2, <1>3, <1>4 DEF SavedValues, EraseQueued, ErasePending
  <1> QED BY <1>1, <1>3, <1>6, <1>7, <1>8, <1>9, <1>10

LEMMA CheckIsSound ==
  ASSUME Kinds, SoundInv, Check, Sound'
  PROVE  SoundInv'
  <1>1. Looking
    BY DEF SoundInv
  <1>2. CASE UNCHANGED <<obj, m_entries, m_tableLoaded>> /\ worker' = "head"
    <2>1. UNCHANGED Contents
      BY <1>2 DEF Check, Contents, disk, loader, flush
    <2>2. Looking'
      BY <1>1, <1>2 DEF Check, Looking, LastLookDone, MonitorFree, loader, flush
    <2> QED BY <2>1, <2>2, ContentsStay
  <1>3. CASE /\ queue = <<>> /\ m_entries' = {} /\ m_tableLoaded' = FALSE /\ MonitorFree
             /\ obj' = Kept(obj, {}, queue, pendingOp) /\ worker' = "final"
             /\ faults' = faults \cup IF pendingOp # <<>> THEN {"overlap"} ELSE {}
    <2>1. pendingOp = <<>> /\ UNCHANGED <<queue, pendingOp>>
      BY <1>3 DEF Sound, Check, flush
    <2>2. UNCHANGED <<rec, nextId, fpc, data, lpc, flusher, closing, call, truth, since, packing>>
      BY DEF Check, disk, loader, flush
    <2>3. lpc = "none" /\ worker = "check"
      BY <1>3 DEF Check, MonitorFree, Kinds, LoadKinds
    <2>4. DOMAIN obj' = {}
      BY <1>3, <2>1, EmptyQueue DEF Kept
    <2>5. /\ RecordsInPairs' /\ QueuesNamed' /\ TruthFollows' /\ Owners' /\ Erasing' /\ Writing' /\ SavedValues'
          /\ KeysOf(queue)' = {} /\ KeysOf(pendingOp)' = {}
      BY <1>3, <2>1, <2>2, <2>4, IdleKeeps
    <2>6. TableFollows' /\ Unloaded' /\ Reading'
      BY <1>3, <2>2, <2>3, <2>5 DEF TableFollows, Unloaded, Reading
    <2>7. Looking'
      BY <1>1, <1>3, <2>1, <2>2, <2>3 DEF Looking, LastLookDone, MonitorFree
    <2> QED BY <2>5, <2>6, <2>7 DEF SoundInv
  <1> QED BY <1>2, <1>3 DEF Check

LEMMA StartIsSound ==
  ASSUME Kinds, SoundInv, Start, Sound'
  PROVE  SoundInv'
  <1>1. ~Repacking /\ ~HalfAdded
    BY DEF Start, Sound
  <1>2. /\ queue' = <<>> /\ pendingOp' = <<>> /\ obj' = <<>> /\ m_entries' = {}
        /\ UNCHANGED <<rec, nextId>> /\ fpc' = "idle" /\ lpc' = "open" /\ m_tableLoaded' = FALSE
        /\ worker' = "off" /\ flusher' = "none" /\ closing' = "no"
        /\ truth' = [k \in Keys |-> Stored(k)] /\ since' = [k \in Keys |-> {Stored(k)}]
    BY DEF Start, disk
  <1>3. /\ KeysOf(queue)' = {} /\ KeysOf(pendingOp)' = {} /\ Range(queue)' = {} /\ Range(pendingOp)' = {}
        /\ DOMAIN obj' = {} /\ ErasesFirst(queue)' /\ ErasesFirst(pendingOp)'
    BY <1>2, EmptyQueue, EmptySeq
  <1>4. ~Busy' /\ ~HalfAdded'
    BY <1>2 DEF Busy, HalfAdded
  <1>5. RecordsInPairs /\ SavedValues
    BY DEF SoundInv
  <1>6. RecordsInPairs'
    BY <1>1, <1>2, <1>4, <1>5, RecordsStay
  <1>7. QueuesNamed'
    BY <1>3 DEF QueuesNamed
  <1>8. TruthFollows'
    <2>1. ASSUME NEW k \in Keys PROVE IF truth'[k] = None THEN Pairs(k)' = {} ELSE \E i \in Pairs(k)' : rec'[i + 1] = truth'[k]
      <3>1. Pairs(k)' = Pairs(k) /\ rec' = rec /\ truth'[k] = Stored(k)
        BY <1>2 DEF Pairs
      <3>2. CASE Pairs(k) = {}
        BY <3>1, <3>2, StoredIs
      <3>3. CASE Pairs(k) # {}
        <4>1. PICK i \in Pairs(k) : Stored(k) = rec[i + 1]
          BY <3>3, StoredIs
        <4>2. i \in Nat /\ Odd(i) /\ i + 1 \in DOMAIN rec
          BY DEF Pairs, Odd, Kinds, StoreKinds
        <4>3. ~Odd(i + 1)
          BY <4>2, Odds
        <4>4. rec[i + 1] # None
          BY <1>5, <4>2, <4>3, ConstantsAssumption DEF RecordsInPairs
        <4> QED BY <3>1, <4>1, <4>4
      <3> QED BY <3>2, <3>3
    <2> QED BY <1>3, <2>1 DEF TruthFollows, EraseQueued, ErasePending
  <1>9. Owners' /\ Erasing' /\ Writing'
    BY <1>3, <1>4 DEF Owners, Erasing, Writing, EraseQueued, ErasePending
  <1>10. TableFollows' /\ Unloaded' /\ Reading'
    BY <1>2, <1>3 DEF TableFollows, Unloaded, Reading
  <1>11. Looking'
    BY <1>2 DEF Looking, LastLookDone
  <1>12. SavedValues'
    <2>1. ASSUME NEW k \in Keys PROVE Stored(k)' \in since'[k]
      BY <1>2 DEF Stored, Pairs
    <2> QED BY <1>3, <1>4, <2>1 DEF SavedValues, EraseQueued, ErasePending
  <1> QED BY <1>6, <1>7, <1>8, <1>9, <1>10, <1>11, <1>12 DEF SoundInv

\* A flush takes the queue.
LEMMA FlushBeginIsSound ==
  ASSUME Kinds, SoundInv, NEW p, FlushBegin(p),
         (p = "worker" /\ worker \in {"flush", "final"}) \/ (p = "app" /\ closing = "no"),
         UNCHANGED <<worker, closing>>
  PROVE  SoundInv'
  <1>1. /\ pendingOp = <<>> /\ fpc = "idle" /\ lpc = "none" /\ MonitorFree
        /\ pendingOp' = queue /\ queue' = <<>> /\ fpc' = "op" /\ flusher' = p
        /\ UNCHANGED <<rec, nextId, m_recordStore, obj, m_entries, m_tableLoaded, lpc, call, data, index,
                       truth, since, packing>>
    BY DEF FlushBegin, Kinds, FlushKinds, LoadKinds, MonitorFree, disk, loader, history
  <1>2. /\ KeysOf(pendingOp) = {} /\ Range(pendingOp) = {} /\ ObjectsOf(pendingOp) = {}
        /\ KeysOf(queue)' = {} /\ Range(queue)' = {} /\ ObjectsOf(queue)' = {} /\ ErasesFirst(queue)'
        /\ KeysOf(pendingOp)' = KeysOf(queue) /\ Range(pendingOp)' = Range(queue)
        /\ ObjectsOf(pendingOp)' = ObjectsOf(queue) /\ ErasesFirst(pendingOp)' = ErasesFirst(queue)
    BY <1>1, EmptyQueue
  <1>3. /\ ~ErasePending /\ ~EraseQueued' /\ (ErasePending' <=> EraseQueued)
        /\ \A k : Pending(k)' <=> Pending(k)
    BY <1>2 DEF ErasePending, EraseQueued, Pending
  <1>4. \A k : Pairs(k)' = Pairs(k) /\ Stored(k)' = Stored(k)
    BY <1>1 DEF Pairs, Stored
  <1>5. ~Busy' /\ ~HalfAdded' /\ ~HalfAdded
    BY <1>1 DEF Busy, HalfAdded
  <1> USE DEF SoundInv
  <1>6. RecordsInPairs'
    BY <1>1, <1>5, RecordsStay
  <1>7. QueuesNamed'
    BY <1>1, <1>2 DEF QueuesNamed
  <1>8. TruthFollows'
    BY <1>1, <1>2, <1>3, <1>4 DEF TruthFollows
  <1>9. Owners'
    <2>1. \A e, k : Owns(e, k)' <=> Owns(e, k)
      BY <1>1, <1>4 DEF Owns
    <2> QED BY <1>2, <1>3, <2>1 DEF Owners
  <1>10. Erasing'
    <2>1. DOMAIN obj = m_entries \cup ObjectsOf(queue)
      BY <1>2 DEF Kinds, TableKinds
    <2> QED BY <1>1, <1>2, <1>3, <2>1 DEF Erasing
  <1>11. Writing'
    BY <1>5 DEF Writing
  <1>12. TableFollows'
    <2>1. \A k : findEntry(k)' = findEntry(k)
      BY <1>1 DEF findEntry
    <2> QED BY <1>1, <1>2, <1>3, <1>4, <2>1 DEF TableFollows
  <1>13. Unloaded' /\ Reading'
    BY <1>1, <1>2 DEF Unloaded, Reading
  <1>14. Looking'
    BY <1>1 DEF Looking, LastLookDone, MonitorFree
  <1>15. SavedValues'
    <2>1. \A k \in Keys : Stored(k)' \in since'[k]
      BY <1>1, <1>2, <1>4 DEF SavedValues
    <2>2. ErasePending' => \A k \in Keys : None \in since[k] \/ (packing /\ k \in KeysOf(queue))
      BY <1>3 DEF SavedValues
    <2>3. \A o \in Range(queue) : o.key # EraseAll => obj[o.e].data \in since[o.key]
      BY DEF SavedValues
    <2> QED BY <1>1, <1>2, <1>3, <1>5, <2>1, <2>2, <2>3 DEF SavedValues
  <1> QED BY <1>6, <1>7, <1>8, <1>9, <1>10, <1>11, <1>12, <1>13, <1>14, <1>15

-----------------------------------------------------------------------------
(* Reading the table.                                                      *)

\* A call finds no table.
LEMMA LoadBeginIsSound ==
  ASSUME Kinds, SoundInv, MonitorFree, closing = "no", ~m_tableLoaded,
         EraseAll \notin KeysOf(queue) \cup KeysOf(pendingOp), lpc' = "open",
         UNCHANGED <<rec, nextId, m_tableLoaded, obj, m_entries, queue, pendingOp, flusher, fpc, data,
                     worker, closing, truth, since, packing>>
  PROVE  SoundInv'
  <1>1. queue = <<>> /\ pendingOp = <<>>
    BY OpsAreOfObjects DEF SoundInv, Unloaded, QueueSays
  <1>2. /\ RecordsInPairs' /\ QueuesNamed' /\ TruthFollows' /\ Owners' /\ Erasing' /\ Writing' /\ SavedValues'
        /\ KeysOf(queue) = {} /\ KeysOf(pendingOp) = {}
    BY <1>1, IdleKeeps DEF SoundInv, QueuesNamed
  <1>3. TableFollows' /\ Unloaded' /\ Reading'
    BY <1>1, <1>2 DEF TableFollows, Unloaded, Reading
  <1>4. Looking'
    BY DEF SoundInv, Looking, LastLookDone
  <1> QED BY <1>2, <1>3, <1>4 DEF SoundInv

\* While the table is read nothing is to do, and nothing closes.
LEMMA WhileLoading ==
  ASSUME Kinds, SoundInv, lpc \in {"open", "size", "read"}
  PROVE  /\ queue = <<>> /\ pendingOp = <<>> /\ ~m_tableLoaded /\ closing = "no"
         /\ ~HalfAdded /\ Odd(nextId)
         /\ KeysOf(queue) = {} /\ KeysOf(pendingOp) = {} /\ ObjectsOf(queue) = {} /\ ObjectsOf(pendingOp) = {}
         /\ Range(queue) = {} /\ Range(pendingOp) = {} /\ m_entries = DOMAIN obj
  <1>1. queue = <<>> /\ pendingOp = <<>> /\ ~m_tableLoaded
    BY DEF SoundInv, Unloaded
  <1>2. closing = "no"
    BY DEF SoundInv, Looking, MonitorFree, Kinds, LoadKinds, ThreadKinds
  <1>3. ~HalfAdded
    BY <1>1 DEF HalfAdded, Kinds, FlushKinds
  <1>4. Odd(nextId)
    BY <1>3 DEF SoundInv, RecordsInPairs
  <1>5. m_entries = DOMAIN obj
    BY <1>1, EmptyQueue DEF Kinds, TableKinds
  <1> QED BY <1>1, <1>2, <1>3, <1>4, <1>5, EmptyQueue

LEMMA LoadOpenIsSound ==
  ASSUME Kinds, SoundInv, LoadOpen
  PROVE  SoundInv'
  <1>1. /\ lpc = "open" /\ lpc' = "size"
        /\ UNCHANGED <<rec, nextId, m_tableLoaded, obj, m_entries, queue, pendingOp, call, flusher, fpc, data,
                       worker, closing, truth, since, packing>>
    BY DEF LoadOpen, disk, table, flush, thread, history
  <1>2. queue = <<>> /\ pendingOp = <<>> /\ ~m_tableLoaded
    BY <1>1, WhileLoading
  <1>3. /\ RecordsInPairs' /\ QueuesNamed' /\ TruthFollows' /\ Owners' /\ Erasing' /\ Writing' /\ SavedValues'
        /\ KeysOf(queue) = {} /\ KeysOf(pendingOp) = {}
    BY <1>1, <1>2, IdleKeeps DEF SoundInv, QueuesNamed
  <1>4. TableFollows' /\ Unloaded' /\ Reading'
    BY <1>1, <1>2, <1>3 DEF TableFollows, Unloaded, Reading
  <1>5. Looking'
    BY <1>1, LookingStays DEF SoundInv
  <1> QED BY <1>3, <1>4, <1>5 DEF SoundInv

LEMMA LoadSizeIsSound ==
  ASSUME Kinds, SoundInv, LoadSize
  PROVE  SoundInv'
  <1>1. /\ lpc = "size"
        /\ UNCHANGED <<rec, nextId, m_recordStore, m_tableLoaded, queue, pendingOp, flusher, fpc, data,
                       worker, closing, truth, since, packing>>
    BY DEF LoadSize, disk, flush, thread, history
  <1>2. /\ queue = <<>> /\ pendingOp = <<>> /\ ~m_tableLoaded /\ closing = "no" /\ Odd(nextId)
        /\ ObjectsOf(queue) = {} /\ ObjectsOf(pendingOp) = {}
    BY <1>1, WhileLoading
  <1>3. \/ /\ m_recordStore /\ maxRecordId' = nextId /\ recordId' = 1 /\ m_entries' = {}
           /\ DOMAIN obj' = {} /\ lpc' = "read" /\ call' = call
        \/ lpc' = "none" /\ UNCHANGED obj
    <2>1. DOMAIN Kept(obj, {}, queue, pendingOp) = {}
      BY <1>2 DEF Kept
    <2> QED BY <1>1, <2>1 DEF LoadSize
  <1>4. /\ RecordsInPairs' /\ QueuesNamed' /\ TruthFollows' /\ Owners' /\ Erasing' /\ Writing' /\ SavedValues'
        /\ KeysOf(queue) = {} /\ KeysOf(pendingOp) = {}
    <2>1. \A e \in DOMAIN obj' : obj'[e].name \in Keys /\ obj'[e].data \in Values \cup {None}
      BY <1>3 DEF SoundInv, QueuesNamed
    <2> QED BY <1>1, <1>2, <2>1, IdleKeeps
  <1>5. TableFollows' /\ Unloaded'
    BY <1>1, <1>2, <1>3, <1>4 DEF TableFollows, Unloaded
  <1>6. Reading'
    <2>1. CASE lpc' = "none"
      BY <2>1 DEF Reading
    <2>2. CASE /\ m_recordStore /\ maxRecordId' = nextId /\ recordId' = 1 /\ m_entries' = {}
               /\ DOMAIN obj' = {} /\ lpc' = "read" /\ call' = call
      <3>1. nextId \in Nat \ {0} /\ \A i \in DOMAIN rec : i >= 1
        BY DEF Kinds, StoreKinds
      <3>2. Odd(1)
        BY Odds
      <3>3. \A i \in DOMAIN rec : ~(i < 1)
        BY <3>1 DEF Kinds, StoreKinds
      <3>4. 1 <= nextId
        BY <3>1
      <3>5. /\ m_recordStore' /\ maxRecordId' = nextId' /\ Odd(recordId') /\ recordId' <= nextId'
            /\ \A i \in DOMAIN rec' : ~(i < recordId')
        BY <1>1, <2>2, <3>2, <3>3, <3>4
      <3> QED BY <2>2, <3>5 DEF Reading
    <2> QED BY <1>3, <2>1, <2>2
  <1>7. Looking'
    BY <1>1, <1>2 DEF SoundInv, Looking, LastLookDone
  <1> QED BY <1>4, <1>5, <1>6, <1>7 DEF SoundInv

\* One pair is read, or is missing.
LEMMA LoadReadIsSound ==
  ASSUME Kinds, SoundInv, LoadRead
  PROVE  SoundInv'
  <1>1. /\ lpc = "read" /\ recordId < maxRecordId /\ recordId' = recordId + 2
        /\ UNCHANGED <<rec, nextId, m_recordStore, m_tableLoaded, queue, pendingOp, flusher, fpc, data, lpc,
                       maxRecordId, call, worker, closing, truth, since, packing>>
    BY DEF LoadRead, disk, flush, thread, history
  <1>2. /\ queue = <<>> /\ pendingOp = <<>> /\ ~m_tableLoaded /\ closing = "no" /\ Odd(nextId) /\ ~HalfAdded
        /\ m_entries = DOMAIN obj
    BY <1>1, WhileLoading
  <1>3. /\ nextId \in Nat \ {0} /\ recordId \in Nat /\ \A i \in DOMAIN rec : i \in Nat
        /\ \A e \in DOMAIN obj : obj[e].index \in Nat
    BY DEF Kinds, StoreKinds, LoadKinds, TableKinds, EntryKind
  <1>4. Reading /\ RecordsInPairs /\ QueuesNamed
    BY DEF SoundInv
  <1>5. m_recordStore /\ maxRecordId = nextId /\ Odd(recordId) /\ recordId < nextId
    BY <1>1, <1>4 DEF Reading
  <1>6. Odd(recordId + 2) /\ recordId + 2 <= nextId /\ \A i \in Nat : Odd(i) /\ i < recordId + 2 => i <= recordId
    BY <1>2, <1>3, <1>5 DEF Odd
  <1>7. ASSUME {recordId, recordId + 1} \subseteq DOMAIN rec
        PROVE  (\A e \in DOMAIN obj' : obj'[e].name \in Keys /\ obj'[e].data \in Values \cup {None}) /\ Reading'
    <2> DEFINE n == NewObject
               x == Entry(rec[recordId], recordId, rec[recordId + 1])
    <2>1. n \notin DOMAIN obj
      BY FewObjectsInAll, NewObjectIsNew DEF Kinds
    <2>2. obj' = Added(obj, n, x) /\ m_entries' = m_entries \cup {n}
      BY <1>5, <1>7 DEF LoadRead
    <2>3. x.name = rec[recordId] /\ x.index = recordId /\ x.data = rec[recordId + 1]
      BY DEF Entry
    <2>4. rec[recordId] \in Keys /\ rec[recordId + 1] \in Values
      <3>1. ~Odd(recordId + 1)
        BY <1>3, <1>5, Odds
      <3> QED BY <1>4, <1>5, <1>7, <3>1 DEF RecordsInPairs
    <2>5. x = Entry(rec[recordId], recordId, rec[recordId + 1])
      OBVIOUS
    <2> HIDE DEF n, x
    <2>6. DOMAIN obj' = DOMAIN obj \cup {n} /\ obj'[n] = x /\ \A e \in DOMAIN obj : obj'[e] = obj[e]
      BY <2>1, <2>2 DEF Added
    <2>7. \A e \in DOMAIN obj' : obj'[e].name \in Keys /\ obj'[e].data \in Values \cup {None}
      BY <1>4, <2>3, <2>4, <2>6 DEF QueuesNamed
    <2>8. Reading'
      <3>1. ASSUME NEW e \in m_entries'
            PROVE  LET i == obj'[e].index IN
                   i < recordId' /\ Odd(i) /\ {i, i + 1} \subseteq DOMAIN rec' /\ obj'[e] = Entry(rec'[i], i, rec'[i + 1])
        <4>1. CASE e = n
          BY <1>1, <1>3, <1>5, <1>7, <2>3, <2>5, <2>6, <4>1
        <4>2. CASE e \in m_entries
          <5>1. /\ obj'[e] = obj[e] /\ obj[e].index < recordId /\ Odd(obj[e].index)
                /\ {obj[e].index, obj[e].index + 1} \subseteq DOMAIN rec
                /\ obj[e] = Entry(rec[obj[e].index], obj[e].index, rec[obj[e].index + 1])
            BY <1>1, <1>2, <1>4, <2>6, <4>2 DEF Reading
          <5>2. obj[e].index < recordId + 2
            BY <1>2, <1>3, <4>2, <5>1
          <5> QED BY <1>1, <5>1, <5>2
        <4> QED BY <2>2, <4>1, <4>2
      <3>2. ASSUME NEW i \in DOMAIN rec, Odd(i), i < recordId + 2, i + 1 \in DOMAIN rec
            PROVE  \E e \in m_entries' : obj'[e].index = i
        <4>1. CASE i = recordId
          BY <2>2, <2>3, <2>6, <4>1
        <4>2. CASE i # recordId
          <5>1. i < recordId
            BY <1>3, <1>6, <3>2, <4>2
          <5>2. PICK e \in m_entries : obj[e].index = i
            BY <1>1, <1>4, <3>2, <5>1 DEF Reading
          <5> QED BY <1>2, <2>2, <2>6, <5>2
        <4> QED BY <4>1, <4>2
      <3>3. ASSUME NEW d \in m_entries', NEW e \in m_entries', obj'[d].index = obj'[e].index PROVE d = e
        <4>1. \A c \in m_entries : obj'[c].index # recordId /\ obj'[c] = obj[c]
          BY <1>1, <1>2, <1>3, <1>4, <2>6 DEF Reading
        <4>2. \A c \in m_entries, b \in m_entries : obj[c].index = obj[b].index => c = b
          BY <1>1, <1>4 DEF Reading
        <4> QED BY <2>2, <2>3, <2>6, <3>3, <4>1, <4>2
      <3> QED BY <1>1, <1>5, <1>6, <3>1, <3>2, <3>3 DEF Reading
    <2> QED BY <2>7, <2>8
  <1>8. ASSUME ~({recordId, recordId + 1} \subseteq DOMAIN rec)
        PROVE  (\A e \in DOMAIN obj' : obj'[e].name \in Keys /\ obj'[e].data \in Values \cup {None}) /\ Reading'
    <2>1. UNCHANGED <<obj, m_entries>>
      BY <1>5, <1>8 DEF LoadRead
    <2>2. \A e \in m_entries : obj[e].index < recordId + 2
      BY <1>1, <1>2, <1>3, <1>4 DEF Reading
    <2>3. \A i \in DOMAIN rec : Odd(i) /\ i < recordId + 2 /\ i + 1 \in DOMAIN rec => i < recordId
      BY <1>3, <1>6, <1>8
    <2>4. Reading'
      BY <1>1, <1>4, <1>5, <1>6, <2>1, <2>2, <2>3 DEF Reading
    <2> QED BY <1>4, <2>1, <2>4 DEF QueuesNamed
  <1>9. (\A e \in DOMAIN obj' : obj'[e].name \in Keys /\ obj'[e].data \in Values \cup {None}) /\ Reading'
    BY <1>7, <1>8
  <1>10. /\ RecordsInPairs' /\ QueuesNamed' /\ TruthFollows' /\ Owners' /\ Erasing' /\ Writing' /\ SavedValues'
    BY <1>1, <1>2, <1>9, IdleKeeps
  <1>11. TableFollows' /\ Unloaded'
    BY <1>1, <1>2, UnloadedStays DEF TableFollows, SoundInv
  <1>12. Looking'
    BY <1>1, LookingStays DEF SoundInv
  <1> QED BY <1>9, <1>10, <1>11, <1>12 DEF SoundInv

\* The table that has been read: an entry per key that is stored, with its last value.
LEMMA AllRead ==
  ASSUME Kinds, SoundInv, lpc = "read", recordId >= maxRecordId
  PROVE  /\ \A d, e \in m_entries : obj[d].name = obj[e].name => d = e
         /\ \A e \in m_entries : /\ obj[e].name \in Keys /\ obj[e].data \in Values
                                 /\ truth[obj[e].name] = obj[e].data /\ obj[e].index \in Pairs(obj[e].name)
         /\ \A k \in Keys : truth[k] # None => findEntry(k) # {}
  <1>1. /\ KeysOf(queue) = {} /\ KeysOf(pendingOp) = {} /\ m_entries = DOMAIN obj
    BY WhileLoading
  <1>2. Reading /\ RecordsInPairs /\ TruthFollows
    BY DEF SoundInv
  <1>3. recordId = nextId
    BY <1>2 DEF Reading, Kinds, StoreKinds, LoadKinds
  <1>4. \A k : ~Pending(k)
    BY <1>1 DEF Pending
  <1>5. \A i \in DOMAIN rec : i \in Nat /\ i < nextId
    BY DEF Kinds, StoreKinds
  <1>6. ASSUME NEW e \in m_entries
        PROVE  /\ obj[e].index \in Pairs(obj[e].name) /\ obj[e].name \in Keys /\ obj[e].data \in Values
               /\ truth[obj[e].name] = obj[e].data
    <2> DEFINE i == obj[e].index
    <2>1. Odd(i) /\ i \in DOMAIN rec /\ i + 1 \in DOMAIN rec /\ obj[e] = Entry(rec[i], i, rec[i + 1])
      BY <1>2, <1>6 DEF Reading
    <2>2. obj[e].name = rec[i] /\ obj[e].data = rec[i + 1]
      BY <2>1 DEF Entry
    <2> HIDE DEF i
    <2>3. ~Odd(i + 1)
      BY <1>5, <2>1, Odds
    <2>4. rec[i] \in Keys /\ rec[i + 1] \in Values
      BY <1>2, <2>1, <2>3 DEF RecordsInPairs
    <2>5. i \in Pairs(rec[i])
      BY <2>1 DEF Pairs, Odd
    <2>6. truth[rec[i]] = rec[i + 1]
      <3>1. PICK j \in Pairs(rec[i]) : rec[j + 1] = truth[rec[i]]
        BY <1>2, <1>4, <2>4, <2>5 DEF TruthFollows
      <3>2. j = i
        BY <1>2, <2>4, <2>5 DEF RecordsInPairs
      <3> QED BY <3>1, <3>2
    <2> QED BY <2>2, <2>4, <2>5, <2>6 DEF i
  <1>7. ASSUME NEW d \in m_entries, NEW e \in m_entries, obj[d].name = obj[e].name PROVE d = e
    <2>1. obj[d].index = obj[e].index
      BY <1>2, <1>6, <1>7 DEF RecordsInPairs
    <2> QED BY <1>2, <2>1 DEF Reading
  <1>8. ASSUME NEW k \in Keys, truth[k] # None PROVE findEntry(k) # {}
    <2>1. PICK i \in Pairs(k) : rec[i + 1] = truth[k]
      BY <1>2, <1>4, <1>8 DEF TruthFollows
    <2>2. Odd(i) /\ i \in DOMAIN rec /\ i + 1 \in DOMAIN rec /\ i < recordId /\ rec[i] = k
      BY <1>3, <1>5 DEF Pairs, Odd
    <2>3. PICK e \in m_entries : obj[e].index = i
      BY <1>2, <2>2 DEF Reading
    <2>4. obj[e].name = k
      BY <1>6, <2>2, <2>3 DEF Pairs
    <2> QED BY <2>4 DEF findEntry
  <1> QED BY <1>6, <1>7, <1>8

LEMMA LoadEndIsSound ==
  ASSUME Kinds, SoundInv, LoadEnd, Sound'
  PROVE  SoundInv'
  <1>1. /\ lpc = "read" /\ recordId >= maxRecordId /\ lpc' = "done" /\ m_tableLoaded' = TRUE /\ wakeThread
        /\ UNCHANGED <<rec, nextId, m_entries, pendingOp, flusher, fpc, data, closing, truth, since>>
    BY DEF LoadEnd, disk, flush
  <1>2. /\ queue = <<>> /\ pendingOp = <<>> /\ closing = "no" /\ ~HalfAdded /\ m_entries = DOMAIN obj
        /\ KeysOf(queue) = {} /\ KeysOf(pendingOp) = {} /\ Range(queue) = {} /\ Range(pendingOp) = {}
        /\ ObjectsOf(pendingOp) = {}
    BY <1>1, WhileLoading
  <1>3. /\ \A d, e \in m_entries : obj[d].name = obj[e].name => d = e
        /\ \A e \in m_entries : /\ obj[e].name \in Keys /\ obj[e].data \in Values
                                /\ truth[obj[e].name] = obj[e].data /\ obj[e].index \in Pairs(obj[e].name)
        /\ \A k \in Keys : truth[k] # None => findEntry(k) # {}
    BY <1>1, AllRead
  <1>4. \A e \in m_entries : obj[e].data # None
    BY <1>3, ConstantsAssumption
  <1>5. \A k : Pairs(k)' = Pairs(k) /\ Stored(k)' = Stored(k)
    BY <1>1 DEF Pairs, Stored
  <1>6. Reading'
    BY <1>1 DEF Reading
  <1>7. CASE ~PackNeeded
    <2>1. UNCHANGED <<queue, obj, packing>>
      BY <1>7 DEF LoadEnd
    <2>2. RecordsInPairs' /\ QueuesNamed' /\ TruthFollows' /\ Owners' /\ Erasing' /\ Writing' /\ SavedValues'
      BY <1>1, <1>2, <2>1, IdleKeeps DEF SoundInv, QueuesNamed
    <2>3. TableFollows'
      <3>1. Range(queue)' = {} /\ Range(pendingOp)' = {}
        BY <1>1, <1>2, <2>1
      <3>2. \A k : findEntry(k)' = findEntry(k)
        BY <1>1, <2>1 DEF findEntry
      <3> QED BY <1>1, <1>3, <1>4, <1>5, <2>1, <3>1, <3>2 DEF TableFollows
    <2>4. Unloaded'
      BY <1>1, <1>2 DEF Unloaded
    <2>5. Looking'
      BY <1>1, <1>2, <2>1 DEF SoundInv, Looking, LastLookDone, wakeThread
    <2> QED BY <1>6, <2>2, <2>3, <2>4, <2>5 DEF SoundInv
  <1>8. CASE PackNeeded
    <2> DEFINE one(k) == CHOOSE e \in findEntry(k) : TRUE
    <2>1. queue' = PackedQueue /\ packing' = TRUE /\ ~LastLookDone
      BY <1>8 DEF LoadEnd, Sound, LateFault
    <2>2. /\ QueueKind(queue') /\ ErasesFirst(queue')
          /\ Range(queue') = {Op(EraseAll, 0)} \cup {Op(obj[e].name, e) : e \in m_entries}
      <3>1. /\ QueueKind(queue) /\ IsFiniteSet(m_entries) /\ m_entries \subseteq DOMAIN obj
            /\ DOMAIN obj \subseteq Nat \ {0} /\ \A e \in DOMAIN obj : obj[e] \in EntryKind
        BY <1>2 DEF Kinds, TableKinds
      <3>2. /\ QueueKind(PackedQueue) /\ ErasesFirst(PackedQueue)
            /\ Range(PackedQueue) = {o \in Range(addAsyncOperation(queue, EraseAll, 0)) : findEntry(o.key) = {}}
                                    \cup {Op(obj[e].name, one(obj[e].name)) : e \in m_entries}
            /\ \A e \in m_entries : one(obj[e].name) \in m_entries /\ obj[one(obj[e].name)].name = obj[e].name
        BY <1>2, <3>1, PackedIs
      <3> HIDE DEF one
      <3>3. Range(addAsyncOperation(queue, EraseAll, 0)) = {Op(EraseAll, 0)}
        <4>1. Op(EraseAll, 0) \in OpKind /\ (0 = 0 <=> EraseAll = EraseAll)
          BY DEF Op, OpKind
        <4>2. Range(addAsyncOperation(queue, EraseAll, 0)) = {o \in Range(queue) : o.key # EraseAll} \cup {Op(EraseAll, 0)}
          BY <3>1, <4>1, QueueAdds
        <4> QED BY <1>2, <4>2
      <3>4. Op(EraseAll, 0).key = EraseAll /\ findEntry(EraseAll) = {}
        BY <1>3, ConstantsAssumption DEF Op, findEntry
      <3>5. \A e \in m_entries : one(obj[e].name) = e
        BY <1>3, <3>2
      <3>6. {o \in Range(addAsyncOperation(queue, EraseAll, 0)) : findEntry(o.key) = {}} = {Op(EraseAll, 0)}
        BY <3>3, <3>4
      <3>7. {Op(obj[e].name, one(obj[e].name)) : e \in m_entries} = {Op(obj[e].name, e) : e \in m_entries}
        BY <3>5
      <3> QED BY <2>1, <3>2, <3>6, <3>7
    <2>3. /\ \A o \in Range(queue') : o.key # EraseAll => o.e \in m_entries /\ o.key = obj[o.e].name
          /\ \A e \in m_entries : obj[e].name \in KeysOf(queue')
          /\ EraseAll \in KeysOf(queue') /\ ObjectsOf(queue') \subseteq m_entries
      <3>1. \A k, e : Op(k, e).key = k /\ Op(k, e).e = e
        BY DEF Op
      <3>2. QueueSays(queue')
        BY <2>2, QueueSaysSo
      <3>3. \A o \in Range(queue') : o = Op(EraseAll, 0) \/ \E e \in m_entries : o = Op(obj[e].name, e)
        BY <2>2
      <3>4. \A e \in m_entries : Op(obj[e].name, e) \in Range(queue')
        BY <2>2
      <3>5. Op(EraseAll, 0) \in Range(queue')
        BY <2>2
      <3> QED BY <3>1, <3>2, <3>3, <3>4, <3>5 DEF QueueSays
    <2>4. /\ DOMAIN obj' = m_entries
          /\ \A e \in m_entries : /\ obj'[e].name = obj[e].name /\ obj'[e].data = obj[e].data
                                  /\ obj'[e].index = 0
      <3>1. /\ DOMAIN obj' \subseteq DOMAIN obj
            /\ \A e \in DOMAIN obj' :
                 obj'[e] = IF e \in m_entries THEN Entry(obj[e].name, 0, obj[e].data) ELSE obj[e]
        BY <1>8, PackKinds DEF Kinds
      <3>2. m_entries \subseteq DOMAIN obj'
        <4>1. PICK o : obj' = Kept(o, m_entries, queue', pendingOp)
          BY <1>8 DEF LoadEnd
        <4> QED BY <4>1 DEF Kept
      <3>3. \A e \in m_entries : obj'[e] = Entry(obj[e].name, 0, obj[e].data)
        BY <3>1, <3>2
      <3> QED BY <1>2, <3>1, <3>2, <3>3 DEF Entry
    <2>5. EraseQueued' /\ ~ErasePending' /\ KeysOf(pendingOp)' = {} /\ Range(pendingOp)' = {} /\ ObjectsOf(pendingOp)' = {}
      BY <1>1, <1>2, <2>3 DEF EraseQueued, ErasePending
    <2>6. ~Busy' /\ ~HalfAdded' /\ ErasesFirst(pendingOp)'
      BY <1>1, <1>2, EmptyQueue DEF Busy, HalfAdded, Kinds, FlushKinds
    <2>7. RecordsInPairs'
      BY <1>1, <1>2, <2>6, RecordsStay DEF SoundInv
    <2>8. QueuesNamed'
      BY <1>3, <2>2, <2>3, <2>4, <2>5, <2>6 DEF QueuesNamed
    <2>9. TruthFollows'
      <3>1. \A o \in Range(queue') : o.key # EraseAll => truth'[o.key] = obj'[o.e].data
        BY <1>1, <1>3, <2>3, <2>4
      <3>2. \A k \in Keys \ KeysOf(queue') : truth'[k] = None
        BY <1>1, <1>3, <2>3 DEF findEntry
      <3>3. \A k : Pending(k)'
        BY <2>3 DEF Pending
      <3> QED BY <2>5, <3>1, <3>2, <3>3 DEF TruthFollows
    <2>10. Owners' /\ Erasing' /\ Writing'
      BY <1>1, <2>3, <2>4, <2>5, <2>6 DEF Owners, Erasing, Writing
    <2>11. TableFollows'
      <3>1. \A k \in Keys : truth'[k] # None => findEntry(k)' # {}
        BY <1>1, <1>3, <2>4 DEF findEntry
      <3>2. \A k : Pending(k)'
        BY <2>3 DEF Pending
      <3>3. \A o \in Range(queue') : o.key # EraseAll => o.e \in m_entries'
        BY <1>1, <2>3
      <3>4. \A e \in m_entries' : obj'[e].data # None /\ truth'[obj'[e].name] = obj'[e].data
        BY <1>1, <1>3, <1>4, <2>4
      <3>5. \A d, e \in m_entries' : obj'[d].name = obj'[e].name => d = e
        BY <1>1, <1>3, <2>4
      <3> QED BY <2>5, <3>1, <3>2, <3>3, <3>4, <3>5 DEF TableFollows
    <2>12. Unloaded'
      BY <1>1, <1>2 DEF Unloaded
    <2>13. Looking'
      BY <1>1, <1>2, <2>1 DEF SoundInv, Looking, LastLookDone, wakeThread
    <2>14. SavedValues'
      <3>1. \A k \in Keys : Stored(k)' \in since'[k]
        BY <1>1, <1>2, <1>5 DEF SoundInv, SavedValues
      <3>2. \A k \in Keys : truth[k] \in since[k]
        BY DEF Kinds, HistoryKinds
      <3>3. \A o \in Range(queue') : o.key # EraseAll => obj'[o.e].data \in since'[o.key]
        BY <1>1, <1>3, <2>3, <2>4, <3>2
      <3>4. \A k \in Keys : None \in since'[k] \/ k \in KeysOf(queue')
        BY <1>1, <1>3, <2>3, <3>2 DEF findEntry
      <3>5. packing' /\ pendingOp' = <<>>
        BY <1>1, <1>2, <2>1
      <3> QED BY <2>5, <2>6, <3>1, <3>3, <3>4, <3>5 DEF SavedValues
    <2> QED BY <1>6, <2>7, <2>8, <2>9, <2>10, <2>11, <2>12, <2>13, <2>14 DEF SoundInv
  <1> QED BY <1>7, <1>8

-----------------------------------------------------------------------------
(* The calls.                                                              *)

\* What the other operations of the key are when its entry changes.
LEMMA ChangeMeets ==
  ASSUME Kinds, SoundInv, m_tableLoaded, lpc \in {"none", "done"}, NEW k \in Keys, NEW v \in Values \cup {None},
         NEW e, Changes(k, e, v), Sound'
  PROVE  /\ ~LastLookDone
         /\ e \in m_entries => e \in DOMAIN obj /\ obj[e].name = k /\ obj[e].data # None /\ truth[k] = obj[e].data
         /\ e \notin m_entries => e \notin DOMAIN obj /\ truth[k] = None /\ v # None
         /\ \A o \in Range(queue) : o.key = k /\ o.e # e =>
              e \notin m_entries /\ obj[o.e].index = 0 /\ o.e \notin ObjectsOf(pendingOp)
         /\ ~EraseQueued => \A p \in Range(pendingOp) : p.key = k /\ p.e # e =>
              obj[p.e].data = None /\ (e \in m_entries => obj[e].index = 0)
         /\ \A d \in m_entries : d # e => obj[d].name # k
  <1>1. /\ e \in Nat \ {0}
        /\ (e \in m_entries /\ obj[e].name = k) \/ (findEntry(k) = {} /\ e \notin DOMAIN obj /\ v # None)
        /\ faults' = faults \cup LateFault \cup ReplacedFault(k, e)
    BY DEF Changes
  <1>2. /\ QueueSays(queue) /\ QueueSays(pendingOp) /\ m_entries \subseteq DOMAIN obj /\ k # EraseAll
        /\ \A o \in Range(queue) \cup Range(pendingOp) : o.key # EraseAll => o.e \in DOMAIN obj
    BY OpsAreOfObjects
  <1>3. TableFollows /\ TruthFollows /\ Owners /\ QueuesNamed
    BY DEF SoundInv
  <1>4. ~LastLookDone /\ ~DropsDeletion(k, e)
    BY <1>1 DEF Sound, LateFault, ReplacedFault
  <1>5. e \in m_entries => e \in DOMAIN obj /\ obj[e].name = k /\ obj[e].data # None /\ truth[k] = obj[e].data
    BY <1>1, <1>2, <1>3 DEF TableFollows
  <1>6. e \notin m_entries => e \notin DOMAIN obj /\ truth[k] = None /\ v # None
    BY <1>1, <1>3 DEF TableFollows
  <1>7. \A d \in m_entries : d # e => obj[d].name # k
    BY <1>1, <1>3 DEF TableFollows, findEntry
  <1>8. ASSUME NEW o \in Range(queue), o.key = k, o.e # e
        PROVE  e \notin m_entries /\ obj[o.e].index = 0 /\ o.e \notin ObjectsOf(pendingOp)
    <2>1. PICK i \in DOMAIN queue : queue[i] = o
      BY DEF Range
    <2>2. ~(obj[o.e].index > 0) /\ o.e \notin ObjectsOf(pendingOp)
      BY <1>4, <1>8, <2>1 DEF DropsDeletion
    <2>3. obj[o.e].index = 0
      BY <1>2, <1>8, <2>2 DEF Kinds, TableKinds, EntryKind
    <2>4. ASSUME e \in m_entries PROVE FALSE
      <3>1. obj[o.e].data # None /\ obj[o.e].name = k
        BY <1>2, <1>3, <1>5, <1>8, <2>4 DEF TruthFollows, QueuesNamed
      <3>2. o.e \in m_entries
        BY <1>2, <1>3, <1>8, <3>1 DEF TableFollows
      <3> QED BY <1>7, <1>8, <3>1, <3>2
    <2> QED BY <2>2, <2>3, <2>4
  <1>9. ASSUME ~EraseQueued, NEW p \in Range(pendingOp), p.key = k, p.e # e
        PROVE  obj[p.e].data = None /\ (e \in m_entries => obj[e].index = 0)
    <2>1. p.e \in ObjectsOf(pendingOp)
      BY <1>2, <1>9 DEF QueueSays
    <2>2. ASSUME NEW o \in Range(queue), o.key = k PROVE obj[p.e].data = None /\ (e \in m_entries => obj[e].index = 0)
      <3>1. p.e # o.e
        BY <1>8, <1>9, <2>1, <2>2
      <3>2. obj[p.e].data = None /\ obj[o.e].index = 0
        BY <1>3, <1>9, <2>2, <3>1 DEF Owners
      <3>3. e \in m_entries => o.e = e
        BY <1>8, <2>2
      <3> QED BY <3>2, <3>3
    <2>3. ASSUME k \notin KeysOf(queue) PROVE obj[p.e].data = None /\ e \notin m_entries
      <3>1. truth[k] = obj[p.e].data
        BY <1>2, <1>3, <1>9, <2>3 DEF TruthFollows
      <3>2. ASSUME e \in m_entries PROVE FALSE
        <4>1. obj[p.e].data # None /\ obj[p.e].name = k
          BY <1>2, <1>3, <1>5, <1>9, <3>1, <3>2 DEF QueuesNamed
        <4>2. p.e \in m_entries
          BY <1>2, <1>3, <1>9, <2>3, <4>1 DEF TableFollows
        <4> QED BY <1>7, <1>9, <4>1, <4>2
      <3> QED BY <1>6, <3>1, <3>2
    <2> QED BY <1>2, <2>2, <2>3 DEF QueueSays
  <1> QED BY <1>4, <1>5, <1>6, <1>7, <1>8, <1>9

LEMMA ChangesAreSound ==
  ASSUME Kinds, Kinds', SoundInv, m_tableLoaded, lpc \in {"none", "done"}, closing = "no",
         NEW k \in Keys, NEW v \in Values \cup {None}, NEW e, Changes(k, e, v), Sound', lpc' = "none",
         UNCHANGED <<rec, nextId, m_recordStore, m_tableLoaded, flusher, fpc, pendingOp, data, index, closing, packing>>
  PROVE  SoundInv'
  <1>1. /\ m_entries' = IF v = None THEN m_entries \ {e} ELSE m_entries \cup {e}
        /\ QueueKind(queue') /\ Range(queue') = {o \in Range(queue) : o.key # k} \cup {Op(k, e)}
        /\ ErasesFirst(queue) => ErasesFirst(queue')
        /\ obj'[e] = Entry(k, IF e \in DOMAIN obj THEN obj[e].index ELSE 0, v)
        /\ \A d \in DOMAIN obj' \ {e} : d \in DOMAIN obj /\ obj'[d] = obj[d]
        /\ wakeThread
        /\ truth' = [truth EXCEPT ![k] = v] /\ since' = [since EXCEPT ![k] = @ \cup {v}]
    BY DEF Changes
  <1>2. /\ ~LastLookDone
        /\ e \in m_entries => e \in DOMAIN obj /\ obj[e].name = k /\ obj[e].data # None /\ truth[k] = obj[e].data
        /\ e \notin m_entries => e \notin DOMAIN obj /\ truth[k] = None /\ v # None
        /\ \A o \in Range(queue) : o.key = k /\ o.e # e =>
             e \notin m_entries /\ obj[o.e].index = 0 /\ o.e \notin ObjectsOf(pendingOp)
        /\ ~EraseQueued => \A p \in Range(pendingOp) : p.key = k /\ p.e # e =>
             obj[p.e].data = None /\ (e \in m_entries => obj[e].index = 0)
        /\ \A d \in m_entries : d # e => obj[d].name # k
    BY ChangeMeets
  <1>3. /\ QueueSays(queue) /\ QueueSays(pendingOp) /\ m_entries \subseteq DOMAIN obj /\ k # EraseAll /\ None \notin Values
        /\ \A o \in Range(queue) \cup Range(pendingOp) : o.key # EraseAll => o.e \in DOMAIN obj
        /\ QueueSays(queue')
        /\ \A o \in Range(queue') \cup Range(pendingOp) : o.key # EraseAll => o.e \in DOMAIN obj'
    <2>1. QueueSays(queue') /\ QueueSays(pendingOp')
      BY QueueSaysSo DEF Kinds, TableKinds
    <2>2. ObjectsOf(queue') \cup ObjectsOf(pendingOp') \subseteq DOMAIN obj'
      BY DEF Kinds, TableKinds
    <2>3. \A o \in Range(queue') \cup Range(pendingOp) : o.key # EraseAll => o.e \in DOMAIN obj'
      BY <2>1, <2>2 DEF QueueSays
    <2> QED BY <2>1, <2>3, OpsAreOfObjects
  <1>4. obj'[e].name = k /\ obj'[e].data = v /\ obj'[e].index = IF e \in m_entries THEN obj[e].index ELSE 0
    BY <1>1, <1>2 DEF Entry
  <1>5. /\ truth'[k] = v /\ \A j \in Keys : j # k => truth'[j] = truth[j]
        /\ v \in since'[k] /\ \A j \in Keys : since[j] \subseteq since'[j]
    BY <1>1 DEF Kinds, HistoryKinds
  <1>6. /\ Op(k, e) \in Range(queue') /\ Op(k, e).key = k /\ Op(k, e).e = e
        /\ \A o \in Range(queue') : o = Op(k, e) \/ (o.key # k /\ o \in Range(queue))
        /\ \A o \in Range(queue) : o.key # k => o \in Range(queue')
    BY <1>1 DEF Op
  <1>7. \A j : j \in KeysOf(queue') <=> j = k \/ j \in KeysOf(queue)
    BY <1>3, <1>6 DEF QueueSays
  <1>8. /\ EraseQueued' <=> EraseQueued
        /\ ErasePending' <=> ErasePending
        /\ \A j : Pending(j)' <=> Pending(j) \/ j = k
        /\ HalfAdded' <=> HalfAdded
        /\ Busy' <=> Busy
        /\ Repacking' <=> Repacking
    BY <1>3, <1>7 DEF EraseQueued, ErasePending, Pending, HalfAdded, Busy, Repacking
  <1>9. \A j : Pairs(j)' = Pairs(j) /\ Stored(j)' = Stored(j)
    BY DEF Pairs, Stored
  <1>10. /\ \A o \in Range(queue) \cup Range(pendingOp) : o.key # EraseAll => obj[o.e].name = o.key
         /\ \A d \in DOMAIN obj : obj[d].name \in Keys /\ obj[d].data \in Values \cup {None}
    BY DEF SoundInv, QueuesNamed
  <1> HIDE DEF Op
  \* The operations of other keys are of other objects.
  <1>11. /\ \A o \in Range(queue') \cup Range(pendingOp) : o.key \notin {k, EraseAll} => o.e # e /\ obj'[o.e] = obj[o.e]
         /\ \A o \in Range(pendingOp) : o.e # e /\ o.key # EraseAll => obj'[o.e] = obj[o.e]
         /\ \A o \in Range(pendingOp) : o.e = e /\ o.key # EraseAll => e \in m_entries /\ o.key = k
    <2>1. ASSUME NEW o \in Range(queue) \cup Range(pendingOp), o.key # EraseAll, o.e = e PROVE o.key = k /\ e \in m_entries
      <3>1. e \in DOMAIN obj
        BY <1>3, <2>1
      <3> QED BY <1>2, <1>10, <2>1, <3>1
    <2>2. \A o \in Range(queue') \cup Range(pendingOp) : o.key # EraseAll /\ o.e # e => obj'[o.e] = obj[o.e]
      BY <1>1, <1>3
    <2>3. \A o \in Range(queue') : o.key # k => o \in Range(queue)
      BY <1>6
    <2> QED BY <2>1, <2>2, <2>3
  <1>12. \A d \in m_entries : d # e => obj'[d] = obj[d] /\ d \in DOMAIN obj'
    <2>1. m_entries' \subseteq DOMAIN obj'
      BY DEF Kinds, TableKinds
    <2> QED BY <1>1, <2>1
  <1>13. RecordsInPairs'
    BY <1>8, RecordsStay DEF SoundInv
  <1>14. QueuesNamed'
    <2>1. ErasesFirst(queue') /\ ErasesFirst(pendingOp')
      BY <1>1 DEF SoundInv, QueuesNamed
    <2>2. ASSUME NEW o \in Range(queue') \cup Range(pendingOp), o.key # EraseAll PROVE obj'[o.e].name = o.key
      <3>1. CASE o.key # k
        BY <1>6, <1>10, <1>11, <2>2, <3>1
      <3>2. CASE o.e = e /\ o.key = k
        BY <1>4, <3>2
      <3>3. CASE o.e # e /\ o.key = k /\ o \in Range(pendingOp)
        BY <1>10, <1>11, <2>2, <3>3
      <3> QED BY <1>6, <3>1, <3>2, <3>3
    <2>3. \A d \in DOMAIN obj' : obj'[d].name \in Keys /\ obj'[d].data \in Values \cup {None}
      BY <1>1, <1>4, <1>10
    <2> QED BY <2>1, <2>2, <2>3 DEF QueuesNamed
  <1>15. TruthFollows'
    <2>1. TruthFollows
      BY DEF SoundInv
    <2>2. \A o \in Range(queue') : o.key # EraseAll => truth'[o.key] = obj'[o.e].data
      <3>1. ASSUME NEW o \in Range(queue), o.key \notin {k, EraseAll}, o \in Range(queue') PROVE truth'[o.key] = obj'[o.e].data
        <4>1. o.key \in Keys
          BY <3>1, OpsAreOfObjects DEF SoundInv
        <4> QED BY <1>5, <1>11, <2>1, <3>1, <4>1 DEF TruthFollows
      <3>2. truth'[Op(k, e).key] = obj'[Op(k, e).e].data
        BY <1>4, <1>5, <1>6
      <3> QED BY <1>6, <3>1, <3>2
    <2>3. EraseQueued' => \A j \in Keys \ KeysOf(queue') : truth'[j] = None
      BY <1>5, <1>7, <1>8, <2>1 DEF TruthFollows
    <2>4. ~EraseQueued' => \A o \in Range(pendingOp) : o.key # EraseAll /\ o.key \notin KeysOf(queue') => truth'[o.key] = obj'[o.e].data
      <3>1. ASSUME ~EraseQueued, NEW o \in Range(pendingOp), o.key # EraseAll, o.key \notin KeysOf(queue')
            PROVE  truth'[o.key] = obj'[o.e].data
        <4>1. o.key \in Keys /\ o.key # k /\ o.key \notin KeysOf(queue)
          BY <1>7, <3>1, OpsAreOfObjects DEF SoundInv
        <4> QED BY <1>5, <1>11, <2>1, <3>1, <4>1 DEF TruthFollows
      <3> QED BY <1>8, <3>1
    <2>5. ~EraseQueued' /\ ErasePending' =>
            \A j \in Keys \ (KeysOf(queue') \cup KeysOf(pendingOp)) : truth'[j] = None
      BY <1>5, <1>7, <1>8, <2>1 DEF TruthFollows
    <2>6. \A j \in Keys : ~Pending(j)' => IF truth'[j] = None THEN Pairs(j)' = {}
                                          ELSE \E i \in Pairs(j)' : rec'[i + 1] = truth'[j]
      BY <1>5, <1>8, <1>9, <2>1 DEF TruthFollows
    <2> QED BY <2>2, <2>3, <2>4, <2>5, <2>6 DEF TruthFollows
  <1>16. Owners'
    <2>1. Owners /\ TruthFollows /\ TableFollows /\ RecordsInPairs
      BY DEF SoundInv
    <2>2. ASSUME NEW d, NEW j, obj'[d] = obj[d], Owns(d, j) PROVE Owns(d, j)'
      BY <1>9, <2>2 DEF Owns
    \* An entry of the table has data, and keeps its index.
    <2>3. ASSUME e \in m_entries, Owns(e, k) PROVE Owns(e, k)'
      <3>1. obj'[e].index = obj[e].index /\ obj[e].data # None
        BY <1>2, <1>4, <2>3
      <3> QED BY <1>9, <2>3, <3>1 DEF Owns
    <2>4. ASSUME e \notin m_entries, Pairs(k) = {} PROVE Owns(e, k)'
      <3>1. obj'[e].index = 0 /\ nextId' > 0
        BY <1>4, <2>4 DEF Kinds, StoreKinds
      <3> QED BY <1>9, <2>4, <3>1 DEF Owns
    <2>5. ASSUME ~ErasePending, NEW o \in Range(pendingOp) PROVE Owns(o.e, o.key)'
      <3>1. o.key # EraseAll /\ Owns(o.e, o.key)
        BY <1>3, <2>1, <2>5 DEF Owners, ErasePending, QueueSays
      <3>2. CASE o.e = e
        BY <1>11, <2>3, <3>1, <3>2
      <3>3. CASE o.e # e
        BY <1>11, <2>2, <3>1, <3>3
      <3> QED BY <3>2, <3>3
    <2>6. ASSUME ~ErasePending, ~EraseQueued, NEW o \in Range(queue'), o.key \notin KeysOf(pendingOp)
          PROVE  Owns(o.e, o.key)'
      <3>1. CASE o # Op(k, e)
        <4>1. o \in Range(queue) /\ o.key # k /\ o.key # EraseAll
          BY <1>3, <1>6, <2>6, <3>1 DEF EraseQueued, QueueSays
        <4>2. Owns(o.e, o.key)
          BY <2>1, <2>6, <4>1 DEF Owners
        <4> QED BY <1>11, <2>2, <4>1, <4>2
      <3>2. CASE o = Op(k, e)
        <4>1. k \notin KeysOf(pendingOp)
          BY <1>6, <2>6, <3>2
        <4>2. ASSUME NEW q \in Range(queue), q.key = k PROVE Owns(e, k)'
          <5>1. Owns(q.e, k)
            BY <2>1, <2>6, <4>1, <4>2 DEF Owners
          <5>2. CASE q.e = e
            <6>1. e \in m_entries
              BY <1>2, <1>3, <4>2, <5>2
            <6> QED BY <2>3, <5>1, <5>2, <6>1
          <5>3. CASE q.e # e
            <6>1. e \notin m_entries /\ obj[q.e].index = 0
              BY <1>2, <4>2, <5>3
            <6>2. \A i \in Pairs(k) : i # 0
              BY DEF Pairs, Kinds, StoreKinds
            <6>3. Pairs(k) = {}
              BY <5>1, <6>1, <6>2 DEF Owns
            <6> QED BY <2>4, <6>1, <6>3
          <5> QED BY <5>2, <5>3
        <4>3. ASSUME k \notin KeysOf(queue) PROVE Owns(e, k)'
          <5>1. ~Pending(k)
            BY <2>6, <4>1, <4>3 DEF Pending, EraseQueued, ErasePending
          <5>2. CASE e \in m_entries
            <6>1. obj[e].index \in Pairs(k)
              BY <1>2, <2>1, <5>1, <5>2 DEF TableFollows
            <6>2. Pairs(k) = {obj[e].index}
              BY <2>1, <6>1, PairOf
            <6>3. obj[e].index < nextId
              BY <6>1 DEF Pairs, Kinds, StoreKinds
            <6>4. Owns(e, k)
              BY <6>1, <6>2, <6>3 DEF Owns
            <6> QED BY <2>3, <5>2, <6>4
          <5>3. CASE e \notin m_entries
            BY <1>2, <2>1, <2>4, <5>1, <5>3 DEF TruthFollows
          <5> QED BY <5>2, <5>3
        <4> QED BY <1>3, <1>6, <3>2, <4>2, <4>3 DEF QueueSays
      <3> QED BY <3>1, <3>2
    <2>7. ASSUME ~EraseQueued, NEW p \in Range(pendingOp), NEW o \in Range(queue'), p.key = o.key, p.e # o.e
          PROVE  obj'[p.e].data = None /\ obj'[o.e].index = 0
      <3>1. o.key # EraseAll
        BY <1>3, <1>8, <2>7 DEF EraseQueued, QueueSays
      <3>2. CASE o # Op(k, e)
        <4>1. o \in Range(queue) /\ o.key # k
          BY <1>6, <3>2
        <4> QED BY <1>11, <2>1, <2>7, <3>1, <4>1 DEF Owners
      <3>3. CASE o = Op(k, e)
        <4>1. p.key = k /\ p.e # e /\ o.e = e
          BY <1>6, <2>7, <3>3
        <4>2. obj[p.e].data = None /\ (e \in m_entries => obj[e].index = 0)
          BY <1>2, <2>7, <4>1
        <4> QED BY <1>3, <1>4, <1>11, <4>1, <4>2
      <3> QED BY <3>2, <3>3
    <2> QED BY <1>8, <2>5, <2>6, <2>7 DEF Owners
  <1>17. Erasing'
    <2>1. Erasing
      BY DEF SoundInv
    <2>2. ASSUME EraseQueued, NEW d \in m_entries' \cup ObjectsOf(queue')
          PROVE  obj'[d].index = 0 /\ d \notin ObjectsOf(pendingOp)
      <3>1. CASE d # e
        <4>1. d \in m_entries \/ \E o \in Range(queue) : o.e = d /\ o \in Range(queue') /\ o.e # 0
          BY <1>1, <1>3, <1>6, <2>2, <3>1 DEF QueueSays
        <4>2. d \in m_entries \/ d \in ObjectsOf(queue)
          BY <1>3, <4>1 DEF QueueSays
        <4>3. d \in DOMAIN obj'
          BY <2>2 DEF Kinds, TableKinds
        <4> QED BY <1>1, <2>1, <2>2, <3>1, <4>2, <4>3 DEF Erasing
      <3>2. CASE d = e /\ e \in m_entries
        BY <1>4, <2>1, <2>2, <3>2 DEF Erasing
      <3>3. CASE d = e /\ e \notin m_entries
        BY <1>2, <1>4, <3>3 DEF Kinds, TableKinds
      <3> QED BY <3>1, <3>2, <3>3
    <2>3. ASSUME ErasePending PROVE fpc' \in {"op", "erase"} /\ \A d \in DOMAIN obj' : obj'[d].index = 0
      BY <1>1, <1>3, <1>4, <2>1, <2>3 DEF Erasing
    <2> QED BY <1>8, <2>2, <2>3 DEF Erasing
  <1>18. Writing'
    <2> SUFFICES ASSUME Busy PROVE Writing'
      BY <1>8 DEF Writing
    <2> DEFINE h == Head(pendingOp)
    <2>1. h \in Range(pendingOp) /\ h.key # EraseAll
      BY HeadIs DEF Kinds, FlushKinds, Busy
    <2>2. Writing /\ TruthFollows /\ Owners
      BY DEF SoundInv
    <2> HIDE DEF h
    <2>3. obj'[h.e].index = obj[h.e].index
      BY <1>4, <1>11, <2>1
    <2>4. data = None => obj'[h.e].data = None
      <3>1. data = None => obj[h.e].data = None
        BY <2>2 DEF Writing, h
      <3>2. h.e = e => obj[h.e].data # None
        BY <1>2, <1>11, <2>1
      <3> QED BY <1>11, <2>1, <3>1, <3>2
    <2>5. h.key \notin KeysOf(queue') /\ ~EraseQueued' => data = obj'[h.e].data
      <3>1. h.key \notin KeysOf(queue) /\ ~EraseQueued => data = obj[h.e].data
        BY <2>2 DEF Writing, h
      <3> QED BY <1>7, <1>8, <1>11, <2>1, <3>1
    <2>6. ASSUME ~EraseQueued, NEW o \in Range(queue'), o.key = h.key, o.e # h.e PROVE data = None
      <3>1. \A q \in Range(queue) : q.key = h.key /\ q.e # h.e => data = None
        BY <2>2, <2>6 DEF Writing, h
      <3>2. CASE o # Op(k, e)
        BY <1>6, <2>6, <3>1, <3>2
      <3>3. CASE o = Op(k, e)
        <4>1. h.key = k /\ h.e # e
          BY <1>6, <2>6, <3>3
        <4>2. CASE k \notin KeysOf(queue)
          <5>1. data = obj[h.e].data
            BY <2>2, <2>6, <4>1, <4>2 DEF Writing, h
          <5> QED BY <1>2, <2>1, <2>6, <4>1, <5>1
        <4>3. ASSUME NEW q \in Range(queue), q.key = k PROVE data = None
          <5>1. h.e \in ObjectsOf(pendingOp)
            BY <1>3, <2>1 DEF QueueSays
          <5>2. q.e # h.e
            BY <1>2, <4>1, <4>3, <5>1
          <5> QED BY <3>1, <4>1, <4>3, <5>2
        <4> QED BY <1>3, <4>2, <4>3 DEF QueueSays
      <3> QED BY <3>2, <3>3
    <2>7. \A j : Pairs(j)' = Pairs(j)
      BY <1>9
    <2>8. /\ m_recordStore /\ data \in Values \cup {None}
          /\ fpc = "write" => index = obj[h.e].index /\ (data # None /\ index > 0 => index \in Pairs(h.key))
          /\ fpc = "data" => Pairs(h.key) = {} /\ index > 0 /\ Odd(index)
          /\ fpc = "data" /\ data = None => obj[h.e].index = index /\ index \notin DOMAIN rec /\ index < nextId
          /\ fpc = "data" /\ data # None =>
               obj[h.e].index = 0 /\ index = nextId - 1 /\ index \in DOMAIN rec /\ rec[index] = h.key
      BY <2>2 DEF Writing, h
    <2>9. h' = h
      BY DEF h
    <2> QED BY <1>8, <2>3, <2>4, <2>5, <2>6, <2>7, <2>8, <2>9 DEF Writing, h
  <1>19. TableFollows'
    <2>1. TableFollows
      BY DEF SoundInv
    <2>2. \A d \in m_entries' : d = e \/ (d \in m_entries /\ d # e /\ obj'[d] = obj[d] /\ obj[d].name # k)
      BY <1>1, <1>2, <1>12
    <2>3. e \in m_entries' <=> v # None
      BY <1>1
    <2>4. ASSUME NEW c \in m_entries', NEW d \in m_entries', obj'[c].name = obj'[d].name PROVE c = d
      BY <1>4, <2>1, <2>2, <2>4 DEF TableFollows
    <2>5. ASSUME NEW d \in m_entries' PROVE obj'[d].data # None /\ truth'[obj'[d].name] = obj'[d].data
      <3>1. CASE d = e
        BY <1>4, <1>5, <2>3, <2>5, <3>1
      <3>2. CASE d # e
        <4>1. d \in m_entries /\ obj'[d] = obj[d] /\ obj[d].name # k /\ obj[d].name \in Keys
          BY <1>3, <1>10, <2>2, <2>5, <3>2
        <4> QED BY <1>5, <2>1, <4>1 DEF TableFollows
      <3> QED BY <3>1, <3>2
    <2>6. ASSUME NEW j \in Keys, truth'[j] # None PROVE findEntry(j)' # {}
      <3>1. CASE j = k
        BY <1>4, <1>5, <2>3, <2>6, <3>1 DEF findEntry
      <3>2. CASE j # k
        <4>1. PICK d \in m_entries : obj[d].name = j
          BY <1>5, <2>1, <2>6, <3>2 DEF TableFollows, findEntry
        <4>2. d # e
          BY <1>2, <3>2, <4>1
        <4>3. d \in m_entries' /\ obj'[d].name = j
          BY <1>1, <1>12, <4>1, <4>2
        <4> QED BY <4>3 DEF findEntry
      <3> QED BY <3>1, <3>2
    <2>7. ASSUME NEW o \in Range(queue'), o.key # EraseAll, obj'[o.e].data # None PROVE o.e \in m_entries'
      <3>1. CASE o = Op(k, e)
        BY <1>4, <1>6, <2>3, <2>7, <3>1
      <3>2. CASE o # Op(k, e)
        <4>1. o \in Range(queue) /\ o.key # k /\ o.e # e /\ obj'[o.e] = obj[o.e]
          BY <1>6, <1>11, <2>7, <3>2
        <4>2. o.e \in m_entries
          BY <2>1, <2>7, <4>1 DEF TableFollows
        <4> QED BY <1>1, <4>1, <4>2
      <3> QED BY <3>1, <3>2
    <2>8. ASSUME ~EraseQueued, NEW o \in Range(pendingOp), o.key # EraseAll, o.key \notin KeysOf(queue'),
                 obj'[o.e].data # None
          PROVE  o.e \in m_entries'
      <3>1. o.key # k /\ o.key \notin KeysOf(queue) /\ o.e # e /\ obj'[o.e] = obj[o.e]
        BY <1>7, <1>11, <2>8
      <3>2. o.e \in m_entries
        BY <2>1, <2>8, <3>1 DEF TableFollows
      <3> QED BY <1>1, <3>1, <3>2
    <2>9. ASSUME NEW d \in m_entries', NEW j, j = obj'[d].name, ~Pending(j)' PROVE obj'[d].index \in Pairs(j)'
      <3>1. j # k /\ ~Pending(j)
        BY <1>8, <2>9
      <3>2. d \in m_entries /\ obj'[d] = obj[d]
        BY <1>4, <2>2, <2>9, <3>1
      <3>3. obj[d].name = j
        BY <2>9, <3>2
      <3>4. obj[d].index \in Pairs(j)
        BY <2>1, <3>1, <3>2, <3>3 DEF TableFollows
      <3> QED BY <1>9, <3>2, <3>4
    <2> QED BY <1>8, <2>4, <2>5, <2>6, <2>7, <2>8, <2>9 DEF TableFollows
  <1>20. Unloaded' /\ Reading'
    BY DEF Unloaded, Reading
  <1>21. Looking'
    BY <1>1, <1>2 DEF SoundInv, Looking, LastLookDone, wakeThread
  <1>22. SavedValues'
    <2>1. SavedValues
      BY DEF SoundInv
    <2>2. \A j \in Keys : Stored(j)' \in since'[j] \/ (Repacking' /\ j \in KeysOf(pendingOp) /\ Pairs(j)' = {})
      BY <1>5, <1>8, <1>9, <2>1 DEF SavedValues
    <2>3. ASSUME NEW o \in Range(queue') \cup Range(pendingOp), o.key # EraseAll PROVE obj'[o.e].data \in since'[o.key]
      <3>1. CASE o.e = e /\ o.key = k
        BY <1>4, <1>5, <3>1
      <3>2. CASE o.e # e \/ o.key # k
        <4>1. o \in Range(queue) \cup Range(pendingOp) /\ obj'[o.e] = obj[o.e]
          BY <1>6, <1>11, <2>3, <3>2
        <4>2. o.key \in Keys
          BY <2>3, <4>1, OpsAreOfObjects DEF SoundInv
        <4>3. obj[o.e].data \in since[o.key]
          BY <2>1, <2>3, <4>1 DEF SavedValues
        <4> QED BY <1>5, <4>1, <4>2, <4>3
      <3> QED BY <3>1, <3>2
    <2>4. Busy => data \in since'[Head(pendingOp).key]
      <3>1. ASSUME Busy PROVE Head(pendingOp) \in Range(pendingOp) /\ Head(pendingOp).key # EraseAll
        BY <3>1, HeadIs DEF Kinds, FlushKinds, Busy
      <3>2. ASSUME Busy PROVE Head(pendingOp).key \in Keys
        BY <3>1, <3>2, OpsAreOfObjects DEF SoundInv
      <3> QED BY <1>5, <2>1, <3>2 DEF SavedValues
    <2>5. EraseQueued => \A j \in Keys :
            None \in since'[j] \/ (packing' /\ j \in KeysOf(queue') /\ pendingOp' = <<>>)
      BY <1>5, <1>7, <2>1 DEF SavedValues
    <2>6. ErasePending => \A j \in Keys : None \in since'[j] \/ (packing' /\ j \in KeysOf(pendingOp') /\ ~EraseQueued)
      BY <1>5, <2>1 DEF SavedValues
    <2> QED BY <1>8, <2>2, <2>3, <2>4, <2>5, <2>6 DEF SavedValues
  <1> QED BY <1>13, <1>14, <1>15, <1>16, <1>17, <1>18, <1>19, <1>20, <1>21, <1>22 DEF SoundInv

LEMMA EraseIsSound ==
  ASSUME Kinds, SoundInv, erase, Sound'
  PROVE  SoundInv'
  <1>1. /\ MonitorFree /\ closing = "no" /\ m_entries' = {} /\ queue' = addAsyncOperation(<<>>, EraseAll, 0)
        /\ obj' = Kept(obj, {}, <<>>, pendingOp) /\ wakeThread
        /\ truth' = [j \in Keys |-> None] /\ since' = [j \in Keys |-> since[j] \cup {None}]
        /\ packing' = (packing /\ ~EraseQueued) /\ ~LastLookDone
        /\ UNCHANGED <<rec, nextId, m_recordStore, m_tableLoaded, call, lpc, flusher, fpc, pendingOp,
                       data, index, closing>>
    BY DEF erase, disk, loader, flush, EraseQueued, Sound, LateFault
  <1>2. QueueKind(queue') /\ Range(queue') = {Op(EraseAll, 0)} /\ ErasesFirst(queue')
    <2>1. Op(EraseAll, 0) \in OpKind /\ (0 = 0 <=> EraseAll = EraseAll)
      BY DEF Op, OpKind
    <2> QED BY <1>1, <2>1, EmptyQueue, QueueAdds
  <1>3. /\ KeysOf(queue') = {EraseAll} /\ ObjectsOf(queue') = {}
        /\ \A o \in Range(queue') : o.key = EraseAll
        /\ QueueSays(pendingOp)
    <2>1. Op(EraseAll, 0).key = EraseAll /\ Op(EraseAll, 0).e = 0
      BY DEF Op
    <2>2. \A o \in Range(queue') : o.key = EraseAll /\ o.e = 0
      BY <1>2, <2>1
    <2>3. KeysOf(queue') = {o.key : o \in Range(queue')} /\ ObjectsOf(queue') = {o.e : o \in Range(queue')} \ {0}
      BY <1>2, QueueIs
    <2> QED BY <1>2, <2>1, <2>2, <2>3, OpsAreOfObjects
  <1>4. /\ DOMAIN obj' = ObjectsOf(pendingOp) /\ DOMAIN obj' \subseteq DOMAIN obj
        /\ \A e \in DOMAIN obj' : obj'[e] = obj[e]
    BY <1>1, EmptyQueue DEF Kept, Kinds, TableKinds
  <1>5. \A o \in Range(pendingOp) : o.key # EraseAll => obj'[o.e] = obj[o.e]
    BY <1>3, <1>4 DEF QueueSays
  <1>6. /\ EraseQueued' /\ \A j : Pending(j)'
        /\ ErasePending' <=> ErasePending
        /\ HalfAdded' <=> HalfAdded
        /\ Busy' <=> Busy
    BY <1>1, <1>3 DEF EraseQueued, ErasePending, Pending, HalfAdded, Busy
  <1>7. \A j : Pairs(j)' = Pairs(j) /\ Stored(j)' = Stored(j)
    BY <1>1 DEF Pairs, Stored
  <1>8. lpc = "none"
    BY <1>1 DEF MonitorFree, Kinds, LoadKinds
  <1>9. RecordsInPairs'
    BY <1>1, <1>6, RecordsStay DEF SoundInv
  <1>10. QueuesNamed'
    BY <1>1, <1>2, <1>3, <1>4, <1>5 DEF SoundInv, QueuesNamed
  <1>11. TruthFollows'
    BY <1>1, <1>3, <1>6 DEF TruthFollows
  <1>12. Owners'
    <2>1. ASSUME ~ErasePending, NEW o \in Range(pendingOp) PROVE Owns(o.e, o.key)'
      <3>1. o.key # EraseAll /\ Owns(o.e, o.key)
        BY <1>3, <2>1 DEF SoundInv, Owners, ErasePending, QueueSays
      <3> QED BY <1>1, <1>5, <1>7, <3>1 DEF Owns
    <2> QED BY <1>1, <1>6, <2>1 DEF Owners
  <1>13. Erasing'
    BY <1>1, <1>3, <1>4, <1>6 DEF SoundInv, Erasing
  <1>14. Writing'
    <2> SUFFICES ASSUME Busy PROVE Writing'
      BY <1>6 DEF Writing
    <2> DEFINE h == Head(pendingOp)
    <2>1. h \in Range(pendingOp) /\ h.key # EraseAll /\ h' = h
      BY <1>1, HeadIs DEF Kinds, FlushKinds, Busy
    <2>2. obj'[h.e] = obj[h.e]
      BY <1>5, <2>1
    <2>3. /\ m_recordStore /\ data \in Values \cup {None}
          /\ data = None => obj[h.e].data = None
          /\ fpc = "write" => index = obj[h.e].index /\ (data # None /\ index > 0 => index \in Pairs(h.key))
          /\ fpc = "data" => Pairs(h.key) = {} /\ index > 0 /\ Odd(index)
          /\ fpc = "data" /\ data = None => obj[h.e].index = index /\ index \notin DOMAIN rec /\ index < nextId
          /\ fpc = "data" /\ data # None =>
               obj[h.e].index = 0 /\ index = nextId - 1 /\ index \in DOMAIN rec /\ rec[index] = h.key
      BY DEF SoundInv, Writing
    <2> HIDE DEF h
    <2> QED BY <1>1, <1>6, <1>7, <2>1, <2>2, <2>3 DEF Writing, h
  <1>15. TableFollows' /\ Unloaded' /\ Reading'
    <2>1. TableFollows'
      BY <1>1, <1>3, <1>6 DEF TableFollows
    <2>2. Unloaded'
      BY <1>1, <1>3, <1>8 DEF SoundInv, Unloaded
    <2> QED BY <1>1, <1>8, <2>1, <2>2 DEF Reading
  <1>16. Looking'
    BY <1>1 DEF SoundInv, Looking, LastLookDone, wakeThread
  <1>17. SavedValues'
    <2>1. SavedValues
      BY DEF SoundInv
    <2>2. \A j \in Keys : None \in since'[j] /\ since[j] \subseteq since'[j]
      BY <1>1
    <2>3. ASSUME NEW j \in Keys PROVE Stored(j)' \in since'[j]
      <3>1. CASE Stored(j) \in since[j]
        BY <1>7, <2>2, <3>1
      <3>2. CASE Pairs(j) = {}
        BY <1>7, <2>2, <3>2, StoredIs
      <3> QED BY <2>1, <3>1, <3>2 DEF SavedValues
    <2>4. ASSUME NEW o \in Range(pendingOp), o.key # EraseAll PROVE obj'[o.e].data \in since'[o.key]
      <3>1. o.key \in Keys
        BY <2>4, OpsAreOfObjects DEF SoundInv
      <3> QED BY <1>5, <2>1, <2>2, <2>4, <3>1 DEF SavedValues
    <2>5. Busy => data \in since'[Head(pendingOp).key]
      <3>1. ASSUME Busy PROVE Head(pendingOp) \in Range(pendingOp) /\ Head(pendingOp).key # EraseAll
        BY <3>1, HeadIs DEF Kinds, FlushKinds, Busy
      <3>2. ASSUME Busy PROVE Head(pendingOp).key \in Keys
        BY <3>1, <3>2, OpsAreOfObjects DEF SoundInv
      <3> QED BY <2>1, <2>2, <3>2 DEF SavedValues
    <2> QED BY <1>1, <1>3, <1>6, <2>2, <2>3, <2>4, <2>5 DEF SavedValues
  <1> QED BY <1>9, <1>10, <1>11, <1>12, <1>13, <1>14, <1>15, <1>16, <1>17 DEF SoundInv

LEMMA CallsAreSound ==
  ASSUME Kinds, Kinds', SoundInv, Invoke \/ Resume, Sound'
  PROVE  SoundInv'
  <1>1. CASE Invoke
    <2>1. MonitorFree /\ closing = "no" /\ lpc = "none"
      BY <1>1 DEF Invoke, MonitorFree, Kinds, LoadKinds
    <2>2. CASE m_tableLoaded
      <3>1. PICK c \in Requests : Perform(c) /\ UNCHANGED loader
        BY <1>1, <2>2 DEF Invoke
      <3>2. /\ UNCHANGED Unchanged \/ \E k \in Keys, v \in Values \cup {None} : \E e : Changes(k, e, v)
            /\ UNCHANGED <<rec, nextId, m_recordStore, m_tableLoaded, flusher, fpc, pendingOp, data, index,
                           m_quit, closing, restarts, packing>>
        BY <3>1, PerformIs DEF Kinds
      <3>3. CASE UNCHANGED Unchanged
        <4>1. UNCHANGED Contents /\ UNCHANGED <<worker, flusher, queue, closing, call>>
          BY <3>1, <3>2, <3>3 DEF Contents, Unchanged, loader
        <4> QED BY <4>1, ContentsStay, LookingStays DEF SoundInv
      <3>4. ASSUME NEW k \in Keys, NEW v \in Values \cup {None}, NEW e, Changes(k, e, v) PROVE SoundInv'
        <4>1. lpc \in {"none", "done"} /\ lpc' = "none"
          BY <2>1, <3>1 DEF loader
        <4> QED BY <2>1, <2>2, <3>2, <3>4, <4>1, ChangesAreSound
      <3> QED BY <3>2, <3>3, <3>4
    <2>3. CASE ~m_tableLoaded
      <3>1. /\ lpc' = "open" /\ EraseAll \notin KeysOf(queue) \cup KeysOf(pendingOp)
            /\ UNCHANGED <<rec, nextId, m_tableLoaded, obj, m_entries, queue, pendingOp, flusher, fpc, data,
                           worker, closing, truth, since, packing>>
        BY <1>1, <2>3 DEF Invoke, Sound, disk, table, flush, thread
      <3> QED BY <2>1, <2>3, <3>1, LoadBeginIsSound
    <2> QED BY <2>2, <2>3
  <1>2. CASE Resume
    <2>1. /\ lpc = "done" /\ call \in Requests /\ Perform(call) /\ call' = NoCall /\ lpc' = "none"
          /\ UNCHANGED <<recordId, maxRecordId>>
      BY <1>2 DEF Resume, Kinds, LoadKinds, NoCall
    <2>2. m_tableLoaded /\ closing = "no"
      BY <2>1 DEF SoundInv, Unloaded, Looking, MonitorFree, Kinds, LoadKinds, ThreadKinds
    <2>3. /\ UNCHANGED Unchanged \/ \E k \in Keys, v \in Values \cup {None} : \E e : Changes(k, e, v)
          /\ UNCHANGED <<rec, nextId, m_recordStore, m_tableLoaded, flusher, fpc, pendingOp, data, index,
                         m_quit, closing, restarts, packing>>
      BY <2>1, PerformIs DEF Kinds
    <2>4. CASE UNCHANGED Unchanged
      <3>1. /\ UNCHANGED <<rec, nextId, m_recordStore, m_tableLoaded, flusher, fpc, pendingOp, data, index,
                           closing, packing, obj, m_entries, queue, worker, truth, since>>
        BY <2>3, <2>4 DEF Unchanged
      <3>2. HalfAdded' <=> HalfAdded
        BY <3>1 DEF HalfAdded
      <3>3. /\ ErasePending => fpc' \in {"op", "erase"}
            /\ Busy => m_recordStore'
            /\ Busy' => data' \in since[Head(pendingOp).key]
            /\ lpc \in {"none", "done"} <=> lpc' \in {"none", "done"}
        BY <2>1, <3>1 DEF SoundInv, Erasing, Writing, SavedValues, Busy
      <3>4. RecordsInPairs' /\ QueuesNamed' /\ TruthFollows' /\ Owners'
        BY <3>1, <3>2, RecordsStay, NamesStay, TruthStays, OwnersStay DEF SoundInv
      <3>5. Erasing' /\ Writing' /\ TableFollows' /\ SavedValues'
        BY <3>1, <3>3, ErasingStays, WritingStays, TableStays, SavedStays DEF SoundInv
      <3>6. Unloaded' /\ Reading'
        BY <2>1, <2>2, <3>1 DEF Unloaded, Reading
      <3>7. Looking'
        BY <2>1, <2>2, <3>1 DEF SoundInv, Looking, LastLookDone
      <3> QED BY <3>4, <3>5, <3>6, <3>7 DEF SoundInv
    <2>5. ASSUME NEW k \in Keys, NEW v \in Values \cup {None}, NEW e, Changes(k, e, v) PROVE SoundInv'
      <3>1. lpc \in {"none", "done"}
        BY <2>1
      <3> QED BY <2>1, <2>2, <2>3, <2>5, <3>1, ChangesAreSound
    <2> QED BY <2>3, <2>4, <2>5
  <1> QED BY <1>1, <1>2

-----------------------------------------------------------------------------
(* The flush.                                                              *)

\* The operation in hand.
LEMMA InHand ==
  ASSUME Kinds, SoundInv, pendingOp # <<>>
  PROVE  LET h == Head(pendingOp) IN
         /\ h \in Range(pendingOp) /\ h.key \in KeysOf(pendingOp) /\ lpc = "none"
         /\ h.key = EraseAll <=> ErasePending
         /\ h.key # EraseAll =>
              /\ ~ErasePending /\ m_tableLoaded /\ h.key \in Keys /\ h.e \in DOMAIN obj /\ h.e \in ObjectsOf(pendingOp)
              /\ obj[h.e].name = h.key /\ \A o \in Range(pendingOp) : o # h => o.key # h.key
  <1> DEFINE h == Head(pendingOp)
  <1>1. h \in Range(pendingOp) /\ h.key \in KeysOf(pendingOp)
    BY HeadIs
  <1>2. lpc = "none"
    BY DEF SoundInv, Unloaded, Kinds, LoadKinds
  <1>3. ErasePending => h.key = EraseAll
    BY QueueMoves DEF ErasePending, SoundInv, QueuesNamed, Kinds, TableKinds
  <1>4. h.key = EraseAll => ErasePending
    BY <1>1 DEF ErasePending
  <1>5. h.key # EraseAll =>
          /\ m_tableLoaded /\ h.key \in Keys /\ h.e \in DOMAIN obj /\ h.e \in ObjectsOf(pendingOp)
          /\ obj[h.e].name = h.key /\ \A o \in Range(pendingOp) : o # h => o.key # h.key
    <2> HIDE DEF h
    <2>1. h.key # EraseAll => h.key \in Keys /\ h.e \in DOMAIN obj
      BY <1>1, OpsAreOfObjects DEF SoundInv
    <2>4. /\ h.key # EraseAll => h.e \in ObjectsOf(pendingOp)
          /\ \A o \in Range(pendingOp) : o # h => o.key # h.key
      <3>1. QueueSays(pendingOp)
        BY OpsAreOfObjects
      <3> QED BY <1>1, <3>1 DEF QueueSays
    <2>2. h.key # EraseAll => m_tableLoaded
      BY <1>1 DEF SoundInv, Unloaded
    <2>3. h.key # EraseAll => obj[h.e].name = h.key
      BY <1>1 DEF SoundInv, QueuesNamed
    <2> QED BY <2>1, <2>2, <2>3, <2>4
  <1> QED BY <1>1, <1>2, <1>3, <1>4, <1>5

LEMMA FlushOpIsSound ==
  ASSUME Kinds, SoundInv, FlushOp
  PROVE  SoundInv'
  <1> DEFINE h == Head(pendingOp)
  <1>1. /\ fpc = "op" /\ pendingOp # <<>> /\ fpc' = IF h.key = EraseAll THEN "erase" ELSE "open"
        /\ UNCHANGED <<rec, nextId, obj, m_entries, m_tableLoaded, queue, call, lpc, recordId, maxRecordId,
                       flusher, pendingOp, data, index, worker, closing, truth, since, packing>>
    BY DEF FlushOp, disk, table, loader, thread
  <1>2. lpc = "none" /\ (h.key = EraseAll <=> ErasePending)
    BY <1>1, InHand
  <1> HIDE DEF h
  <1>3. ~HalfAdded /\ ~HalfAdded' /\ ~Busy'
    BY <1>1 DEF HalfAdded, Busy
  <1>4. RecordsInPairs'
    BY <1>1, <1>3, RecordsStay DEF SoundInv
  <1>5. QueuesNamed' /\ TruthFollows' /\ Owners'
    BY <1>1, NamesStay, TruthStays, OwnersStay DEF SoundInv
  <1>6. Erasing'
    BY <1>1, <1>2, ErasingStays DEF SoundInv
  <1>7. Writing'
    BY <1>3 DEF Writing
  <1>8. TableFollows' /\ Unloaded'
    BY <1>1, TableStays, UnloadedStays DEF SoundInv
  <1>9. Reading' /\ Looking'
    BY <1>1, <1>2, LookingStays DEF Reading, SoundInv
  <1>10. SavedValues'
    BY <1>1, <1>3, SavedStays DEF SoundInv
  <1> QED BY <1>4, <1>5, <1>6, <1>7, <1>8, <1>9, <1>10 DEF SoundInv

\* The fields are read under the monitor: they are those of the last call.
LEMMA FlushFieldsIsSound ==
  ASSUME Kinds, SoundInv, Opened, FlushFields
  PROVE  SoundInv'
  <1> DEFINE h == Head(pendingOp)
  <1>1. /\ fpc = "open" /\ pendingOp # <<>> /\ fpc' = "write"
        /\ h.key # EraseAll /\ data' = obj[h.e].data /\ index' = obj[h.e].index
        /\ UNCHANGED <<rec, nextId, m_recordStore, obj, m_entries, m_tableLoaded, queue, call, lpc, recordId,
                       maxRecordId, flusher, pendingOp, worker, closing, truth, since, packing>>
    BY DEF FlushFields, disk, table, loader, thread, history, Kinds, FlushKinds
  <1>2. /\ h \in Range(pendingOp) /\ lpc = "none" /\ ~ErasePending /\ h.key \in Keys /\ h.e \in DOMAIN obj
    BY <1>1, InHand
  <1> HIDE DEF h
  <1>3. ~HalfAdded /\ ~HalfAdded'
    BY <1>1 DEF HalfAdded
  <1>4. RecordsInPairs'
    BY <1>1, <1>3, RecordsStay DEF SoundInv
  <1>5. QueuesNamed' /\ TruthFollows' /\ Owners'
    BY <1>1, NamesStay, TruthStays, OwnersStay DEF SoundInv
  <1>6. Erasing'
    BY <1>1, <1>2, ErasingStays DEF SoundInv
  <1>7. Writing'
    <2>1. m_recordStore' /\ h' = h
      BY <1>1 DEF Opened, h
    <2>2. obj[h.e].data \in Values \cup {None}
      BY <1>2 DEF SoundInv, QueuesNamed
    <2>3. Owns(h.e, h.key)
      BY <1>2 DEF SoundInv, Owners
    <2>4. ~EraseQueued => \A o \in Range(queue) : o.key = h.key /\ o.e # h.e => obj[h.e].data = None
      BY <1>2 DEF SoundInv, Owners
    <2>5. (EraseQueued' <=> EraseQueued) /\ \A j : Pairs(j)' = Pairs(j)
      BY <1>1 DEF EraseQueued, Pairs
    <2> QED BY <1>1, <2>1, <2>2, <2>3, <2>4, <2>5 DEF Writing, Owns, h
  <1>8. TableFollows' /\ Unloaded'
    BY <1>1, TableStays, UnloadedStays DEF SoundInv
  <1>9. Reading' /\ Looking'
    BY <1>1, <1>2, LookingStays DEF Reading, SoundInv
  <1>10. SavedValues'
    <2>1. data' \in since[h.key]
      BY <1>1, <1>2 DEF SoundInv, SavedValues
    <2> QED BY <1>1, <2>1, SavedStays DEF SoundInv, h
  <1> QED BY <1>4, <1>5, <1>6, <1>7, <1>8, <1>9, <1>10 DEF SoundInv

\* The store is erased: what was to be erased has no value.
LEMMA FlushEraseIsSound ==
  ASSUME Kinds, Kinds', SoundInv, FlushErase, Sound'
  PROVE  SoundInv'
  <1> DEFINE h == Head(pendingOp)
  <1>1. /\ fpc = "erase" /\ rec' = <<>> /\ nextId' = 1 /\ NextOp(obj) /\ fpc' = "op"
        /\ pendingOp # <<>> /\ h.key = EraseAll
        /\ UNCHANGED <<m_entries, m_tableLoaded, queue, call, lpc, flusher, worker, closing, truth, since, packing>>
    BY DEF FlushErase, Sound, NextOp, loader, thread, Kinds, FlushKinds
  <1>2. /\ TableKinds' /\ DOMAIN obj' \subseteq DOMAIN obj /\ \A e \in DOMAIN obj' : obj'[e] = obj[e]
        /\ Range(pendingOp') = Range(pendingOp) \ {h} /\ h \in Range(pendingOp)
    BY <1>1, OperationDone DEF Kinds, TableKinds
  <1>3. ErasePending /\ lpc = "none"
    BY <1>1, InHand
  <1>4. /\ QueueSays(queue) /\ QueueSays(pendingOp) /\ QueueSays(pendingOp')
        /\ \A o \in Range(queue) \cup Range(pendingOp') : o.key # EraseAll => o.e \in DOMAIN obj'
        /\ EraseAll \notin Keys
    <2>1. QueueSays(pendingOp') /\ ObjectsOf(queue') \cup ObjectsOf(pendingOp') \subseteq DOMAIN obj' /\ queue' = queue
      BY <1>1, <1>2, QueueSaysSo DEF TableKinds
    <2>2. \A o \in Range(queue) \cup Range(pendingOp') : o.key # EraseAll => o.e \in DOMAIN obj'
      BY <2>1, OpsAreOfObjects DEF QueueSays
    <2> QED BY <2>1, <2>2, OpsAreOfObjects
  <1>5. \A j : j \in KeysOf(pendingOp') <=> j \in KeysOf(pendingOp) /\ j # EraseAll
    BY <1>1, <1>2, <1>4 DEF QueueSays
  <1>6. /\ ~ErasePending' /\ (EraseQueued' <=> EraseQueued) /\ ~Busy' /\ ~HalfAdded'
        /\ \A j : j # EraseAll => (Pending(j)' <=> Pending(j) /\ (EraseQueued \/ j \in KeysOf(queue) \cup KeysOf(pendingOp)))
    BY <1>1, <1>4, <1>5 DEF ErasePending, EraseQueued, Busy, HalfAdded, Pending
  <1> HIDE DEF h
  <1>7. \A j : Pairs(j)' = {} /\ Stored(j)' = None
    <2>1. DOMAIN rec' = {}
      BY <1>1, EmptySeq
    <2> QED BY <2>1 DEF Pairs, Stored
  <1>8. \A e \in DOMAIN obj : obj[e].index = 0
    BY <1>3 DEF SoundInv, Erasing
  <1>9. \A o \in Range(queue) \cup Range(pendingOp') : o.key # EraseAll => obj'[o.e] = obj[o.e] /\ obj'[o.e].index = 0
    BY <1>2, <1>4, <1>8
  <1>10. RecordsInPairs'
    <2>1. DOMAIN rec' = {}
      BY <1>1, EmptySeq
    <2>2. Odd(1)
      BY Odds
    <2> QED BY <1>1, <1>6, <1>7, <2>1, <2>2 DEF RecordsInPairs
  <1>11. QueuesNamed'
    <2>1. ErasesFirst(queue')
      BY <1>1 DEF SoundInv, QueuesNamed
    <2>2. ErasesFirst(pendingOp')
      BY <1>5 DEF ErasesFirst, KeysOf
    <2>3. \A o \in Range(queue) \cup Range(pendingOp') : o.key # EraseAll => obj'[o.e].name = o.key
      BY <1>2, <1>9 DEF SoundInv, QueuesNamed
    <2>4. \A e \in DOMAIN obj' : obj'[e].name \in Keys /\ obj'[e].data \in Values \cup {None}
      BY <1>2 DEF SoundInv, QueuesNamed
    <2> QED BY <1>1, <2>1, <2>2, <2>3, <2>4 DEF QueuesNamed
  <1>12. TruthFollows'
    <2>1. TruthFollows
      BY DEF SoundInv
    <2>2. \A o \in Range(queue) : o.key # EraseAll => truth[o.key] = obj'[o.e].data
      BY <1>9, <2>1 DEF TruthFollows
    <2>3. EraseQueued => \A j \in Keys \ KeysOf(queue) : truth[j] = None
      BY <2>1 DEF TruthFollows
    <2>4. ~EraseQueued => \A o \in Range(pendingOp') : o.key # EraseAll /\ o.key \notin KeysOf(queue) => truth[o.key] = obj'[o.e].data
      BY <1>2, <1>9, <2>1 DEF TruthFollows
    <2>5. \A j \in Keys : ~Pending(j)' => truth[j] = None
      <3>1. ASSUME NEW j \in Keys, ~Pending(j)' PROVE truth[j] = None
        <4>1. ~EraseQueued /\ j \notin KeysOf(queue) \cup KeysOf(pendingOp)
          BY <1>3, <1>4, <1>6, <3>1 DEF Pending, EraseQueued, ErasePending
        <4> QED BY <1>3, <2>1, <4>1 DEF TruthFollows
      <3> QED BY <3>1
    <2> QED BY <1>1, <1>6, <1>7, <2>2, <2>3, <2>4, <2>5 DEF TruthFollows
  <1>13. Owners'
    <2>1. \A o \in Range(queue) \cup Range(pendingOp') : o.key # EraseAll => Owns(o.e, o.key)'
      BY <1>1, <1>7, <1>9 DEF Owns
    <2>2. ~EraseQueued => \A p \in Range(pendingOp'), o \in Range(queue) : p.key = o.key /\ p.e # o.e =>
            obj'[p.e].data = None /\ obj'[o.e].index = 0
      <3>1. ASSUME ~EraseQueued, NEW p \in Range(pendingOp'), NEW o \in Range(queue), p.key = o.key, p.e # o.e
            PROVE  obj'[p.e].data = None /\ obj'[o.e].index = 0
        <4>1. o.key # EraseAll /\ p \in Range(pendingOp)
          BY <1>2, <1>4, <3>1 DEF EraseQueued, QueueSays
        <4> QED BY <1>9, <3>1, <4>1 DEF SoundInv, Owners
      <3> QED BY <3>1
    <2>3. \A o \in Range(pendingOp') : o.key # EraseAll
      BY <1>4, <1>5 DEF QueueSays
    <2>4. ~EraseQueued => \A o \in Range(queue) : o.key # EraseAll
      BY <1>4 DEF EraseQueued, QueueSays
    <2> QED BY <1>1, <1>6, <2>1, <2>2, <2>3, <2>4 DEF Owners
  <1>14. Erasing'
    <2>1. ObjectsOf(pendingOp') \subseteq ObjectsOf(pendingOp)
      BY <1>2, <1>4 DEF QueueSays
    <2>2. m_entries \cup ObjectsOf(queue) \subseteq DOMAIN obj'
      BY <1>1, <1>2 DEF TableKinds
    <2> QED BY <1>1, <1>2, <1>6, <2>1, <2>2 DEF SoundInv, Erasing
  <1>15. Writing'
    BY <1>6 DEF Writing
  <1>16. TableFollows'
    <2> SUFFICES ASSUME m_tableLoaded PROVE TableFollows'
      BY <1>1 DEF TableFollows
    <2>1. /\ \A d, e \in m_entries : obj[d].name = obj[e].name => d = e
          /\ \A e \in m_entries : obj[e].data # None /\ truth[obj[e].name] = obj[e].data
          /\ \A k \in Keys : truth[k] # None => findEntry(k) # {}
          /\ \A o \in Range(queue) : o.key # EraseAll /\ obj[o.e].data # None => o.e \in m_entries
          /\ ~EraseQueued => \A o \in Range(pendingOp) :
               o.key # EraseAll /\ o.key \notin KeysOf(queue) /\ obj[o.e].data # None => o.e \in m_entries
      BY <1>3 DEF SoundInv, TableFollows
    <2>2. m_entries \subseteq DOMAIN obj' /\ \A e \in m_entries : obj'[e] = obj[e] /\ obj[e].name \in Keys
      BY <1>1, <1>2 DEF TableKinds, SoundInv, QueuesNamed
    <2>3. \A k : findEntry(k)' = findEntry(k)
      BY <1>1, <2>2 DEF findEntry
    <2>4. ASSUME NEW e \in m_entries', NEW j, j = obj'[e].name PROVE Pending(j)'
      <3>1. j \in Keys /\ truth[j] # None
        BY <1>1, <2>1, <2>2, <2>4
      <3>2. TruthFollows'
        BY <1>12
      <3>3. ~Pending(j)' => truth'[j] = None
        BY <1>7, <3>1, <3>2 DEF TruthFollows
      <3> QED BY <1>1, <3>1, <3>3
    <2>5. ~EraseQueued => \A o \in Range(pendingOp') :
               o.key # EraseAll /\ o.key \notin KeysOf(queue) /\ obj'[o.e].data # None => o.e \in m_entries
      BY <1>2, <1>9, <2>1
    <2> QED BY <1>1, <1>6, <1>9, <2>1, <2>2, <2>3, <2>4, <2>5 DEF TableFollows
  <1>17. Unloaded' /\ Reading'
    <2>1. KeysOf(pendingOp') \subseteq KeysOf(pendingOp)
      BY <1>5
    <2> QED BY <1>1, <1>3, <2>1 DEF SoundInv, Unloaded, Reading
  <1>18. Looking'
    BY <1>1, LookingStays DEF SoundInv
  <1>19. SavedValues'
    <2>1. SavedValues
      BY DEF SoundInv
    <2>2. ASSUME NEW j \in Keys, None \notin since[j] PROVE Repacking' /\ j \in KeysOf(pendingOp')
      <3>1. packing /\ j \in KeysOf(pendingOp) /\ ~EraseQueued
        BY <1>3, <2>1, <2>2 DEF SavedValues
      <3> QED BY <1>1, <1>4, <1>5, <1>6, <3>1 DEF Repacking, EraseQueued, ErasePending
    <2>3. \A o \in Range(queue) \cup Range(pendingOp') : o.key # EraseAll => obj'[o.e].data \in since[o.key]
      BY <1>2, <1>9, <2>1 DEF SavedValues
    <2>4. EraseQueued => \A j \in Keys : None \in since[j]
      BY <1>1, <2>1 DEF SavedValues
    <2> QED BY <1>1, <1>6, <1>7, <2>2, <2>3, <2>4 DEF SavedValues
  <1> QED BY <1>10, <1>11, <1>12, <1>13, <1>14, <1>15, <1>16, <1>17, <1>18, <1>19 DEF SoundInv

\* The store is never closed under a flush while no table is read or dropped.
LEMMA FlushAbortsIsSound ==
  ASSUME SoundInv, FlushAborts
  PROVE  FALSE
  BY DEF FlushAborts, SoundInv, Writing, Busy

LEMMA FlushEndIsSound ==
  ASSUME Kinds, SoundInv, FlushEnd, Sound'
  PROVE  SoundInv'
  <1>1. /\ fpc = "op" /\ pendingOp = <<>> /\ fpc' = "idle" /\ flusher' = "none" /\ lpc # "read" /\ flusher # "none"
        /\ worker' = IF flusher # "worker" THEN worker ELSE IF worker = "flush" THEN "check" ELSE "ending"
        /\ since' = [k \in Keys |-> IF {k, EraseAll} \cap KeysOf(queue) = {} THEN {truth[k]} ELSE since[k]]
        /\ packing' = (packing /\ EraseQueued)
        /\ UNCHANGED <<rec, nextId, obj, m_entries, m_tableLoaded, queue, call, lpc, recordId, maxRecordId,
                       pendingOp, data, index, closing, truth>>
    BY DEF FlushEnd, Sound, disk, table, loader, EraseQueued, Kinds, FlushKinds
  <1>2. KeysOf(pendingOp) = {} /\ Range(pendingOp) = {} /\ QueueSays(queue) /\ EraseAll \notin Keys
    BY <1>1, EmptyQueue, OpsAreOfObjects
  <1>3. ~HalfAdded /\ ~HalfAdded' /\ ~Busy' /\ ~ErasePending
    BY <1>1, <1>2 DEF HalfAdded, Busy, ErasePending
  <1>4. RecordsInPairs'
    BY <1>1, <1>3, RecordsStay DEF SoundInv
  <1>5. QueuesNamed' /\ TruthFollows' /\ Owners' /\ Erasing'
    BY <1>1, <1>3, NamesStay, TruthStays, OwnersStay, ErasingStays DEF SoundInv
  <1>6. Writing' /\ Reading'
    BY <1>1, <1>3 DEF Writing, Reading
  <1>7. TableFollows' /\ Unloaded'
    BY <1>1, TableStays, UnloadedStays DEF SoundInv
  <1>8. Looking'
    <2>1. Looking
      BY DEF SoundInv
    <2>2. worker' \in {"ending", "off"} => queue' = <<>>
      BY <1>1, <2>1 DEF Looking, LastLookDone
    <2>3. closing' # "no" => flusher' # "app" /\ MonitorFree'
      BY <1>1, <2>1 DEF Looking, MonitorFree
    <2>4. closing' = "closed" => worker' = "off"
      BY <1>1, <2>1 DEF Looking
    <2> QED BY <1>1, <2>2, <2>3, <2>4 DEF Looking, LastLookDone
  <1>9. SavedValues'
    <2>1. SavedValues /\ TruthFollows /\ RecordsInPairs
      BY DEF SoundInv
    <2>2. ASSUME NEW j \in Keys PROVE Stored(j)' \in since'[j]
      <3>1. Stored(j)' = Stored(j)
        BY <1>1 DEF Stored, Pairs
      <3>2. CASE {j, EraseAll} \cap KeysOf(queue) = {}
        <4>1. ~Pending(j) /\ since'[j] = {truth[j]}
          BY <1>1, <1>2, <3>2 DEF Pending
        <4>2. CASE truth[j] = None
          BY <2>1, <3>1, <4>1, <4>2, StoredIs DEF TruthFollows
        <4>3. CASE truth[j] # None
          <5>1. PICK i \in Pairs(j) : rec[i + 1] = truth[j]
            BY <2>1, <4>1, <4>3 DEF TruthFollows
          <5> QED BY <2>1, <3>1, <4>1, <5>1, PairOf
        <4> QED BY <4>2, <4>3
      <3>3. CASE {j, EraseAll} \cap KeysOf(queue) # {}
        BY <1>1, <1>2, <2>1, <3>1, <3>3 DEF SavedValues
      <3> QED BY <3>2, <3>3
    <2>3. ASSUME NEW o \in Range(queue), o.key # EraseAll PROVE obj[o.e].data \in since'[o.key]
      <3>1. o.key \in Keys /\ o.key \in KeysOf(queue)
        BY <1>2, <2>3, OpsAreOfObjects DEF SoundInv, QueueSays
      <3> QED BY <1>1, <2>1, <2>3, <3>1 DEF SavedValues
    <2>4. EraseQueued => \A j \in Keys : None \in since'[j] \/ (packing' /\ j \in KeysOf(queue))
      BY <1>1, <2>1 DEF SavedValues, EraseQueued
    <2>5. (EraseQueued' <=> EraseQueued) /\ (ErasePending' <=> ErasePending)
      BY <1>1 DEF EraseQueued, ErasePending
    <2> QED BY <1>1, <1>2, <1>3, <2>2, <2>3, <2>4, <2>5 DEF SavedValues
  <1> QED BY <1>4, <1>5, <1>6, <1>7, <1>8, <1>9 DEF SoundInv

\* The operation in hand is done: its key is stored, or deleted, as read.
LEMMA OperationIsSound ==
  ASSUME Kinds, Kinds', SoundInv, Busy, RecordsInPairs', NEW o, NextOp(o),
         NEW k, k = Head(pendingOp).key, NEW e, e = Head(pendingOp).e,
         UNCHANGED <<m_recordStore, m_entries, m_tableLoaded, queue, call, lpc, flusher, worker, closing,
                     truth, since, packing>>,
         nextId <= nextId', \A i \in DOMAIN rec' : i \in DOMAIN rec \/ i >= nextId,
         \A j \in Keys : j # k => Pairs(j)' = Pairs(j) /\ \A i \in Pairs(j) : rec'[i + 1] = rec[i + 1],
         \A d \in DOMAIN obj : /\ o[d] \in EntryKind /\ o[d].name = obj[d].name /\ o[d].data = obj[d].data
                               /\ d # e => o[d] = obj[d],
         data = None => Pairs(k)' = {} /\ o[e].index = obj[e].index /\ o[e].index \notin DOMAIN rec',
         data # None => o[e].index \in Pairs(k)' /\ rec'[o[e].index + 1] = data
  PROVE  SoundInv'
  <1> DEFINE h == Head(pendingOp)
  <1>1. /\ pendingOp # <<>> /\ h.key = k /\ h.e = e /\ k # EraseAll
        /\ pendingOp' = Tail(pendingOp) /\ fpc' = "op"
    BY DEF NextOp, Kinds, FlushKinds, Busy
  <1>2. /\ h \in Range(pendingOp) /\ k \in KeysOf(pendingOp) /\ lpc = "none" /\ ~ErasePending /\ m_tableLoaded
        /\ k \in Keys /\ e \in DOMAIN obj /\ e \in ObjectsOf(pendingOp) /\ obj[e].name = k
        /\ \A p \in Range(pendingOp) : p # h => p.key # k
    BY <1>1, InHand
  <1>3. /\ TableKinds' /\ DOMAIN obj' \subseteq DOMAIN obj /\ \A d \in DOMAIN obj' : obj'[d] = o[d]
        /\ Range(pendingOp') = Range(pendingOp) \ {h}
    BY <1>1, OperationDone DEF Kinds, TableKinds
  <1> HIDE DEF h
  <1>4. /\ QueueSays(queue) /\ QueueSays(pendingOp) /\ QueueSays(pendingOp')
        /\ \A p \in Range(queue) \cup Range(pendingOp') : p.key # EraseAll => p.e \in DOMAIN obj'
        /\ EraseAll \notin Keys
    <2>1. QueueSays(pendingOp') /\ ObjectsOf(queue') \cup ObjectsOf(pendingOp') \subseteq DOMAIN obj' /\ queue' = queue
      BY <1>3, QueueSaysSo DEF TableKinds
    <2>2. \A p \in Range(queue) \cup Range(pendingOp') : p.key # EraseAll => p.e \in DOMAIN obj'
      BY <2>1, OpsAreOfObjects DEF QueueSays
    <2> QED BY <2>1, <2>2, OpsAreOfObjects
  <1>5. \A j : j \in KeysOf(pendingOp') <=> j \in KeysOf(pendingOp) /\ j # k
    BY <1>1, <1>2, <1>3, <1>4 DEF QueueSays
  <1>6. /\ ~ErasePending' /\ (EraseQueued' <=> EraseQueued) /\ ~Busy'
        /\ \A j : j # k => (Pending(j)' <=> Pending(j))
        /\ Pending(k)' <=> EraseQueued \/ k \in KeysOf(queue)
    BY <1>1, <1>2, <1>5 DEF ErasePending, EraseQueued, Busy, Pending
  <1>7. \A d \in DOMAIN obj' : /\ obj'[d].name = obj[d].name /\ obj'[d].data = obj[d].data
                               /\ d # e => obj'[d] = obj[d]
    BY <1>3
  <1>8. \A p \in Range(queue) \cup Range(pendingOp') :
          p.key # EraseAll => p.key \in Keys /\ (p.key # k => p.e # e)
    BY <1>2, <1>3, OpsAreOfObjects DEF SoundInv, QueuesNamed
  <1>9. \A p \in Range(pendingOp') : p \in Range(pendingOp) /\ p.key # EraseAll /\ p.key # k
    BY <1>2, <1>3 DEF ErasePending, KeysOf, Range, QueueSays
  <1>10. QueuesNamed'
    <2>1. ErasesFirst(queue') /\ ErasesFirst(pendingOp')
      BY <1>6 DEF SoundInv, QueuesNamed, ErasesFirst, ErasePending, KeysOf
    <2>2. \A p \in Range(queue) \cup Range(pendingOp') : p.key # EraseAll => obj'[p.e].name = p.key
      BY <1>4, <1>7, <1>9 DEF SoundInv, QueuesNamed
    <2>3. \A d \in DOMAIN obj' : obj'[d].name \in Keys /\ obj'[d].data \in Values \cup {None}
      BY <1>3, <1>7 DEF SoundInv, QueuesNamed
    <2> QED BY <2>1, <2>2, <2>3 DEF QueuesNamed
  <1>11. TruthFollows'
    <2>1. TruthFollows /\ Writing
      BY DEF SoundInv
    <2>2. \A p \in Range(queue) : p.key # EraseAll => truth[p.key] = obj'[p.e].data
      BY <1>4, <1>7, <2>1 DEF TruthFollows
    <2>3. EraseQueued => \A j \in Keys \ KeysOf(queue) : truth[j] = None
      BY <2>1 DEF TruthFollows
    <2>4. ~EraseQueued => \A p \in Range(pendingOp') :
            p.key # EraseAll /\ p.key \notin KeysOf(queue) => truth[p.key] = obj'[p.e].data
      BY <1>4, <1>7, <1>9, <2>1 DEF TruthFollows
    <2>5. ASSUME NEW j \in Keys, ~Pending(j)'
          PROVE  IF truth[j] = None THEN Pairs(j)' = {} ELSE \E i \in Pairs(j)' : rec'[i + 1] = truth[j]
      <3>1. CASE j = k
        <4>1. truth[k] = obj[e].data /\ data = obj[e].data
          BY <1>1, <1>2, <1>6, <2>1, <2>5, <3>1 DEF TruthFollows, Writing, h
        <4> QED BY <3>1, <4>1
      <3>2. CASE j # k
        BY <1>6, <2>1, <2>5, <3>2 DEF TruthFollows
      <3> QED BY <3>1, <3>2
    <2> QED BY <1>6, <2>2, <2>3, <2>4, <2>5 DEF TruthFollows
  <1>12. Owners'
    <2>1. nextId \in Nat /\ nextId' \in Nat /\ \A i \in DOMAIN rec' : i \in Nat /\ i < nextId'
      BY DEF Kinds, StoreKinds
    <2>2. ASSUME NEW p \in Range(queue) \cup Range(pendingOp'), p.key # EraseAll, p.key # k, Owns(p.e, p.key)
          PROVE  Owns(p.e, p.key)'
      <3>1. p.key \in Keys /\ obj'[p.e] = obj[p.e] /\ obj[p.e].index \in Nat
        BY <1>3, <1>4, <1>7, <1>8, <2>2 DEF Kinds, TableKinds, EntryKind
      <3>2. obj[p.e].index < nextId' /\ (obj[p.e].index \in DOMAIN rec' => obj[p.e].index \in DOMAIN rec)
        BY <2>1, <2>2, <3>1 DEF Owns
      <3>3. Pairs(p.key)' = Pairs(p.key)
        BY <2>2, <3>1
      <3> QED BY <2>2, <3>1, <3>2, <3>3 DEF Owns
    <2>3. \A p \in Range(pendingOp') : Owns(p.e, p.key)'
      BY <1>2, <1>9, <2>2 DEF SoundInv, Owners
    <2>4. ~EraseQueued => \A p \in Range(queue) : p.key # EraseAll
      BY <1>4 DEF EraseQueued, QueueSays
    <2>5. ASSUME ~EraseQueued, NEW p \in Range(queue), p.key \notin KeysOf(pendingOp') PROVE Owns(p.e, p.key)'
      <3>1. CASE p.key # k
        BY <1>2, <1>5, <2>2, <2>4, <2>5, <3>1 DEF SoundInv, Owners
      <3>2. CASE p.key = k /\ p.e # e
        <4>1. obj[p.e].index = 0
          BY <1>1, <1>2, <2>5, <3>2 DEF SoundInv, Owners
        <4>2. data = None
          BY <1>1, <2>5, <3>2 DEF SoundInv, Writing, h
        <4>3. obj'[p.e].index = 0
          BY <1>4, <1>7, <2>4, <2>5, <3>2, <4>1
        <4>4. Pairs(k)' = {} /\ 0 < nextId'
          BY <4>2 DEF Kinds, StoreKinds
        <4>5. obj'[p.e].index < nextId' /\ ~(obj'[p.e].index > 0)
          BY <4>3, <4>4
        <4> QED BY <3>2, <4>4, <4>5 DEF Owns
      <3>3. CASE p.key = k /\ p.e = e
        <4>1. obj'[e] = o[e] /\ obj'[e].data = obj[e].data
          BY <1>3, <1>4, <1>7, <2>4, <2>5, <3>3
        <4>2. CASE data = None
          <5>1. obj[e].data = None
            BY <1>1, <4>2 DEF SoundInv, Writing, h
          <5>2. Owns(e, k)
            BY <1>1, <1>2 DEF SoundInv, Owners
          <5>3. obj'[e].index = obj[e].index /\ obj[e].index \in Nat
            BY <1>2, <4>1, <4>2 DEF Kinds, TableKinds, EntryKind
          <5>4. obj'[e].index < nextId'
            BY <2>1, <5>2, <5>3 DEF Owns
          <5> QED BY <3>3, <4>1, <4>2, <5>1, <5>4 DEF Owns
        <4>3. CASE data # None
          <5>1. obj'[e].index \in Pairs(k)'
            BY <4>1, <4>3
          <5>2. Pairs(k)' \subseteq {obj'[e].index}
            BY <1>2, <5>1 DEF RecordsInPairs
          <5>3. obj'[e].index < nextId'
            BY <2>1, <5>1 DEF Pairs
          <5> QED BY <3>3, <5>1, <5>2, <5>3 DEF Owns
        <4> QED BY <4>2, <4>3
      <3> QED BY <3>1, <3>2, <3>3
    <2>6. ASSUME ~EraseQueued, NEW p \in Range(pendingOp'), NEW q \in Range(queue), p.key = q.key, p.e # q.e
          PROVE  obj'[p.e].data = None /\ obj'[q.e].index = 0
      <3>1. obj[p.e].data = None /\ obj[q.e].index = 0
        BY <1>9, <2>6 DEF SoundInv, Owners
      <3> QED BY <1>4, <1>7, <1>8, <1>9, <2>6, <3>1
    <2> QED BY <1>6, <2>3, <2>5, <2>6 DEF Owners
  <1>13. Erasing'
    <2>1. ASSUME EraseQueued, NEW d \in m_entries \cup ObjectsOf(queue)
          PROVE  obj'[d].index = 0 /\ d \notin ObjectsOf(pendingOp')
      <3>1. obj[d].index = 0 /\ d \notin ObjectsOf(pendingOp)
        BY <2>1 DEF SoundInv, Erasing
      <3>2. d \in DOMAIN obj'
        BY <1>3, <2>1 DEF TableKinds
      <3>3. ObjectsOf(pendingOp') \subseteq ObjectsOf(pendingOp)
        BY <1>4, <1>9 DEF QueueSays
      <3> QED BY <1>2, <1>7, <3>1, <3>2, <3>3
    <2> QED BY <1>6, <2>1 DEF Erasing
  <1>14. Writing'
    BY <1>6 DEF Writing
  <1>15. TableFollows'
    <2>1. TruthFollows /\ Writing
      BY DEF SoundInv
    <2>2. /\ \A d, c \in m_entries : obj[d].name = obj[c].name => d = c
          /\ \A d \in m_entries : obj[d].data # None /\ truth[obj[d].name] = obj[d].data
          /\ \A j \in Keys : truth[j] # None => findEntry(j) # {}
          /\ \A p \in Range(queue) : p.key # EraseAll /\ obj[p.e].data # None => p.e \in m_entries
          /\ ~EraseQueued => \A p \in Range(pendingOp) :
               p.key # EraseAll /\ p.key \notin KeysOf(queue) /\ obj[p.e].data # None => p.e \in m_entries
          /\ \A d \in m_entries : ~Pending(obj[d].name) => obj[d].index \in Pairs(obj[d].name)
      BY <1>2 DEF SoundInv, TableFollows
    <2>3. m_entries \subseteq DOMAIN obj' /\ \A d \in m_entries : obj[d].name \in Keys
      BY <1>3 DEF TableKinds, SoundInv, QueuesNamed
    <2>4. \A j : findEntry(j)' = findEntry(j)
      BY <1>7, <2>3 DEF findEntry
    <2>5. ASSUME NEW d \in m_entries, NEW j, j = obj'[d].name, ~Pending(j)' PROVE obj'[d].index \in Pairs(j)'
      <3>1. j = obj[d].name /\ j \in Keys
        BY <1>7, <2>3, <2>5
      <3>2. CASE j # k
        <4>1. d # e /\ ~Pending(j)
          BY <1>2, <1>6, <2>5, <3>1, <3>2
        <4> QED BY <1>7, <2>2, <2>3, <3>1, <3>2, <4>1
      <3>3. CASE j = k
        <4>1. ~EraseQueued /\ k \notin KeysOf(queue)
          BY <1>6, <2>5, <3>3
        <4>2. truth[k] = obj[e].data /\ data = obj[e].data
          BY <1>1, <1>2, <2>1, <4>1 DEF TruthFollows, Writing, h
        <4>6. d \in m_entries /\ obj[d].data # None /\ truth[obj[d].name] = obj[d].data
          BY <2>2, <2>5
        <4>3. obj[e].data # None
          BY <3>1, <3>3, <4>2, <4>6
        <4>4. e \in m_entries
          BY <1>1, <1>2, <2>2, <4>1, <4>3
        <4>7. obj[d].name = obj[e].name
          BY <1>2, <3>1, <3>3
        <4>5. d = e
          BY <2>2, <4>4, <4>6, <4>7
        <4> QED BY <1>3, <2>3, <3>3, <4>2, <4>3, <4>5
      <3> QED BY <3>2, <3>3
    <2>6. \A d, c \in m_entries : obj'[d].name = obj'[c].name => d = c
      BY <1>7, <2>2, <2>3
    <2>7. \A d \in m_entries : obj'[d].data # None /\ truth[obj'[d].name] = obj'[d].data
      BY <1>7, <2>2, <2>3
    <2>8. \A p \in Range(queue) : p.key # EraseAll /\ obj'[p.e].data # None => p.e \in m_entries
      BY <1>4, <1>7, <2>2
    <2>9. ~EraseQueued => \A p \in Range(pendingOp') :
               p.key # EraseAll /\ p.key \notin KeysOf(queue) /\ obj'[p.e].data # None => p.e \in m_entries
      BY <1>4, <1>7, <1>9, <2>2
    <2> QED BY <1>6, <2>2, <2>4, <2>5, <2>6, <2>7, <2>8, <2>9 DEF TableFollows
  <1>16. Unloaded' /\ Reading'
    BY <1>2 DEF Unloaded, Reading
  <1>17. Looking'
    BY LookingStays DEF SoundInv
  <1>18. SavedValues'
    <2>1. SavedValues
      BY DEF SoundInv
    <2>2. ASSUME NEW j \in Keys
          PROVE  Stored(j)' \in since[j] \/ (Repacking' /\ j \in KeysOf(pendingOp') /\ Pairs(j)' = {})
      <3>1. CASE j = k
        <4>1. data \in since[k]
          BY <1>1, <2>1 DEF SavedValues, h
        <4>2. CASE data = None
          <5>1. Stored(k)' = None
            BY <4>2 DEF Stored
          <5> QED BY <3>1, <4>1, <4>2, <5>1
        <4>3. CASE data # None
          <5>1. Stored(k)' = data
            <6>1. PICK i \in Pairs(k)' : TRUE
              BY <4>3
            <6>2. \A c \in Pairs(k)' : c = o[e].index
              BY <1>2, <4>3 DEF RecordsInPairs
            <6> QED BY <4>3, <6>1, <6>2 DEF Stored
          <5> QED BY <3>1, <4>1, <5>1
        <4> QED BY <4>2, <4>3
      <3>2. CASE j # k
        <4>1. Pairs(j)' = Pairs(j) /\ Stored(j)' = Stored(j)
          BY <3>2, StoredSame
        <4>2. Repacking /\ j \in KeysOf(pendingOp) => Repacking' /\ j \in KeysOf(pendingOp')
          BY <1>5, <3>2 DEF Repacking
        <4> QED BY <2>1, <4>1, <4>2 DEF SavedValues
      <3> QED BY <3>1, <3>2
    <2>3. \A p \in Range(queue) \cup Range(pendingOp') : p.key # EraseAll => obj'[p.e].data \in since[p.key]
      BY <1>4, <1>7, <1>9, <2>1 DEF SavedValues
    <2>4. EraseQueued => \A j \in Keys : None \in since[j]
      BY <1>1, <2>1 DEF SavedValues
    <2> QED BY <1>6, <2>2, <2>3, <2>4 DEF SavedValues
  <1> QED BY <1>10, <1>11, <1>12, <1>13, <1>14, <1>15, <1>16, <1>17, <1>18 DEF SoundInv

\* The first of the two accesses of an addition or a deletion: the key has no pair.
LEMMA NameIsSound ==
  ASSUME Kinds, Kinds', SoundInv, fpc = "write", fpc' = "data", RecordsInPairs',
         NEW k, k = Head(pendingOp).key, NEW e, e = Head(pendingOp).e,
         UNCHANGED <<m_recordStore, obj, m_entries, m_tableLoaded, queue, call, lpc, flusher, pendingOp, data,
                     worker, closing, truth, since, packing>>,
         nextId <= nextId', \A i \in DOMAIN rec' : i \in DOMAIN rec \/ i >= nextId,
         \A j \in Keys : j # k => Pairs(j)' = Pairs(j) /\ \A i \in Pairs(j) : rec'[i + 1] = rec[i + 1],
         Pairs(k)' = {}, index' > 0, Odd(index'),
         data = None => index' = index /\ index' \notin DOMAIN rec',
         data # None => /\ index = 0 /\ Pairs(k) = {} /\ index' = nextId' - 1
                        /\ index' \in DOMAIN rec' /\ rec'[index'] = k
  PROVE  SoundInv'
  <1> DEFINE h == Head(pendingOp)
  <1>1. pendingOp # <<>> /\ h.key = k /\ h.e = e /\ k # EraseAll /\ Busy
    BY DEF Kinds, FlushKinds, Busy
  <1>2. /\ h \in Range(pendingOp) /\ k \in KeysOf(pendingOp) /\ lpc = "none" /\ ~ErasePending
        /\ k \in Keys /\ e \in DOMAIN obj /\ obj[e].name = k
        /\ \A p \in Range(pendingOp) : p # h => p.key # k
    BY <1>1, InHand
  <1> HIDE DEF h
  <1>3. /\ \A p \in Range(queue) \cup Range(pendingOp) : p.key # EraseAll => p.key \in Keys /\ p.e \in DOMAIN obj
        /\ QueueSays(queue) /\ QueueSays(pendingOp)
    BY OpsAreOfObjects DEF SoundInv
  <1>4. /\ (ErasePending' <=> ErasePending) /\ (EraseQueued' <=> EraseQueued)
        /\ \A j : Pending(j)' <=> Pending(j)
    BY DEF ErasePending, EraseQueued, Pending
  <1>5. Pending(k)
    BY <1>2 DEF Pending
  <1>6. QueuesNamed'
    BY NamesStay DEF SoundInv
  <1>7. TruthFollows'
    BY <1>2, <1>4, <1>5 DEF SoundInv, TruthFollows
  <1>8. Owners'
    <2>1. nextId \in Nat /\ nextId' \in Nat /\ \A i \in DOMAIN rec' : i \in Nat /\ i < nextId'
      BY DEF Kinds, StoreKinds
    <2>2. ASSUME NEW p \in Range(queue) \cup Range(pendingOp), p.key # EraseAll, p.key # k, Owns(p.e, p.key)
          PROVE  Owns(p.e, p.key)'
      <3>1. p.key \in Keys /\ obj' = obj /\ obj[p.e].index \in Nat
        BY <1>3, <2>2 DEF Kinds, TableKinds, EntryKind
      <3>2. obj[p.e].index < nextId' /\ (obj[p.e].index \in DOMAIN rec' => obj[p.e].index \in DOMAIN rec)
        BY <2>1, <2>2, <3>1 DEF Owns
      <3>3. Pairs(p.key)' = Pairs(p.key)
        BY <2>2, <3>1
      <3> QED BY <2>2, <3>1, <3>2, <3>3 DEF Owns
    <2>3. Owns(e, k)'
      <3>1. obj[e].index = index
        BY <1>1 DEF SoundInv, Writing, h
      <3>2. Owns(e, k) /\ obj[e].index \in Nat
        BY <1>1, <1>2 DEF SoundInv, Owners, Kinds, TableKinds, EntryKind
      <3>3. obj[e].index < nextId'
        BY <2>1, <3>2 DEF Owns
      <3>4. CASE data = None
        <4>1. obj[e].data = None
          BY <1>1, <3>4 DEF SoundInv, Writing, h
        <4> QED BY <3>1, <3>3, <3>4, <4>1 DEF Owns
      <3>5. CASE data # None
        <4>1. obj[e].index = 0
          BY <3>1, <3>5
        <4>2. ~(obj[e].index > 0)
          BY <4>1
        <4> QED BY <3>3, <4>2 DEF Owns
      <3> QED BY <3>4, <3>5
    <2>4. \A p \in Range(pendingOp) : Owns(p.e, p.key)'
      <3>1. ASSUME NEW p \in Range(pendingOp) PROVE Owns(p.e, p.key)'
        <4>1. CASE p = h
          BY <1>1, <2>3, <4>1
        <4>2. CASE p # h
          <5>1. p.key # EraseAll /\ Owns(p.e, p.key) /\ p.key # k
            BY <1>2, <1>3, <4>2 DEF SoundInv, Owners, ErasePending, QueueSays
          <5> QED BY <2>2, <5>1
        <4> QED BY <4>1, <4>2
      <3> QED BY <3>1
    <2>5. ~EraseQueued => \A p \in Range(queue) : p.key \notin KeysOf(pendingOp) => Owns(p.e, p.key)'
      <3>1. ASSUME ~EraseQueued, NEW p \in Range(queue), p.key \notin KeysOf(pendingOp) PROVE Owns(p.e, p.key)'
        <4>1. p.key # EraseAll /\ Owns(p.e, p.key) /\ p.key # k
          BY <1>2, <1>3, <3>1 DEF SoundInv, Owners, EraseQueued, QueueSays
        <4> QED BY <2>2, <4>1
      <3> QED BY <3>1
    <2> QED BY <1>4, <2>4, <2>5 DEF SoundInv, Owners
  <1>9. Erasing'
    BY <1>2, ErasingStays DEF SoundInv
  <1>10. Writing'
    <2>1. Writing
      BY DEF SoundInv
    <2>2. /\ m_recordStore' /\ data' \in Values \cup {None}
          /\ data' = None => obj'[e].data = None
          /\ k \notin KeysOf(queue') /\ ~EraseQueued' => data' = obj'[e].data
          /\ ~EraseQueued' => \A p \in Range(queue') : p.key = k /\ p.e # e => data' = None
          /\ obj[e].index = index
      BY <1>1, <1>4, <2>1 DEF Writing, h
    <2>3. data = None => index < nextId'
      <3>1. Owns(e, k) /\ obj[e].index \in Nat /\ nextId \in Nat /\ nextId' \in Nat
        BY <1>1, <1>2 DEF SoundInv, Owners, Kinds, TableKinds, EntryKind, StoreKinds
      <3> QED BY <2>2, <3>1 DEF Owns
    <2>4. Head(pendingOp)'.key = k /\ Head(pendingOp)'.e = e
      OBVIOUS
    <2>5. data' = None => obj'[e].index = index' /\ index' \notin DOMAIN rec' /\ index' < nextId'
      BY <2>2, <2>3
    <2>6. data' # None => obj'[e].index = 0 /\ index' = nextId' - 1 /\ index' \in DOMAIN rec' /\ rec'[index'] = k
      BY <2>2
    <2> QED BY <2>2, <2>4, <2>5, <2>6 DEF Writing
  <1>11. TableFollows'
    <2>1. m_entries \subseteq DOMAIN obj /\ \A d \in m_entries : obj[d].name \in Keys
      BY DEF Kinds, TableKinds, SoundInv, QueuesNamed
    <2>2. \A j : findEntry(j)' = findEntry(j)
      BY DEF findEntry
    <2>3. ASSUME m_tableLoaded, NEW d \in m_entries, NEW j, j = obj[d].name, ~Pending(j)
          PROVE  obj[d].index \in Pairs(j)'
      <3>1. j # k /\ j \in Keys
        BY <1>5, <2>1, <2>3
      <3>2. obj[d].index \in Pairs(j)
        BY <1>2, <2>3 DEF SoundInv, TableFollows
      <3> QED BY <3>1, <3>2
    <2> QED BY <1>2, <1>4, <2>2, <2>3 DEF SoundInv, TableFollows
  <1>12. Unloaded' /\ Reading'
    BY <1>2, UnloadedStays DEF SoundInv, Reading
  <1>13. Looking'
    BY LookingStays DEF SoundInv
  <1>14. SavedValues'
    <2>1. SavedValues
      BY DEF SoundInv
    <2>2. ASSUME NEW j \in Keys
          PROVE  Stored(j)' \in since[j] \/ (Repacking' /\ j \in KeysOf(pendingOp) /\ Pairs(j)' = {})
      <3>1. Repacking' <=> Repacking
        BY DEF Repacking
      <3>2. CASE j # k
        <4>1. Pairs(j)' = Pairs(j) /\ Stored(j)' = Stored(j)
          BY <3>2, StoredSame
        <4> QED BY <2>1, <3>1, <4>1 DEF SavedValues
      <3>3. CASE j = k
        <4>1. Stored(k)' = None
          BY DEF Stored
        <4>2. CASE data = None
          <5>1. None \in since[k]
            BY <1>1, <2>1, <4>2 DEF SavedValues, h
          <5> QED BY <3>3, <4>1, <5>1
        <4>3. CASE data # None
          <5>1. Stored(k) = None
            BY <4>3 DEF Stored
          <5> QED BY <1>2, <2>1, <3>1, <3>3, <4>1, <5>1 DEF SavedValues
        <4> QED BY <4>2, <4>3
      <3> QED BY <3>2, <3>3
    <2>3. data \in since[k]
      BY <1>1, <2>1 DEF SavedValues, h
    <2> QED BY <1>4, <2>1, <2>2, <2>3 DEF SavedValues
  <1> QED BY <1>6, <1>7, <1>8, <1>9, <1>10, <1>11, <1>12, <1>13, <1>14 DEF SoundInv

\* What is known of the records of the operation in hand before an access.
LEMMA BeforeWrite ==
  ASSUME Kinds, SoundInv, fpc = "write", NEW k, k = Head(pendingOp).key, NEW e, e = Head(pendingOp).e
  PROVE  /\ k \in Keys /\ obj[e].index = index /\ obj[e].name = k /\ e \in DOMAIN obj /\ Pairs(k) \subseteq {index}
         /\ data # None /\ index > 0 => index \in Pairs(k)
         /\ index > 0 /\ index \in DOMAIN rec => index \in Pairs(k)
         /\ index = 0 => Pairs(k) = {}
         /\ data \in Values \cup {None} /\ ~HalfAdded /\ Odd(nextId)
  <1> DEFINE h == Head(pendingOp)
  <1>1. pendingOp # <<>> /\ h.key = k /\ h.e = e /\ k # EraseAll /\ Busy
    BY DEF Kinds, FlushKinds, Busy
  <1>2. k \in Keys /\ h \in Range(pendingOp) /\ ~ErasePending /\ obj[e].name = k /\ e \in DOMAIN obj
    BY <1>1, InHand
  <1> HIDE DEF h
  <1>3. obj[e].index = index /\ data \in Values \cup {None} /\ (data # None /\ index > 0 => index \in Pairs(k))
    BY <1>1 DEF SoundInv, Writing, h
  <1>4. Owns(e, k)
    BY <1>1, <1>2 DEF SoundInv, Owners
  <1>5. 0 \notin Pairs(k)
    BY DEF Pairs
  <1>6. ~HalfAdded /\ Odd(nextId)
    BY DEF HalfAdded, SoundInv, RecordsInPairs
  <1> QED BY <1>2, <1>3, <1>4, <1>5, <1>6 DEF Owns

LEMMA FlushWriteIsSound ==
  ASSUME Kinds, Kinds', SoundInv, FlushWrite
  PROVE  SoundInv'
  <1> SUFFICES ASSUME NEW k, k = Head(pendingOp).key, NEW e, e = Head(pendingOp).e
               PROVE  SoundInv'
    OBVIOUS
  <1>1. /\ fpc = "write" /\ Busy
        /\ UNCHANGED <<m_recordStore, m_entries, m_tableLoaded, queue, call, lpc, flusher, worker, closing,
                       truth, since, packing>>
    BY DEF FlushWrite, Busy, loader, thread, history
  <1>2. /\ k \in Keys /\ obj[e].index = index /\ obj[e].name = k /\ e \in DOMAIN obj /\ Pairs(k) \subseteq {index}
        /\ data # None /\ index > 0 => index \in Pairs(k)
        /\ index > 0 /\ index \in DOMAIN rec => index \in Pairs(k)
        /\ index = 0 => Pairs(k) = {}
        /\ data \in Values \cup {None} /\ ~HalfAdded /\ Odd(nextId)
    BY <1>1, BeforeWrite
  <1>3. /\ nextId \in Nat \ {0} /\ index \in Nat /\ \A d \in DOMAIN obj : obj[d] \in EntryKind
        /\ \A i \in DOMAIN rec : i \in Nat /\ i # 0 /\ i < nextId
    BY DEF Kinds, StoreKinds, FlushKinds, TableKinds
  <1>4. /\ \A j : \A i \in Pairs(j) : i \in DOMAIN rec /\ Odd(i) /\ ~Odd(i + 1) /\ i + 1 \in DOMAIN rec /\ rec[i] = j
        /\ \A i \in DOMAIN rec : IF Odd(i) THEN rec[i] \in Keys /\ i + 1 \in DOMAIN rec ELSE rec[i] \in Values
        /\ \A j \in Keys : \A c, d \in Pairs(j) : c = d
    <2>1. \A j : \A i \in Pairs(j) : i \in DOMAIN rec /\ Odd(i) /\ i + 1 \in DOMAIN rec /\ rec[i] = j
      BY DEF Pairs, Odd
    <2>2. \A j : \A i \in Pairs(j) : ~Odd(i + 1)
      BY <1>3, <2>1, Odds
    <2> QED BY <1>2, <2>1, <2>2 DEF SoundInv, RecordsInPairs
  \* Nothing to delete.
  <1>5. CASE data = None /\ NextOp(obj) /\ UNCHANGED disk /\ index \notin DOMAIN rec
    <2>1. rec' = rec /\ nextId' = nextId /\ fpc' = "op"
      BY <1>5 DEF disk, NextOp
    <2>2. RecordsInPairs'
      BY <1>2, <2>1, RecordsStay DEF HalfAdded, SoundInv
    <2>3. \A j : Pairs(j)' = Pairs(j)
      BY <2>1 DEF Pairs
    <2>4. Pairs(k) = {}
      BY <1>2, <1>4, <1>5
    <2> QED BY <1>1, <1>2, <1>3, <1>5, <2>1, <2>2, <2>3, <2>4, OperationIsSound
  \* The name of a deleted key.
  <1>6. CASE /\ data = None /\ index > 0 /\ index \in DOMAIN rec /\ fpc' = "data"
             /\ rec' = Restrict(rec, DOMAIN rec \ {index}) /\ nextId' = nextId
             /\ UNCHANGED <<pendingOp, obj, data, index>>
    <2>1. DOMAIN rec' = DOMAIN rec \ {index} /\ \A i \in DOMAIN rec' : rec'[i] = rec[i]
      BY <1>6 DEF Restrict
    <2>2. index \in Pairs(k) /\ Odd(index)
      BY <1>2, <1>4, <1>6
    <2>3. Pairs(k)' = {}
      <3>1. Pairs(k)' \subseteq Pairs(k) \ {index}
        BY <2>1 DEF Pairs
      <3> QED BY <1>2, <3>1
    <2>4. ASSUME NEW j \in Keys, j # k PROVE Pairs(j)' = Pairs(j) /\ \A i \in Pairs(j) : rec'[i + 1] = rec[i + 1]
      <3>1. \A i \in Pairs(j) : i # index /\ i + 1 # index
        BY <1>4, <2>2, <2>4
      <3>2. \A i \in Pairs(j) : i \in DOMAIN rec' /\ i + 1 \in DOMAIN rec'
        BY <1>4, <2>1, <3>1
      <3> QED BY <2>1, <3>2 DEF Pairs
    <2>5. ~HalfAdded'
      BY <1>6 DEF HalfAdded
    <2>6. RecordsInPairs'
      <3>1. \A i \in DOMAIN rec' : IF Odd(i) THEN rec'[i] \in Keys /\ i + 1 \in DOMAIN rec' ELSE rec'[i] \in Values
        <4>1. ASSUME NEW i \in DOMAIN rec', Odd(i) PROVE i + 1 # index
          BY <1>3, <2>1, <2>2, <4>1, Odds
        <4> QED BY <1>4, <2>1, <4>1
      <3>2. \A j \in Keys : \A c, d \in Pairs(j)' : c = d
        BY <1>4, <2>3, <2>4
      <3> QED BY <1>2, <1>6, <2>5, <3>1, <3>2 DEF RecordsInPairs
    <2>7. nextId <= nextId' /\ \A i \in DOMAIN rec' : i \in DOMAIN rec
      BY <1>3, <1>6, <2>1
    <2> QED BY <1>1, <1>3, <1>6, <2>1, <2>2, <2>3, <2>4, <2>6, <2>7, NameIsSound
  \* The data of a changed key.
  <1>7. CASE /\ data # None /\ index > 0 /\ NextOp(obj) /\ nextId' = nextId
             /\ rec' = IF DataRecord \in DOMAIN rec THEN [rec EXCEPT ![DataRecord] = data] ELSE rec
    <2>1. index \in Pairs(k) /\ Odd(index) /\ ~Odd(index + 1) /\ index + 1 \in DOMAIN rec
      BY <1>2, <1>4, <1>7
    <2>2. /\ DOMAIN rec' = DOMAIN rec /\ rec'[index + 1] = data
          /\ \A i \in DOMAIN rec : i # index + 1 => rec'[i] = rec[i]
      BY <1>7, <2>1 DEF DataRecord
    <2>3. \A i \in DOMAIN rec : Odd(i) => rec'[i] = rec[i]
      BY <2>1, <2>2
    <2>4. \A j : Pairs(j)' = Pairs(j)
      BY <2>2, <2>3 DEF Pairs, Odd
    <2>5. ASSUME NEW j \in Keys, j # k, NEW i \in Pairs(j) PROVE rec'[i + 1] = rec[i + 1]
      <3>1. i # index /\ i \in Nat /\ i + 1 \in DOMAIN rec
        BY <1>3, <1>4, <2>1, <2>5
      <3>2. i + 1 # index + 1
        BY <1>3, <3>1
      <3> QED BY <2>2, <3>1, <3>2
    <2>6. ~HalfAdded'
      BY <1>7 DEF HalfAdded, NextOp
    <2>7. RecordsInPairs'
      <3>1. ASSUME NEW i \in DOMAIN rec'
            PROVE  IF Odd(i) THEN rec'[i] \in Keys /\ i + 1 \in DOMAIN rec' ELSE rec'[i] \in Values
        BY <1>2, <1>4, <1>7, <2>2, <2>3, <3>1
      <3> QED BY <1>2, <1>4, <1>7, <2>4, <2>6, <3>1 DEF RecordsInPairs
    <2>8. nextId <= nextId'
      BY <1>3, <1>7
    <2> QED BY <1>1, <1>2, <1>3, <1>7, <2>1, <2>2, <2>4, <2>5, <2>7, <2>8, OperationIsSound
  \* The name of a new key.
  <1>8. CASE /\ data # None /\ index = 0 /\ rec' = Added(rec, nextId, obj[Head(pendingOp).e].name)
             /\ nextId' = nextId + 1 /\ index' = nextId /\ fpc' = "data" /\ UNCHANGED <<pendingOp, obj, data>>
    <2>1. /\ DOMAIN rec' = DOMAIN rec \cup {nextId} /\ rec'[nextId] = k
          /\ \A i \in DOMAIN rec : rec'[i] = rec[i] /\ i # nextId
      BY <1>2, <1>3, <1>8 DEF Added
    <2>2. ASSUME NEW j, NEW i PROVE i \in Pairs(j)' <=> i \in Pairs(j)
      <3>1. i = nextId => i + 1 \notin DOMAIN rec'
        BY <1>3, <2>1
      <3>2. i + 1 = nextId => i \notin DOMAIN rec' \/ ~Odd(i)
        BY <1>2, <1>3, <2>1, Odds
      <3> QED BY <2>1, <3>1, <3>2 DEF Pairs, Odd
    <2>3. \A j : Pairs(j)' = Pairs(j)
      BY <2>2
    <2>4. HalfAdded'
      BY <1>8 DEF HalfAdded
    <2>5. RecordsInPairs'
      <3>1. ASSUME NEW i \in DOMAIN rec'
            PROVE  IF Odd(i) THEN rec'[i] \in Keys /\ (i + 1 \in DOMAIN rec' \/ (HalfAdded' /\ i = index'))
                   ELSE rec'[i] \in Values
        BY <1>2, <1>4, <1>8, <2>1, <2>4, <3>1
      <3>2. ~Odd(nextId')
        BY <1>2, <1>3, <1>8, Odds
      <3> QED BY <1>4, <2>3, <2>4, <3>1, <3>2 DEF RecordsInPairs
    <2>6. Pairs(k) = {} /\ index' > 0 /\ index' = nextId' - 1 /\ nextId <= nextId'
      BY <1>2, <1>3, <1>8
    <2>7. \A j : \A i \in Pairs(j) : rec'[i + 1] = rec[i + 1]
      BY <1>4, <2>1
    <2>8. \A i \in DOMAIN rec' : i \in DOMAIN rec \/ i >= nextId
      BY <1>3, <2>1
    <2>9. Odd(index') /\ index' \in DOMAIN rec' /\ rec'[index'] = k
      BY <1>2, <1>8, <2>1
    <2> QED BY <1>1, <1>8, <2>3, <2>5, <2>6, <2>7, <2>8, <2>9, NameIsSound
  <1> QED
    <2>1. index = 0 \/ index > 0
      BY <1>3
    <2>2. 0 \notin DOMAIN rec
      BY <1>3
    <2> QED BY <1>5, <1>6, <1>7, <1>8, <2>1, <2>2 DEF FlushWrite

LEMMA FlushDataIsSound ==
  ASSUME Kinds, Kinds', SoundInv, FlushData
  PROVE  SoundInv'
  <1> SUFFICES ASSUME NEW k, k = Head(pendingOp).key, NEW e, e = Head(pendingOp).e
               PROVE  SoundInv'
    OBVIOUS
  <1>1. /\ fpc = "data" /\ Busy /\ fpc' = "op" /\ pendingOp # <<>>
        /\ UNCHANGED <<m_recordStore, m_entries, m_tableLoaded, queue, call, lpc, flusher, worker, closing,
                       truth, since, packing>>
    BY DEF FlushData, NextOp, Busy, loader, thread, history, Kinds, FlushKinds
  <1>2. /\ nextId \in Nat \ {0} /\ index \in Nat /\ \A d \in DOMAIN obj : obj[d] \in EntryKind
        /\ \A i \in DOMAIN rec : i \in Nat /\ i # 0 /\ i < nextId
    BY DEF Kinds, StoreKinds, FlushKinds, TableKinds
  <1>3. k \in Keys /\ e \in DOMAIN obj /\ k # EraseAll
    <2>1. k # EraseAll
      BY <1>1 DEF Kinds, FlushKinds
    <2> QED BY <1>1, <2>1, InHand
  <1>4. /\ Pairs(k) = {} /\ index > 0 /\ Odd(index) /\ data \in Values \cup {None}
        /\ data = None => obj[e].index = index /\ index \notin DOMAIN rec
        /\ data # None => obj[e].index = 0 /\ index = nextId - 1 /\ index \in DOMAIN rec /\ rec[index] = k
    BY <1>1 DEF SoundInv, Writing
  <1>5. ~Odd(index + 1) /\ Odd(index + 2)
    BY <1>2, <1>4, Odds
  <1>6. /\ \A j : \A i \in Pairs(j) : i \in DOMAIN rec /\ Odd(i) /\ ~Odd(i + 1) /\ i + 1 \in DOMAIN rec /\ rec[i] = j
        /\ \A i \in DOMAIN rec : IF Odd(i) THEN rec[i] \in Keys /\ (i + 1 \in DOMAIN rec \/ (data # None /\ i = index))
                                 ELSE rec[i] \in Values
        /\ \A j \in Keys : \A c, d \in Pairs(j) : c = d
        /\ Odd(nextId) <=> data = None
    <2>1. \A j : \A i \in Pairs(j) : i \in DOMAIN rec /\ Odd(i) /\ i + 1 \in DOMAIN rec /\ rec[i] = j
      BY DEF Pairs, Odd
    <2>2. \A j : \A i \in Pairs(j) : ~Odd(i + 1)
      BY <1>2, <2>1, Odds
    <2>3. HalfAdded <=> data # None
      BY <1>1 DEF HalfAdded
    <2> QED BY <2>1, <2>2, <2>3 DEF SoundInv, RecordsInPairs
  <1>7. ~HalfAdded'
    BY <1>1 DEF HalfAdded
  \* The data of a deleted key.
  <1>8. CASE data = None
    <2>1. rec' = Restrict(rec, DOMAIN rec \ {index + 1}) /\ nextId' = nextId /\ NextOp(obj)
      BY <1>8 DEF FlushData, DataRecord
    <2>2. DOMAIN rec' = DOMAIN rec \ {index + 1} /\ \A i \in DOMAIN rec' : rec'[i] = rec[i]
      BY <2>1 DEF Restrict
    <2>3. \A i \in DOMAIN rec : Odd(i) => i # index + 1 /\ i + 1 # index + 1
      <3>1. \A i \in DOMAIN rec : i # index
        BY <1>4, <1>8
      <3> QED BY <1>2, <1>5, <3>1
    <2>4. \A j : Pairs(j)' = Pairs(j) /\ \A i \in Pairs(j) : rec'[i + 1] = rec[i + 1]
      <3>1. \A i \in DOMAIN rec : Odd(i) /\ i + 1 \in DOMAIN rec => i \in DOMAIN rec' /\ i + 1 \in DOMAIN rec'
        BY <2>2, <2>3
      <3>2. \A j : Pairs(j)' = Pairs(j)
        BY <2>2, <3>1 DEF Pairs, Odd
      <3>3. \A j : \A i \in Pairs(j) : rec'[i + 1] = rec[i + 1]
        BY <1>6, <2>2, <3>1
      <3> QED BY <3>2, <3>3
    <2>5. RecordsInPairs'
      <3>1. \A i \in DOMAIN rec' : IF Odd(i) THEN rec'[i] \in Keys /\ i + 1 \in DOMAIN rec' ELSE rec'[i] \in Values
        BY <1>6, <1>8, <2>2, <2>3
      <3> QED BY <1>6, <1>7, <1>8, <2>1, <2>4, <3>1 DEF RecordsInPairs
    <2>6. nextId <= nextId' /\ \A i \in DOMAIN rec' : i \in DOMAIN rec
      BY <1>2, <2>1, <2>2
    <2>7. Pairs(k)' = {} /\ obj[e].index \notin DOMAIN rec'
      BY <1>4, <1>8, <2>2, <2>4
    <2> QED BY <1>1, <1>2, <1>8, <2>1, <2>4, <2>5, <2>6, <2>7, OperationIsSound
  \* The data of a new key.
  <1>9. CASE data # None
    <2> DEFINE o == [obj EXCEPT ![e].index = index]
    <2>1. rec' = Added(rec, nextId, data) /\ nextId' = nextId + 1 /\ NextOp(o) /\ nextId = index + 1
      BY <1>2, <1>4, <1>9 DEF FlushData
    <2>2. \A d \in DOMAIN obj : /\ o[d] \in EntryKind /\ o[d].name = obj[d].name /\ o[d].data = obj[d].data
                                /\ d # e => o[d] = obj[d]
      BY <1>2 DEF EntryKind
    <2>3. o[e].index = index
      BY <1>2, <1>3 DEF EntryKind
    <2> HIDE DEF o
    <2>4. /\ DOMAIN rec' = DOMAIN rec \cup {index + 1} /\ rec'[index + 1] = data
          /\ \A i \in DOMAIN rec : rec'[i] = rec[i] /\ i # index + 1
      BY <1>2, <2>1 DEF Added
    <2>5. index \in Pairs(k)'
      BY <1>4, <1>9, <2>4 DEF Pairs, Odd
    <2>6. ASSUME NEW j, NEW i \in Pairs(j)' PROVE i \in Pairs(j) \/ (i = index /\ j = k)
      <3>1. i \in DOMAIN rec' /\ Odd(i) /\ i + 1 \in DOMAIN rec' /\ rec'[i] = j
        BY <2>6 DEF Pairs, Odd
      <3>2. i \in DOMAIN rec /\ rec[i] = j
        BY <1>5, <2>4, <3>1
      <3>3. i + 1 \in DOMAIN rec \/ i = index
        BY <1>2, <2>4, <3>1, <3>2
      <3> QED BY <1>4, <1>9, <3>1, <3>2, <3>3 DEF Pairs, Odd
    <2>7. \A j : Pairs(j) \subseteq Pairs(j)' /\ \A i \in Pairs(j) : rec'[i + 1] = rec[i + 1]
      <3>1. \A j : Pairs(j) \subseteq Pairs(j)'
        BY <2>4 DEF Pairs
      <3> QED BY <1>6, <2>4, <3>1
    <2>8. \A j : j # k => Pairs(j)' = Pairs(j)
      BY <2>6, <2>7
    <2>9. \A c \in Pairs(k)' : c = index
      BY <1>4, <2>6
    <2>10. RecordsInPairs'
      <3>1. ASSUME NEW i \in DOMAIN rec'
            PROVE  IF Odd(i) THEN rec'[i] \in Keys /\ i + 1 \in DOMAIN rec' ELSE rec'[i] \in Values
        BY <1>4, <1>5, <1>6, <1>9, <2>4, <3>1
      <3>2. Odd(nextId')
        <4>1. nextId' = index + 2
          BY <1>2, <2>1
        <4> QED BY <1>5, <4>1
      <3>3. \A j \in Keys : \A c, d \in Pairs(j)' : c = d
        BY <1>6, <2>8, <2>9
      <3> QED BY <1>7, <3>1, <3>2, <3>3 DEF RecordsInPairs
    <2>11. nextId <= nextId' /\ \A i \in DOMAIN rec' : i \in DOMAIN rec \/ i >= nextId
      BY <1>2, <2>1, <2>4
    <2> QED BY <1>1, <1>9, <2>1, <2>2, <2>3, <2>4, <2>5, <2>7, <2>8, <2>10, <2>11, OperationIsSound
  <1> QED BY <1>8, <1>9

-----------------------------------------------------------------------------
(* The invariant, and what follows from it.                                *)

\* A window that has been met is not forgotten.
LEMMA FaultsStay ==
  ASSUME Kinds, Steps
  PROVE  faults \subseteq faults'
  <1>1. \A c \in Requests : Perform(c) => faults \subseteq faults'
    BY DEF Perform, setRecord, deleteRecord
  <1>2. CASE Invoke
    BY <1>1, <1>2 DEF Invoke
  <1>3. CASE Resume
    BY <1>1, <1>3 DEF Resume, Kinds, LoadKinds, NoCall
  <1> QED BY <1>2, <1>3
      DEF Steps, erase, AppFlush, FlushBegin, LoadOpen, LoadSize, LoadRead, LoadEnd, FlushOp, FlushFields,
          FlushErase, FlushAborts, FlushWrite, FlushData, FlushEnd, WhileNotQuit, WaitEnds, WorkerFlush, Check,
          ThreadEnds, WorkerOnly, finalClose, Joined, Start, vars, history

\* loadEntries does not run then, and so does not close it.
LEMMA OpenedStays ==
  ASSUME Kinds, SoundInv, Opened, Steps
  PROVE  Opened'
  <1>1. lpc = "read" => fpc # "open"
    BY DEF SoundInv, Unloaded, Kinds, FlushKinds
  <1>2. \A c \in Requests : Perform(c) => UNCHANGED <<fpc, m_recordStore>>
    BY DEF Perform, flush
  <1>3. CASE Invoke
    <2>1. UNCHANGED <<fpc, m_recordStore>>
      BY <1>2, <1>3 DEF Invoke, flush
    <2> QED BY <2>1 DEF Opened
  <1>4. CASE Resume
    BY <1>2, <1>4 DEF Resume, Opened, Kinds, LoadKinds, NoCall
  <1>5. CASE LoadEnd
    BY <1>1, <1>5 DEF LoadEnd, Opened, flush
  <1>6. CASE FlushErase \/ FlushWrite \/ FlushData
    <2>1. fpc' # "open"
      BY <1>6 DEF FlushErase, FlushWrite, FlushData, NextOp
    <2> QED BY <2>1 DEF Opened
  <1> QED BY <1>3, <1>4, <1>5, <1>6
      DEF Steps, erase, AppFlush, FlushBegin, LoadOpen, LoadSize, LoadRead, FlushOp, FlushFields, FlushAborts,
          FlushEnd, WhileNotQuit, WaitEnds, WorkerFlush, Check, ThreadEnds, WorkerOnly, finalClose, Joined,
          Start, vars, flush, Opened

LEMMA StepsAreSound ==
  ASSUME Kinds, Kinds', SoundInv, Opened, Steps, Sound'
  PROVE  SoundInv'
  <1>1. CASE Invoke \/ Resume
    BY <1>1, CallsAreSound
  <1>2. CASE erase
    BY <1>2, EraseIsSound
  <1>3. CASE AppFlush
    <2>1. FlushBegin("app") /\ closing = "no" /\ UNCHANGED <<worker, closing>>
      BY <1>3 DEF AppFlush, FlushBegin, thread
    <2> QED BY <2>1, FlushBeginIsSound
  <1>4. CASE LoadOpen \/ LoadSize \/ LoadRead \/ LoadEnd
    BY <1>4, LoadOpenIsSound, LoadSizeIsSound, LoadReadIsSound, LoadEndIsSound
  <1>5. CASE FlushOp \/ FlushFields \/ FlushErase \/ FlushAborts \/ FlushEnd
    BY <1>5, FlushOpIsSound, FlushFieldsIsSound, FlushEraseIsSound, FlushAbortsIsSound, FlushEndIsSound
  <1>6. CASE FlushWrite \/ FlushData
    BY <1>6, FlushWriteIsSound, FlushDataIsSound
  <1>7. CASE WhileNotQuit \/ WaitEnds \/ ThreadEnds \/ finalClose \/ Joined
    BY <1>7, WorkerIsSound
  <1>8. CASE WorkerFlush
    <2>1. FlushBegin("worker") /\ worker \in {"flush", "final"} /\ UNCHANGED <<worker, closing>>
      BY <1>8 DEF WorkerFlush, FlushBegin, thread
    <2> QED BY <2>1, FlushBeginIsSound
  <1>9. CASE Check
    BY <1>9, CheckIsSound
  <1>10. CASE Start
    BY <1>10, StartIsSound
  <1>11. CASE UNCHANGED vars
    <2>1. UNCHANGED Contents /\ UNCHANGED <<worker, flusher, queue, closing, call>>
      BY <1>11 DEF vars, Contents
    <2>2. Looking'
      BY <2>1, LookingStays DEF SoundInv
    <2> QED BY <2>1, <2>2, ContentsStay
  <1> QED BY <1>1, <1>2, <1>3, <1>4, <1>5, <1>6, <1>7, <1>8, <1>9, <1>10, <1>11 DEF Steps

LEMMA InvKept == ASSUME IInv, [Next]_vars PROVE IInv'
  <1>1. Kinds /\ Kinds' /\ Steps
    BY KindsKept, NextIs DEF IInv
  <1>2. Sound' => Sound
    BY <1>1, FaultsStay DEF Sound
  <1>3. Sound' => SoundInv' /\ Opened'
    BY <1>1, <1>2, StepsAreSound, OpenedStays DEF IInv
  <1> QED BY <1>1, <1>3 DEF IInv

LEMMA SoundAtFirst == ASSUME Init PROVE SoundInv
  <1>1. /\ rec = <<>> /\ nextId = 1 /\ obj = <<>> /\ m_entries = {} /\ queue = <<>> /\ pendingOp = <<>>
        /\ fpc = "idle" /\ data = None /\ lpc = "open" /\ m_tableLoaded = FALSE
        /\ flusher = "none" /\ worker = "off" /\ closing = "no"
        /\ truth = [k \in Keys |-> None] /\ since = [k \in Keys |-> {None}]
    BY DEF Init, Started
  <1>2. /\ DOMAIN rec = {} /\ DOMAIN obj = {} /\ ErasesFirst(queue) /\ ErasesFirst(pendingOp)
        /\ KeysOf(queue) = {} /\ KeysOf(pendingOp) = {} /\ Range(queue) = {} /\ Range(pendingOp) = {}
        /\ ObjectsOf(queue) = {}
    BY <1>1, EmptyQueue, EmptySeq
  <1>3. ~Busy /\ ~HalfAdded /\ ~EraseQueued /\ ~ErasePending
    BY <1>1, <1>2 DEF Busy, HalfAdded, EraseQueued, ErasePending
  <1>4. \A k : Pairs(k) = {} /\ Stored(k) = None
    <2>1. \A k : Pairs(k) = {}
      BY <1>2 DEF Pairs
    <2> QED BY <2>1 DEF Stored
  <1>5. RecordsInPairs
    BY <1>1, <1>2, <1>3, <1>4, Odds DEF RecordsInPairs
  <1>6. QueuesNamed
    BY <1>2 DEF QueuesNamed
  <1>7. TruthFollows
    BY <1>1, <1>2, <1>3, <1>4 DEF TruthFollows
  <1>8. Owners /\ Erasing /\ Writing
    BY <1>2, <1>3 DEF Owners, Erasing, Writing
  <1>9. TableFollows /\ Unloaded /\ Reading
    BY <1>1, <1>2 DEF TableFollows, Unloaded, Reading
  <1>10. Looking
    BY <1>1 DEF Looking, LastLookDone
  <1>11. SavedValues
    BY <1>1, <1>2, <1>3, <1>4 DEF SavedValues
  <1> QED BY <1>5, <1>6, <1>7, <1>8, <1>9, <1>10, <1>11 DEF SoundInv

LEMMA InvAlways == Spec => []IInv
  <1>1. Init => IInv
    BY KindsAtFirst, SoundAtFirst DEF IInv, Opened, Init, Started
  <1>2. IInv /\ [Next]_vars => IInv'
    BY InvKept
  <1> QED BY <1>1, <1>2, PTL DEF Spec

\* What a call reads is what was last set, deleted or erased, whatever the thread
\* has written, dropped and read again in between.
THEOREM ReadsAreOfLastWrite == Spec => []ReadsLastWrite
  <1>1. ASSUME IInv PROVE ReadsLastWrite
    <2> SUFFICES ASSUME Sound, m_tableLoaded, lpc \in {"none", "done"}, NEW k \in Keys
                 PROVE  Holds({obj[e].data : e \in findEntry(k)}, truth[k])
      BY DEF ReadsLastWrite
    <2>1. \A e \in findEntry(k) : obj[e].data # None /\ truth[k] = obj[e].data
      BY <1>1 DEF IInv, SoundInv, TableFollows, findEntry
    <2>2. truth[k] # None => findEntry(k) # {}
      BY <1>1 DEF IInv, SoundInv, TableFollows
    <2>3. CASE truth[k] = None
      <3>1. findEntry(k) = {}
        BY <2>1, <2>3
      <3> QED BY <2>3, <3>1 DEF Holds
    <2>4. CASE truth[k] # None
      <3>1. PICK e \in findEntry(k) : TRUE
        BY <2>2, <2>4
      <3>2. {obj[d].data : d \in findEntry(k)} = {truth[k]}
        BY <2>1, <3>1
      <3> QED BY <2>4, <3>2 DEF Holds
    <2> QED BY <2>3, <2>4
  <1> QED BY <1>1, InvAlways, PTL

\* A key with no operation left is stored once, with its last value: no flush
\* loses a change, resurrects a deletion or leaves a key twice.
THEOREM SavedOnceDone == Spec => []SavedUnlessPending
  <1>1. ASSUME IInv PROVE SavedUnlessPending
    <2> SUFFICES ASSUME Sound, NEW k \in Keys, ~Pending(k)
                 PROVE  Holds({rec[i + 1] : i \in Pairs(k)}, truth[k]) /\ Cardinality(Pairs(k)) <= 1
      BY DEF SavedUnlessPending
    <2>1. RecordsInPairs /\ IF truth[k] = None THEN Pairs(k) = {} ELSE \E i \in Pairs(k) : rec[i + 1] = truth[k]
      BY <1>1 DEF IInv, SoundInv, TruthFollows
    <2>2. CASE truth[k] = None
      <3>1. Pairs(k) = {} /\ {rec[i + 1] : i \in Pairs(k)} = {}
        BY <2>1, <2>2
      <3>2. Cardinality(Pairs(k)) = 0
        BY <3>1, FS_EmptySet
      <3> QED BY <2>2, <3>1, <3>2 DEF Holds
    <2>3. CASE truth[k] # None
      <3>1. PICK i \in Pairs(k) : rec[i + 1] = truth[k]
        BY <2>1, <2>3
      <3>2. Pairs(k) = {i}
        BY <2>1, PairOf
      <3>3. Cardinality(Pairs(k)) = 1
        BY <3>2, FS_Singleton
      <3>4. {rec[c + 1] : c \in Pairs(k)} = {truth[k]}
        BY <3>1, <3>2
      <3> QED BY <2>3, <3>3, <3>4 DEF Holds
    <2> QED BY <2>2, <2>3
  <1> QED BY <1>1, InvAlways, PTL

\* A kill at any step, outside the windows and outside a pack, leaves of each key
\* a value it has had since it was last saved.
THEOREM KillsKeepSaved == Spec => []KillKeepsSaved
  <1>1. ASSUME IInv PROVE KillKeepsSaved
    BY <1>1 DEF IInv, SoundInv, SavedValues, KillKeepsSaved
  <1> QED BY <1>1, InvAlways, PTL

\* When closeAll has returned nothing is left in a queue and every key is stored
\* with its last value.
THEOREM ClosingSaves == Spec => []CloseSaves
  <1>1. ASSUME IInv PROVE CloseSaves
    <2> SUFFICES ASSUME closing = "closed", Sound, NEW k \in Keys
                 PROVE  Stored(k) = truth[k] /\ ~Pending(k)
      BY DEF CloseSaves
    <2>1. queue = <<>> /\ flusher = "none"
      BY <1>1 DEF IInv, SoundInv, Looking, LastLookDone, Kinds, FlushKinds
    <2>2. pendingOp = <<>>
      BY <1>1, <2>1 DEF IInv, Kinds, FlushKinds
    <2>3. ~Pending(k)
      BY <2>1, <2>2, EmptyQueue DEF Pending
    <2>4. RecordsInPairs /\ IF truth[k] = None THEN Pairs(k) = {} ELSE \E i \in Pairs(k) : rec[i + 1] = truth[k]
      BY <1>1, <2>3 DEF IInv, SoundInv, TruthFollows
    <2>5. Stored(k) = truth[k]
      BY <2>4, PairOf DEF Stored
    <2> QED BY <2>3, <2>5
  <1> QED BY <1>1, InvAlways, PTL
=============================================================================
