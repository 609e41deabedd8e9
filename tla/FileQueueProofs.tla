--------------------------- MODULE FileQueueProofs ---------------------------
(***************************************************************************)
(* No File that a DataLoader waits for is dropped, whatever the scenes,    *)
(* the urls and the bounds.  The argument follows a File from the queue    *)
(* of its scene to the local of the canvas thread, s_currentFile and the   *)
(* thread: a File is at one of these places at a time (QueuedOnce), the    *)
(* next place is free when it moves (HandOver, OneThread), and as long as  *)
(* it is queued its count covers the DataLoaders that wait for it          *)
(* (CountsCover), so that popQueue does not skip it.                       *)
(***************************************************************************)
EXTENDS FileQueue, FiniteSetTheorems, SequenceTheorems, WellFoundedInduction, TLAPS

States  == {"QUEUED", "LOADING", "LOADED", "ERROR"}
Answers == {"waiting", "left", "data", "error", "released", "dropped"}
Points  == {"none", "loop", "open", "loading", "clear", "lock", "waiting", "dying", "dead"}
Places  == {"frame", "match", "return", "new", "wake", "failed", "exited"}

FileKind    == [url : Urls, count : Nat, state : States]
RequestKind == [scene : Scenes, url : Urls, file : Nat, answer : Answers]

\* Every variable is a sequence, a function or a record of its kind.
Kinds ==
  /\ file \in Seq(FileKind) /\ request \in Seq(RequestKind)
  /\ m_queue \in [Scenes -> Seq(Nat)] /\ blacklist \in [Scenes -> SUBSET Urls]
  /\ s_t \in Workers \cup {Null} /\ s_quit \in BOOLEAN
  /\ wpc \in [Workers -> Points] /\ wfile \in [Workers -> Nat]
  /\ waitOn \in [Workers -> Workers \cup {Null}] /\ interrupted \in [Workers -> BOOLEAN]
  /\ pc \in Places /\ {s_currentFile, starting} \subseteq Nat
  /\ pc \in {"match", "return"} => asked \in [scene : Scenes, url : Urls]
  /\ faults \subseteq FaultKinds

\* A File that is referred to exists.
FilesExist ==
  /\ {s_currentFile, starting} \subseteq DOMAIN file \cup {Null}
  /\ \A w \in Workers : wfile[w] \in DOMAIN file \cup {Null}
  /\ \A r \in DOMAIN request : request[r].file \in DOMAIN file \cup {Null}
  /\ \A s \in Scenes : \A i \in DOMAIN m_queue[s] : m_queue[s][i] \in DOMAIN file

\* No File is asked for more often than DataLoaders were made.
CountsBounded ==
  /\ Len(request) <= MaxRequests
  /\ pc \in {"match", "return"} => Len(request) < MaxRequests
  /\ \A f \in DOMAIN file : file[f].count <= Len(request)

\* A thread has a File from the moment it takes it until it forgets it, and a
\* File that was opened is not queued any more.
ThreadsHoldFiles ==
  \A w \in Workers :
    /\ (wpc[w] = "waiting") = (waitOn[w] # Null)
    /\ wpc[w] \in {"open", "loading", "clear"} => wfile[w] # Null
    /\ wpc[w] \in {"loading", "clear", "dying"} /\ wfile[w] # Null
         => file[wfile[w]].state # "QUEUED"
    /\ wpc[w] \in {"none", "loop", "lock", "waiting", "dead"} => wfile[w] = Null

\* The File the canvas is about to hand over finds s_currentFile null.
HandOver ==
  /\ starting # Null => pc \in {"new", "wake"}
  /\ pc \in {"new", "wake"} => starting # Null /\ s_currentFile = Null
  /\ pc = "new" => s_t = Null

Alive(w) == wpc[w] \notin {"none", "dead"}

\* Within a session one thread lives, it is the one of s_t, and the File it
\* loads is that of s_currentFile.
OneThread ==
  "restarted" \notin faults =>
    /\ \A v, w \in Workers : Alive(v) /\ Alive(w) => v = w
    /\ \A w \in Workers : Alive(w) => pc = "exited" \/ s_t = w
    /\ \A w \in Workers : wpc[w] \in {"open", "loading", "clear"} => s_currentFile = wfile[w]

OnItsWay(f) == f \in {starting, s_currentFile} \/ \E w \in Workers : wfile[w] = f
InQueue(f, s) == \E i \in DOMAIN m_queue[s] : m_queue[s][i] = f

\* A File is queued once, by one scene, and not again when it was handed over.
QueuedOnce ==
  /\ \A s, t \in Scenes : \A i \in DOMAIN m_queue[s], j \in DOMAIN m_queue[t] :
       m_queue[s][i] = m_queue[t][j] => s = t /\ i = j
  /\ \A s \in Scenes : \A i \in DOMAIN m_queue[s] : ~OnItsWay(m_queue[s][i])

WaitingIn(req, f) == {r \in DOMAIN req : req[r].answer = "waiting" /\ req[r].file = f}

\* The count of a queued File covers the DataLoaders that wait for it.
CountsCover ==
  \A s \in Scenes : \A i \in DOMAIN m_queue[s] :
    LET f == m_queue[s][i] IN
    file[f].state = "QUEUED" /\ file[f].count >= Cardinality(WaitingIn(request, f))

\* A File that is waited for is queued, on its way or opened.
WantedPlaced ==
  "restarted" \notin faults /\ pc # "failed" =>
    \A r \in DOMAIN request :
      LET f == request[r].file IN
      request[r].answer = "waiting" /\ f # Null /\ file[f].state = "QUEUED" =>
        OnItsWay(f) \/ InQueue(f, request[r].scene)

IInv == /\ Kinds /\ FilesExist /\ CountsBounded /\ ThreadsHoldFiles /\ HandOver
        /\ OneThread /\ QueuedOnce /\ CountsCover /\ WantedPlaced

-----------------------------------------------------------------------------
(* What the operators of the model do to the sequences.                    *)

\* The smallest element of a set of naturals is one of it.
LEMMA SmallestOne ==
  ASSUME NEW S, S \subseteq Nat, S # {}
  PROVE  Min(S) \in S /\ \A n \in S : Min(S) <= n
  <1> DEFINE T == {0..m : m \in S}
             R == StrictSubsetOrdering(Nat)
  <1>1. IsWellFoundedOn(R, FiniteSubsetsOf(Nat))
    BY FS_StrictSubsetOrderingWellFounded
  <1>2. T \subseteq FiniteSubsetsOf(Nat) /\ T # {}
    <2>1. ASSUME NEW m \in S PROVE 0..m \in FiniteSubsetsOf(Nat)
      <3>1. m \in Int /\ 0..m \in SUBSET Nat
        OBVIOUS
      <3>2. IsFiniteSet(0..m)
        BY <3>1, FS_Interval
      <3> QED BY <3>1, <3>2 DEF FiniteSubsetsOf
    <2> QED BY <2>1
  <1>3. PICK x \in T : \A y \in T : ~(<<y, x>> \in R)
    <2> HIDE DEF T, R
    <2> QED BY <1>1, <1>2, WFMin
  <1>4. PICK m \in S : x = 0..m
    OBVIOUS
  <1>5. ASSUME NEW n \in S, n < m PROVE FALSE
    <2>1. 0..n \in T /\ 0..n \subseteq 0..m /\ m \in 0..m /\ m \notin 0..n /\ {0..n, 0..m} \subseteq SUBSET Nat
      BY <1>5
    <2>2. <<0..n, x>> \in R
      BY <1>4, <2>1 DEF StrictSubsetOrdering
    <2> QED BY <1>3, <2>1, <2>2
  <1>6. \A n \in S : m <= n
    BY <1>5
  <1> QED
    BY <1>6 DEF Min

\* popQueue takes the first File of the queue that is wanted.
LEMMA FirstWantedIs ==
  ASSUME NEW q \in Seq(Nat)
  PROVE  /\ FirstWanted(q) \in 0..Len(q)
         /\ FirstWanted(q) # 0 => Wanted(q[FirstWanted(q)])
         /\ \A i \in 1..Len(q) : (FirstWanted(q) = 0 \/ i < FirstWanted(q)) => ~Wanted(q[i])
  <1> DEFINE I == {i \in 1..Len(q) : Wanted(q[i])}
  <1>1. Len(q) \in Nat /\ I \subseteq Nat
    BY LenProperties
  <1>2. FirstWanted(q) = IF I # {} THEN Min(I) ELSE 0
    BY DEF FirstWanted, SelectInSeq
  <1>3. CASE I = {}
    BY <1>1, <1>2, <1>3
  <1>4. CASE I # {}
    <2>1. Min(I) \in I /\ \A n \in I : Min(I) <= n
      BY <1>1, <1>4, SmallestOne
    <2>2. FirstWanted(q) = Min(I)
      BY <1>2, <1>4
    <2>3. FirstWanted(q) \in 1..Len(q) /\ Wanted(q[FirstWanted(q)])
      BY <2>1, <2>2
    <2>4. ASSUME NEW i \in 1..Len(q), FirstWanted(q) = 0 \/ i < FirstWanted(q) PROVE ~Wanted(q[i])
      BY <1>1, <2>1, <2>2, <2>3, <2>4
    <2> QED
      BY <1>1, <2>3, <2>4
  <1> QED
    BY <1>3, <1>4

\* The domains of the sequences are intervals from 1.
LEMMA Indexed ==
  ASSUME Kinds
  PROVE  /\ Len(file) \in Nat /\ DOMAIN file = 1..Len(file)
         /\ Len(request) \in Nat /\ DOMAIN request = 1..Len(request)
         /\ \A s \in Scenes : Len(m_queue[s]) \in Nat /\ DOMAIN m_queue[s] = 1..Len(m_queue[s])
         /\ \A f \in DOMAIN file : file[f] \in FileKind
         /\ \A r \in DOMAIN request : request[r] \in RequestKind
         /\ \A s \in Scenes : m_queue[s] \in Seq(Nat) /\ \A i \in DOMAIN m_queue[s] : m_queue[s][i] \in Nat
  BY LenProperties, ElementOfSeq DEF Kinds

\* A sequence is built by its length and its elements.
LEMMA IsSequence ==
  ASSUME NEW S, NEW n \in Nat, NEW s \in [1..n -> S]
  PROVE  s \in Seq(S) /\ Len(s) = n
  BY SeqDef

\* A File is set, and the others keep what they have.
LEMMA FileSet ==
  ASSUME Kinds, NEW f \in DOMAIN file, NEW v \in FileKind, NEW fs,
         fs = [file EXCEPT ![f] = v]
  PROVE  /\ fs \in Seq(FileKind) /\ DOMAIN fs = DOMAIN file /\ Len(fs) = Len(file)
         /\ fs[f] = v /\ \A g \in DOMAIN file : g # f => fs[g] = file[g]
  BY Indexed, ExceptSeq, LenProperties DEF Kinds

\* The DataLoaders that wait are finitely many.
LEMMA WaitingFinite ==
  ASSUME NEW req \in Seq(RequestKind), NEW f
  PROVE  IsFiniteSet(WaitingIn(req, f)) /\ Cardinality(WaitingIn(req, f)) \in Nat
  <1>1. WaitingIn(req, f) \in SUBSET (1..Len(req)) /\ Len(req) \in Nat
    BY LenProperties DEF WaitingIn
  <1>2. IsFiniteSet(1..Len(req))
    BY <1>1, FS_Interval
  <1>3. IsFiniteSet(WaitingIn(req, f))
    BY <1>1, <1>2, FS_Subset
  <1> QED
    BY <1>3, FS_CardinalityType

\* One DataLoader more.
LEMMA OneMore ==
  ASSUME NEW req \in Seq(RequestKind), NEW d \in RequestKind, d.answer = "waiting"
  PROVE  LET new == Append(req, d) IN
         /\ new \in Seq(RequestKind) /\ Len(new) = Len(req) + 1
         /\ DOMAIN new = 1..(Len(req) + 1)
         /\ new[Len(req) + 1] = d /\ \A r \in DOMAIN req : new[r] = req[r]
         /\ Cardinality(WaitingIn(new, d.file)) = Cardinality(WaitingIn(req, d.file)) + 1
         /\ \A f : f # d.file => WaitingIn(new, f) = WaitingIn(req, f)
  <1> DEFINE new == Append(req, d)
             n == Len(req) + 1
  <1>1. Len(req) \in Nat /\ DOMAIN req = 1..Len(req)
    BY LenProperties
  <1>2. new \in Seq(RequestKind) /\ Len(new) = n /\ DOMAIN new = 1..n
    BY AppendProperties, LenProperties
  <1>3. new[n] = d /\ \A r \in DOMAIN req : new[r] = req[r]
    BY <1>1, AppendProperties
  <1>4. WaitingIn(new, d.file) = WaitingIn(req, d.file) \cup {n} /\ n \notin WaitingIn(req, d.file)
    <2>1. ASSUME NEW r \in DOMAIN new
          PROVE r \in WaitingIn(new, d.file) <=> r \in WaitingIn(req, d.file) \/ r = n
      <3>1. CASE r = n
        BY <1>2, <1>3, <3>1 DEF WaitingIn
      <3>2. CASE r # n
        <4>1. r \in DOMAIN req
          BY <1>1, <1>2, <2>1, <3>2
        <4> QED BY <1>3, <3>2, <4>1 DEF WaitingIn
      <3> QED BY <3>1, <3>2
    <2>2. n \notin DOMAIN req /\ n \in DOMAIN new /\ DOMAIN req \subseteq DOMAIN new
      BY <1>1, <1>2
    <2>3. WaitingIn(req, d.file) \subseteq DOMAIN req /\ WaitingIn(new, d.file) \subseteq DOMAIN new
      BY DEF WaitingIn
    <2> QED BY <2>1, <2>2, <2>3
  <1>5. Cardinality(WaitingIn(new, d.file)) = Cardinality(WaitingIn(req, d.file)) + 1
    BY <1>4, WaitingFinite, FS_AddElement
  <1>6. ASSUME NEW f, f # d.file PROVE WaitingIn(new, f) = WaitingIn(req, f)
    <2>1. ASSUME NEW r \in DOMAIN new
          PROVE r \in WaitingIn(new, f) <=> r \in WaitingIn(req, f)
      <3>1. CASE r = n
        BY <1>1, <1>2, <1>3, <1>6, <3>1 DEF WaitingIn
      <3>2. CASE r # n
        <4>1. r \in DOMAIN req
          BY <1>1, <1>2, <2>1, <3>2
        <4> QED BY <1>3, <3>2, <4>1 DEF WaitingIn
      <3> QED BY <3>1, <3>2
    <2>2. WaitingIn(req, f) \subseteq DOMAIN new /\ WaitingIn(new, f) \subseteq DOMAIN new
      BY <1>1, <1>2 DEF WaitingIn
    <2> QED BY <2>1, <2>2
  <1> QED
    BY <1>1, <1>2, <1>3, <1>5, <1>6


-----------------------------------------------------------------------------
(* The steps of a loading thread.                                          *)

\* The state of a File is set, and nothing else of it.
LEMMA StateSet ==
  ASSUME Kinds, NEW f \in DOMAIN file, NEW st \in States, file' = [file EXCEPT ![f].state = st]
  PROVE  /\ file' \in Seq(FileKind) /\ DOMAIN file' = DOMAIN file /\ Len(file') = Len(file)
         /\ \A g \in DOMAIN file : /\ file'[g].count = file[g].count
                                   /\ file'[g].state = IF g = f THEN st ELSE file[g].state
  <1> DEFINE v == [file[f] EXCEPT !.state = st]
  <1>1. file[f] \in FileKind
    BY Indexed
  <1>2. v \in FileKind /\ v.count = file[f].count /\ v.state = st
    BY <1>1 DEF FileKind
  <1>3. file' = [file EXCEPT ![f] = v]
    OBVIOUS
  <1>4. /\ file' \in Seq(FileKind) /\ DOMAIN file' = DOMAIN file /\ Len(file') = Len(file)
        /\ file'[f] = v /\ \A g \in DOMAIN file : g # f => file'[g] = file[g]
    <2> HIDE DEF v
    <2> QED BY <1>2, <1>3, FileSet
  <1>5. \A g \in DOMAIN file : g = f \/ file'[g] = file[g]
    BY <1>4
  <1> QED
    BY <1>2, <1>4, <1>5

\* The thread takes the File of s_currentFile, or ends.
LEMMA LoopKeeps == ASSUME IInv, NEW w \in Workers, Loop(w) PROVE IInv'
  <1>1. Kinds'
    BY DEF Loop, Null, WorkerFrame, canvas, statics, Goto, IInv, Kinds, FilesExist, ThreadsHoldFiles, HandOver, OneThread, Alive, Kinds, Points, Places, FaultKinds, Workers
  <1>2. FilesExist'
    BY DEF Loop, Null, WorkerFrame, canvas, statics, Goto, IInv, Kinds, FilesExist, ThreadsHoldFiles, HandOver, OneThread, Alive, FilesExist, Null
  <1>3. CountsBounded'
    BY DEF Loop, Null, WorkerFrame, canvas, statics, Goto, IInv, Kinds, FilesExist, ThreadsHoldFiles, HandOver, OneThread, Alive, CountsBounded
  <1>4. ThreadsHoldFiles'
    BY DEF Loop, Null, WorkerFrame, canvas, statics, Goto, IInv, Kinds, FilesExist, ThreadsHoldFiles, HandOver, OneThread, Alive, ThreadsHoldFiles
  <1>5. HandOver'
    BY DEF Loop, Null, WorkerFrame, canvas, statics, Goto, IInv, Kinds, FilesExist, ThreadsHoldFiles, HandOver, OneThread, Alive, HandOver
  <1>6. OneThread'
    <2>1. ASSUME NEW v \in Workers PROVE Alive(v)' => Alive(v)
      BY DEF Loop, Goto, IInv, Kinds, Alive
    <2>2. \A v \in Workers : v # w => wpc'[v] = wpc[v] /\ wfile'[v] = wfile[v]
      BY DEF Loop, Goto, IInv, Kinds
    <2>3. wpc'[w] \in {"open", "loading", "clear"} => s_currentFile = wfile'[w]
      BY DEF Loop, Goto, IInv, Kinds
    <2>4. faults \subseteq faults' /\ s_currentFile' = s_currentFile /\ s_t' = s_t /\ pc' = pc
      BY DEF Loop, WorkerFrame, statics, canvas
    <2>5. "restarted" \notin faults' => "restarted" \notin faults
      BY <2>4
    <2> QED BY <2>1, <2>2, <2>3, <2>4, <2>5 DEF IInv, OneThread
  <1>7. QueuedOnce'
    BY DEF Loop, Null, WorkerFrame, canvas, statics, Goto, IInv, Kinds, FilesExist, ThreadsHoldFiles, HandOver, OneThread, Alive, QueuedOnce, OnItsWay
  <1>8. CountsCover'
    BY DEF Loop, Null, WorkerFrame, canvas, statics, Goto, IInv, Kinds, FilesExist, ThreadsHoldFiles, HandOver, OneThread, Alive, CountsCover
  <1>9. WantedPlaced'
    <2>1. faults \subseteq faults' /\ UNCHANGED <<s_currentFile, starting, file, request, m_queue, pc>>
      BY DEF Loop, WorkerFrame, statics, canvas
    <2>2. wfile[w] = Null /\ \A v \in Workers : v # w => wfile'[v] = wfile[v]
      BY DEF Loop, IInv, Kinds, ThreadsHoldFiles
    <2>3. \A f : f # Null /\ OnItsWay(f) => OnItsWay(f)'
      BY <2>1, <2>2 DEF OnItsWay
    <2> QED BY <2>1, <2>3 DEF IInv, WantedPlaced, InQueue
  <1> QED
    BY <1>1, <1>2, <1>3, <1>4, <1>5, <1>6, <1>7, <1>8, <1>9 DEF IInv

\* The thread an Error.
LEMMA DiesKeeps == ASSUME IInv, NEW w \in Workers, Dies(w) PROVE IInv'
  <1>1. Kinds'
    BY DEF Dies, Null, WorkerFrame, canvas, statics, Goto, IInv, Kinds, FilesExist, ThreadsHoldFiles, HandOver, OneThread, Alive, Kinds, Points, Places, FaultKinds, Workers
  <1>2. FilesExist'
    BY DEF Dies, Null, WorkerFrame, canvas, statics, Goto, IInv, Kinds, FilesExist, ThreadsHoldFiles, HandOver, OneThread, Alive, FilesExist, Null
  <1>3. CountsBounded'
    BY DEF Dies, Null, WorkerFrame, canvas, statics, Goto, IInv, Kinds, FilesExist, ThreadsHoldFiles, HandOver, OneThread, Alive, CountsBounded
  <1>4. ThreadsHoldFiles'
    BY DEF Dies, Null, WorkerFrame, canvas, statics, Goto, IInv, Kinds, FilesExist, ThreadsHoldFiles, HandOver, OneThread, Alive, ThreadsHoldFiles
  <1>5. HandOver'
    BY DEF Dies, Null, WorkerFrame, canvas, statics, Goto, IInv, Kinds, FilesExist, ThreadsHoldFiles, HandOver, OneThread, Alive, HandOver
  <1>6. OneThread'
    BY DEF Dies, Null, WorkerFrame, canvas, statics, Goto, IInv, Kinds, FilesExist, ThreadsHoldFiles, HandOver, OneThread, Alive, OneThread, Alive
  <1>7. QueuedOnce'
    BY DEF Dies, Null, WorkerFrame, canvas, statics, Goto, IInv, Kinds, FilesExist, ThreadsHoldFiles, HandOver, OneThread, Alive, QueuedOnce, OnItsWay
  <1>8. CountsCover'
    BY DEF Dies, Null, WorkerFrame, canvas, statics, Goto, IInv, Kinds, FilesExist, ThreadsHoldFiles, HandOver, OneThread, Alive, CountsCover
  <1>9. WantedPlaced'
    BY DEF Dies, Null, WorkerFrame, canvas, statics, Goto, IInv, Kinds, FilesExist, ThreadsHoldFiles, HandOver, OneThread, Alive, WantedPlaced, OnItsWay, InQueue
  <1> QED
    BY <1>1, <1>2, <1>3, <1>4, <1>5, <1>6, <1>7, <1>8, <1>9 DEF IInv

\* The thread forgets the File.
LEMMA ClearKeeps == ASSUME IInv, NEW w \in Workers, Clear(w) PROVE IInv'
  <1>1. Kinds'
    BY DEF Clear, Null, WorkerFrame, canvas, statics, Goto, IInv, Kinds, FilesExist, ThreadsHoldFiles, HandOver, OneThread, Alive, Kinds, Points, Places, FaultKinds, Workers
  <1>2. FilesExist'
    BY DEF Clear, Null, WorkerFrame, canvas, statics, Goto, IInv, Kinds, FilesExist, ThreadsHoldFiles, HandOver, OneThread, Alive, FilesExist, Null
  <1>3. CountsBounded'
    BY DEF Clear, Null, WorkerFrame, canvas, statics, Goto, IInv, Kinds, FilesExist, ThreadsHoldFiles, HandOver, OneThread, Alive, CountsBounded
  <1>4. ThreadsHoldFiles'
    BY DEF Clear, Null, WorkerFrame, canvas, statics, Goto, IInv, Kinds, FilesExist, ThreadsHoldFiles, HandOver, OneThread, Alive, ThreadsHoldFiles
  <1>5. HandOver'
    BY DEF Clear, Null, WorkerFrame, canvas, statics, Goto, IInv, Kinds, FilesExist, ThreadsHoldFiles, HandOver, OneThread, Alive, HandOver
  <1>6. OneThread'
    BY DEF Clear, Null, WorkerFrame, canvas, statics, Goto, IInv, Kinds, FilesExist, ThreadsHoldFiles, HandOver, OneThread, Alive, OneThread, Alive
  <1>7. QueuedOnce'
    BY DEF Clear, Null, WorkerFrame, canvas, statics, Goto, IInv, Kinds, FilesExist, ThreadsHoldFiles, HandOver, OneThread, Alive, QueuedOnce, OnItsWay
  <1>8. CountsCover'
    BY DEF Clear, Null, WorkerFrame, canvas, statics, Goto, IInv, Kinds, FilesExist, ThreadsHoldFiles, HandOver, OneThread, Alive, CountsCover
  <1>9. WantedPlaced'
    <2>1. UNCHANGED <<starting, file, request, m_queue, pc, faults>>
      BY DEF Clear, WorkerFrame, canvas
    <2>2. wfile[w] # Null /\ file[wfile[w]].state # "QUEUED" /\ wfile[w] \in DOMAIN file
      BY DEF Clear, IInv, ThreadsHoldFiles, FilesExist
    <2>3. \A v \in Workers : v # w => wfile'[v] = wfile[v]
      BY DEF Clear, IInv, Kinds
    <2>4. "restarted" \notin faults => s_currentFile = wfile[w]
      BY DEF Clear, IInv, OneThread
    <2>5. ASSUME NEW f, f # wfile[w], OnItsWay(f), "restarted" \notin faults PROVE OnItsWay(f)'
      BY <2>1, <2>3, <2>4, <2>5 DEF OnItsWay
    <2> QED BY <2>1, <2>2, <2>5 DEF IInv, WantedPlaced, InQueue
  <1> QED
    BY <1>1, <1>2, <1>3, <1>4, <1>5, <1>6, <1>7, <1>8, <1>9 DEF IInv

\* The thread waits, or goes on.
LEMMA LockKeeps == ASSUME IInv, NEW w \in Workers, Lock(w) PROVE IInv'
  <1>1. Kinds'
    <2>1. wpc' \in [Workers -> Points]
      BY DEF Lock, Goto, IInv, Kinds, Points
    <2>2. waitOn' \in [Workers -> Workers \cup {Null}] /\ interrupted' \in [Workers -> BOOLEAN]
      BY DEF Lock, IInv, Kinds
    <2> QED BY <2>1, <2>2 DEF Lock, WorkerFrame, statics, canvas, IInv, Kinds
  <1>2. FilesExist'
    BY DEF Lock, Null, WorkerFrame, canvas, statics, Goto, IInv, Kinds, FilesExist, ThreadsHoldFiles, HandOver, OneThread, Alive, FilesExist, Null
  <1>3. CountsBounded'
    BY DEF Lock, Null, WorkerFrame, canvas, statics, Goto, IInv, Kinds, FilesExist, ThreadsHoldFiles, HandOver, OneThread, Alive, CountsBounded
  <1>4. ThreadsHoldFiles'
    BY DEF Lock, Null, WorkerFrame, canvas, statics, Goto, IInv, Kinds, FilesExist, ThreadsHoldFiles, HandOver, OneThread, Alive, ThreadsHoldFiles
  <1>5. HandOver'
    BY DEF Lock, Null, WorkerFrame, canvas, statics, Goto, IInv, Kinds, FilesExist, ThreadsHoldFiles, HandOver, OneThread, Alive, HandOver
  <1>6. OneThread'
    <2>1. UNCHANGED <<wfile, s_currentFile, s_t, pc, faults>>
      BY DEF Lock, WorkerFrame, statics, canvas
    <2>2. \A v \in Workers : v # w => wpc'[v] = wpc[v]
      BY DEF Lock, Goto, IInv, Kinds
    <2>3. wpc[w] = "lock" /\ wpc'[w] \notin {"open", "loading", "clear"}
      BY DEF Lock, Goto, IInv, Kinds
    <2>4. ASSUME NEW v \in Workers, Alive(v)' PROVE Alive(v)
      BY <2>2, <2>3, <2>4 DEF Alive
    <2> QED BY <2>1, <2>2, <2>3, <2>4 DEF IInv, OneThread
  <1>7. QueuedOnce'
    BY DEF Lock, Null, WorkerFrame, canvas, statics, Goto, IInv, Kinds, FilesExist, ThreadsHoldFiles, HandOver, OneThread, Alive, QueuedOnce, OnItsWay
  <1>8. CountsCover'
    BY DEF Lock, Null, WorkerFrame, canvas, statics, Goto, IInv, Kinds, FilesExist, ThreadsHoldFiles, HandOver, OneThread, Alive, CountsCover
  <1>9. WantedPlaced'
    BY DEF Lock, Null, WorkerFrame, canvas, statics, Goto, IInv, Kinds, FilesExist, ThreadsHoldFiles, HandOver, OneThread, Alive, WantedPlaced, OnItsWay, InQueue
  <1> QED
    BY <1>1, <1>2, <1>3, <1>4, <1>5, <1>6, <1>7, <1>8, <1>9 DEF IInv

\* The thread wakes up without a reason.
LEMMA SpuriousWakeUpKeeps == ASSUME IInv, NEW w \in Workers, SpuriousWakeUp(w) PROVE IInv'
  <1>1. Kinds'
    BY DEF SpuriousWakeUp, Null, WorkerFrame, canvas, statics, Goto, IInv, Kinds, FilesExist, ThreadsHoldFiles, HandOver, OneThread, Alive, Kinds, Points, Places, FaultKinds, Workers
  <1>2. FilesExist'
    BY DEF SpuriousWakeUp, Null, WorkerFrame, canvas, statics, Goto, IInv, Kinds, FilesExist, ThreadsHoldFiles, HandOver, OneThread, Alive, FilesExist, Null
  <1>3. CountsBounded'
    BY DEF SpuriousWakeUp, Null, WorkerFrame, canvas, statics, Goto, IInv, Kinds, FilesExist, ThreadsHoldFiles, HandOver, OneThread, Alive, CountsBounded
  <1>4. ThreadsHoldFiles'
    BY DEF SpuriousWakeUp, Null, WorkerFrame, canvas, statics, Goto, IInv, Kinds, FilesExist, ThreadsHoldFiles, HandOver, OneThread, Alive, ThreadsHoldFiles
  <1>5. HandOver'
    BY DEF SpuriousWakeUp, Null, WorkerFrame, canvas, statics, Goto, IInv, Kinds, FilesExist, ThreadsHoldFiles, HandOver, OneThread, Alive, HandOver
  <1>6. OneThread'
    BY DEF SpuriousWakeUp, Null, WorkerFrame, canvas, statics, Goto, IInv, Kinds, FilesExist, ThreadsHoldFiles, HandOver, OneThread, Alive, OneThread, Alive
  <1>7. QueuedOnce'
    BY DEF SpuriousWakeUp, Null, WorkerFrame, canvas, statics, Goto, IInv, Kinds, FilesExist, ThreadsHoldFiles, HandOver, OneThread, Alive, QueuedOnce, OnItsWay
  <1>8. CountsCover'
    BY DEF SpuriousWakeUp, Null, WorkerFrame, canvas, statics, Goto, IInv, Kinds, FilesExist, ThreadsHoldFiles, HandOver, OneThread, Alive, CountsCover
  <1>9. WantedPlaced'
    BY DEF SpuriousWakeUp, Null, WorkerFrame, canvas, statics, Goto, IInv, Kinds, FilesExist, ThreadsHoldFiles, HandOver, OneThread, Alive, WantedPlaced, OnItsWay, InQueue
  <1> QED
    BY <1>1, <1>2, <1>3, <1>4, <1>5, <1>6, <1>7, <1>8, <1>9 DEF IInv

\* The thread leaves s_t null.
LEMMA DeadKeeps == ASSUME IInv, NEW w \in Workers, Dead(w) PROVE IInv'
  <1>1. Kinds'
    BY DEF Dead, Null, WorkerFrame, canvas, statics, Goto, IInv, Kinds, FilesExist, ThreadsHoldFiles, HandOver, OneThread, Alive, Kinds, Points, Places, FaultKinds, Workers
  <1>2. FilesExist'
    BY DEF Dead, Null, WorkerFrame, canvas, statics, Goto, IInv, Kinds, FilesExist, ThreadsHoldFiles, HandOver, OneThread, Alive, FilesExist, Null
  <1>3. CountsBounded'
    BY DEF Dead, Null, WorkerFrame, canvas, statics, Goto, IInv, Kinds, FilesExist, ThreadsHoldFiles, HandOver, OneThread, Alive, CountsBounded
  <1>4. ThreadsHoldFiles'
    BY DEF Dead, Null, WorkerFrame, canvas, statics, Goto, IInv, Kinds, FilesExist, ThreadsHoldFiles, HandOver, OneThread, Alive, ThreadsHoldFiles
  <1>5. HandOver'
    BY DEF Dead, Null, WorkerFrame, canvas, statics, Goto, IInv, Kinds, FilesExist, ThreadsHoldFiles, HandOver, OneThread, Alive, HandOver
  <1>6. OneThread'
    BY SMTT(30) DEF Dead, Null, WorkerFrame, canvas, statics, Goto, IInv, Kinds, FilesExist, ThreadsHoldFiles, HandOver, OneThread, Alive, OneThread, Alive
  <1>7. QueuedOnce'
    BY DEF Dead, Null, WorkerFrame, canvas, statics, Goto, IInv, Kinds, FilesExist, ThreadsHoldFiles, HandOver, OneThread, Alive, QueuedOnce, OnItsWay
  <1>8. CountsCover'
    BY DEF Dead, Null, WorkerFrame, canvas, statics, Goto, IInv, Kinds, FilesExist, ThreadsHoldFiles, HandOver, OneThread, Alive, CountsCover
  <1>9. WantedPlaced'
    <2>1. UNCHANGED <<s_currentFile, starting, file, request, m_queue, pc, faults>>
      BY DEF Dead, WorkerFrame, canvas
    <2>2. wfile[w] = Null \/ file[wfile[w]].state # "QUEUED"
      BY DEF Dead, IInv, ThreadsHoldFiles, FilesExist
    <2>3. \A v \in Workers : v # w => wfile'[v] = wfile[v]
      BY DEF Dead, IInv, Kinds
    <2>5. ASSUME NEW f, f # wfile[w], OnItsWay(f) PROVE OnItsWay(f)'
      BY <2>1, <2>3, <2>5 DEF OnItsWay
    <2> QED BY <2>1, <2>2, <2>5 DEF IInv, WantedPlaced, InQueue
  <1> QED
    BY <1>1, <1>2, <1>3, <1>4, <1>5, <1>6, <1>7, <1>8, <1>9 DEF IInv

\* The thread opens its File, or ends its loading.
LEMMA FileAdvances ==
  ASSUME IInv, NEW w \in Workers, NEW l \in {"loading", "clear"}, NEW st \in States \ {"QUEUED"},
         wpc[w] \in {"open", "loading"}, wpc' = [wpc EXCEPT ![w] = l],
         file' = [file EXCEPT ![wfile[w]].state = st],
         UNCHANGED <<WorkerFrame, statics, wfile, waitOn, interrupted, faults>>
  PROVE  IInv'
  <1> DEFINE f == wfile[w]
  <1>1. f \in DOMAIN file /\ f # Null
    BY DEF IInv, FilesExist, ThreadsHoldFiles
  <1>2. UNCHANGED <<m_queue, blacklist, pc, asked, starting, request, s_currentFile, s_t, s_quit,
                    wfile, waitOn, interrupted, faults>>
    BY DEF WorkerFrame, statics, canvas
  <1>3. /\ file' \in Seq(FileKind) /\ DOMAIN file' = DOMAIN file /\ Len(file') = Len(file)
        /\ \A g \in DOMAIN file : /\ file'[g].count = file[g].count
                                  /\ file'[g].state = IF g = f THEN st ELSE file[g].state
    BY <1>1, StateSet DEF IInv
  <1>4. wpc'[w] = l /\ (\A v \in Workers : v # w => wpc'[v] = wpc[v]) /\ wpc' \in [Workers -> Points]
    BY DEF IInv, Kinds, Points
  <1> HIDE DEF f
  <1>5. Kinds'
    BY <1>2, <1>3, <1>4 DEF IInv, Kinds
  <1>6. FilesExist'
    BY <1>2, <1>3 DEF IInv, FilesExist
  <1>7. CountsBounded'
    BY <1>2, <1>3 DEF IInv, CountsBounded
  <1>8. ThreadsHoldFiles'
    <2>1. wfile[w] = f
      BY DEF f
    <2>2. \A v \in Workers : wfile[v] \in DOMAIN file \cup {Null}
      BY DEF IInv, FilesExist
    <2> QED BY <1>1, <1>2, <1>3, <1>4, <2>1, <2>2 DEF IInv, ThreadsHoldFiles
  <1>9. HandOver'
    BY <1>2 DEF IInv, HandOver
  <1>10. OneThread'
    BY <1>2, <1>4 DEF IInv, OneThread, Alive
  <1>11. QueuedOnce'
    BY <1>2 DEF IInv, QueuedOnce, OnItsWay
  <1>12. CountsCover'
    <2>1. ASSUME NEW s \in Scenes, NEW i \in DOMAIN m_queue[s]
          PROVE m_queue[s][i] \in DOMAIN file /\ m_queue[s][i] # f
      BY DEF f, IInv, QueuedOnce, OnItsWay, FilesExist
    <2> QED BY <1>2, <1>3, <2>1 DEF IInv, CountsCover
  <1>13. WantedPlaced'
    <2>1. \A r \in DOMAIN request : request[r].file \in DOMAIN file \cup {Null}
      BY DEF IInv, FilesExist
    <2> QED BY <1>2, <1>3, <2>1 DEF IInv, WantedPlaced, OnItsWay, InQueue
  <1> QED
    BY <1>5, <1>6, <1>7, <1>8, <1>9, <1>10, <1>11, <1>12, <1>13 DEF IInv

\* The thread opens its File; one that is not queued any more is forgotten.
LEMMA OpenKeeps == ASSUME IInv, NEW w \in Workers, Open(w) PROVE IInv'
  <1>1. CASE file[wfile[w]].state = "QUEUED"
    BY <1>1, FileAdvances DEF Open, Goto, States
  <1>2. CASE file[wfile[w]].state # "QUEUED"
    <2>1. UNCHANGED <<m_queue, blacklist, pc, asked, starting, request, s_currentFile, s_t, s_quit,
                      wfile, waitOn, interrupted, faults, file>>
      BY <1>2 DEF Open, WorkerFrame, statics, canvas
    <2>2. wpc[w] = "open" /\ wpc' = [wpc EXCEPT ![w] = "clear"]
      BY <1>2 DEF Open, Goto
    <2>3. /\ wpc'[w] = "clear" /\ wpc' \in [Workers -> Points]
          /\ \A v \in Workers : v # w => wpc'[v] = wpc[v]
      BY <2>2 DEF IInv, Kinds, Points
    <2>4. Kinds' /\ FilesExist' /\ CountsBounded' /\ HandOver' /\ QueuedOnce' /\ CountsCover'
      BY <2>1, <2>3 DEF IInv, Kinds, FilesExist, CountsBounded, HandOver, QueuedOnce, OnItsWay,
                        CountsCover
    <2>5. ThreadsHoldFiles' /\ OneThread' /\ WantedPlaced'
      BY <1>2, <2>1, <2>2, <2>3 DEF IInv, ThreadsHoldFiles, OneThread, Alive, WantedPlaced,
                                   OnItsWay, InQueue
    <2> QED BY <2>4, <2>5 DEF IInv
  <1> QED BY <1>1, <1>2

\* The File is loaded, or its loading has failed.
LEMMA LoadedKeeps == ASSUME IInv, NEW w \in Workers, Loaded(w) PROVE IInv'
  <1>1. PICK st \in {"LOADED", "ERROR"} : file' = [file EXCEPT ![wfile[w]].state = st]
    BY DEF Loaded
  <1> QED BY <1>1, FileAdvances DEF Loaded, Goto, States

-----------------------------------------------------------------------------
(* The steps of the canvas thread.                                         *)

\* A new thread takes the place of s_t.
LEMMA NewThreadKeeps == ASSUME IInv, NewThread PROVE IInv'
  <1>1. PICK w \in Workers :
          /\ \A v \in Workers : (wpc[v] = "none") = (v >= w)
          /\ s_currentFile' = starting /\ s_quit' = FALSE /\ s_t' = w
          /\ wpc' = [wpc EXCEPT ![w] = "loop"]
    BY DEF NewThread
  <1>2. /\ pc = "new" /\ pc' = "frame" /\ starting' = Null
        /\ UNCHANGED <<file, m_queue, blacklist, wfile, waitOn, interrupted, asked, request, faults>>
    BY DEF NewThread
  <1>3. wpc[w] = "none" /\ w # Null
    BY <1>1 DEF Workers, Null
  <1>4. wpc'[w] = "loop" /\ (\A v \in Workers : v # w => wpc'[v] = wpc[v]) /\ wpc' \in [Workers -> Points]
    BY <1>1 DEF IInv, Kinds, Points
  <1>5. s_currentFile = Null /\ s_t = Null /\ starting # Null
    BY <1>2 DEF IInv, HandOver
  <1>6. Kinds' /\ FilesExist' /\ CountsBounded' /\ HandOver'
    BY <1>1, <1>2, <1>4 DEF IInv, Kinds, Places, FilesExist, CountsBounded, HandOver
  <1>7. ThreadsHoldFiles'
    BY <1>2, <1>3, <1>4 DEF IInv, ThreadsHoldFiles
  <1>8. OneThread'
    <2>1. ASSUME "restarted" \notin faults, NEW v \in Workers PROVE ~Alive(v)
      BY <1>2, <1>5, <2>1 DEF IInv, OneThread, Workers, Null
    <2> QED BY <1>1, <1>2, <1>4, <2>1 DEF OneThread, Alive
  <1>9. QueuedOnce'
    BY <1>1, <1>2 DEF IInv, QueuedOnce, OnItsWay, Kinds, FilesExist, HandOver, Null
  <1>10. CountsCover'
    BY <1>2 DEF IInv, CountsCover
  <1>11. WantedPlaced'
    BY <1>1, <1>2, <1>5 DEF IInv, WantedPlaced, OnItsWay, InQueue
  <1> QED
    BY <1>6, <1>7, <1>8, <1>9, <1>10, <1>11 DEF IInv

\* The File is handed over to the thread of s_t.
LEMMA WakeThreadKeeps == ASSUME IInv, WakeThread PROVE IInv'
  <1>1. /\ pc = "wake" /\ starting' = Null /\ pc' \in {"frame", "failed"}
        /\ UNCHANGED <<file, m_queue, blacklist, s_t, s_quit, wfile, interrupted, asked, request, faults>>
    BY DEF WakeThread
  <1>2. /\ wpc' \in [Workers -> Points] /\ waitOn' \in [Workers -> Workers \cup {Null}]
        /\ \A v \in Workers : \/ wpc'[v] = wpc[v] /\ waitOn'[v] = waitOn[v]
                              \/ wpc[v] = "waiting" /\ wpc'[v] = "loop" /\ waitOn'[v] = Null
    BY DEF WakeThread, Notify, IInv, Kinds, Points
  <1>3. s_currentFile = Null /\ starting # Null
    BY <1>1 DEF IInv, HandOver
  <1>4. s_currentFile' = IF pc' = "frame" THEN starting ELSE Null
    BY <1>3 DEF WakeThread
  <1>5. Kinds' /\ FilesExist' /\ CountsBounded' /\ HandOver'
    BY <1>1, <1>2, <1>4 DEF IInv, Kinds, Places, FilesExist, CountsBounded, HandOver
  <1>6. ThreadsHoldFiles'
    BY <1>1, <1>2 DEF IInv, ThreadsHoldFiles
  <1>7. OneThread'
    <2>1. ASSUME NEW v \in Workers, wpc[v] \in {"open", "loading", "clear"} PROVE "restarted" \in faults
      BY <1>3, <2>1 DEF IInv, OneThread, ThreadsHoldFiles
    <2> QED BY <1>1, <1>2, <2>1 DEF IInv, OneThread, Alive
  <1>8. QueuedOnce'
    BY <1>1, <1>4 DEF IInv, QueuedOnce, OnItsWay, FilesExist, HandOver, Kinds, Null
  <1>9. CountsCover'
    BY <1>1 DEF IInv, CountsCover
  <1>10. WantedPlaced'
    BY <1>1, <1>3, <1>4 DEF IInv, WantedPlaced, OnItsWay, InQueue
  <1> QED
    BY <1>5, <1>6, <1>7, <1>8, <1>9, <1>10 DEF IInv

\* A session begins, with threads of the last one alive or not.
LEMMA StartAgainKeeps == ASSUME IInv, StartAgain PROVE IInv'
  <1>1. /\ pc = "exited" /\ pc' = "frame"
        /\ UNCHANGED <<file, m_queue, blacklist, statics, workers, asked, starting, request>>
    BY DEF StartAgain
  <1>2. faults \subseteq faults' /\ faults' \subseteq FaultKinds
        /\ ((\E w \in Workers : Alive(w)) => "restarted" \in faults')
    BY DEF StartAgain, Alive, IInv, Kinds, FaultKinds
  <1>3. Kinds' /\ FilesExist' /\ CountsBounded' /\ HandOver' /\ ThreadsHoldFiles' /\ QueuedOnce'
        /\ CountsCover'
    BY <1>1, <1>2 DEF IInv, Kinds, Places, FilesExist, CountsBounded, HandOver, ThreadsHoldFiles,
                      QueuedOnce, OnItsWay, CountsCover, statics, workers
  <1>4. OneThread'
    BY <1>1, <1>2 DEF IInv, OneThread, Alive, statics, workers
  <1>5. WantedPlaced'
    BY <1>1, <1>2 DEF IInv, WantedPlaced, OnItsWay, InQueue, statics, workers
  <1> QED
    BY <1>3, <1>4, <1>5 DEF IInv

-----------------------------------------------------------------------------
(* A DataLoader is made.                                                   *)

\* What stays when a DataLoader is made.
Asking == UNCHANGED <<blacklist, s_currentFile, s_t, s_quit, wpc, wfile, waitOn, interrupted,
                      starting, faults>>

\* Queue makes one DataLoader more, which waits for the File f.
LEMMA QueueAdds ==
  ASSUME IInv, NEW a \in [scene : Scenes, url : Urls], NEW f \in Nat, Queue(a, f)
  PROVE  /\ request' \in Seq(RequestKind) /\ Len(request') = Len(request) + 1
         /\ DOMAIN request' = 1..(Len(request) + 1)
         /\ DOMAIN request = 1..Len(request) /\ Len(request) \in Nat
         /\ \A r \in DOMAIN request : request'[r] = request[r]
         /\ request'[Len(request) + 1].file = f
         /\ request'[Len(request) + 1].scene = a.scene
         /\ Cardinality(WaitingIn(request', f)) = Cardinality(WaitingIn(request, f)) + 1
         /\ \A g : g # f => WaitingIn(request', g) = WaitingIn(request, g)
         /\ pc' = "frame"
  <1> DEFINE d == [scene |-> a.scene, url |-> a.url, file |-> f, answer |-> "waiting"]
  <1>1. d \in RequestKind /\ d.answer = "waiting" /\ d.file = f /\ d.scene = a.scene
    BY DEF RequestKind, Answers
  <1>2. request' = Append(request, d) /\ pc' = "frame"
    BY DEF Queue
  <1>3. request \in Seq(RequestKind)
    BY DEF IInv, Kinds
  <1> HIDE DEF d
  <1>4. Len(request) \in Nat /\ DOMAIN request = 1..Len(request)
    BY <1>3, LenProperties
  <1> QED
    BY <1>1, <1>2, <1>3, <1>4, OneMore

\* getFile found a File: a DataLoader joins it.
LEMMA JoinKeeps ==
  ASSUME IInv, NEW a \in [scene : Scenes, url : Urls], NEW i \in DOMAIN m_queue[a.scene],
         Len(request) < MaxRequests, pc \in {"frame", "match"}, Asking, m_queue' = m_queue,
         file' = [file EXCEPT ![m_queue[a.scene][i]].count = @ + 1], Queue(a, m_queue[a.scene][i])
  PROVE  IInv'
  <1> DEFINE f == m_queue[a.scene][i]
             v == [file[f] EXCEPT !.count = @ + 1]
             n == Len(request) + 1
  <1>0. a.scene \in Scenes
    OBVIOUS
  <1>1. f \in DOMAIN file /\ f \in Nat /\ f # Null /\ file[f] \in FileKind
    BY <1>0, Indexed DEF IInv, FilesExist, Null
  <1>2. /\ request' \in Seq(RequestKind) /\ Len(request') = n
        /\ DOMAIN request' = 1..n
        /\ DOMAIN request = 1..Len(request) /\ Len(request) \in Nat
        /\ \A r \in DOMAIN request : request'[r] = request[r]
        /\ request'[n].file = f
        /\ request'[n].scene = a.scene
        /\ Cardinality(WaitingIn(request', f)) = Cardinality(WaitingIn(request, f)) + 1
        /\ \A g : g # f => WaitingIn(request', g) = WaitingIn(request, g)
        /\ pc' = "frame"
    BY <1>1, QueueAdds
  <1>3. v \in FileKind /\ v.count = file[f].count + 1 /\ v.state = file[f].state
    BY <1>1 DEF FileKind
  <1>4. /\ file' \in Seq(FileKind) /\ DOMAIN file' = DOMAIN file /\ Len(file') = Len(file)
        /\ \A g \in DOMAIN file : /\ file'[g].count = IF g = f THEN file[g].count + 1 ELSE file[g].count
                                  /\ file'[g].state = file[g].state
    <2>1. file' = [file EXCEPT ![f] = v]
      OBVIOUS
    <2>2. /\ file' \in Seq(FileKind) /\ DOMAIN file' = DOMAIN file /\ Len(file') = Len(file)
          /\ file'[f] = v /\ \A g \in DOMAIN file : g # f => file'[g] = file[g]
      <3> HIDE DEF f, v
      <3> QED BY <1>1, <1>3, <2>1, FileSet DEF IInv
    <2> HIDE DEF f, v
    <2>3. ASSUME NEW g \in DOMAIN file
          PROVE /\ file'[g].count = IF g = f THEN file[g].count + 1 ELSE file[g].count
                /\ file'[g].state = file[g].state
      <3>1. CASE g = f
        BY <1>3, <2>2, <3>1
      <3>2. CASE g # f
        <4>1. file'[g] = file[g]
          BY <2>2, <3>2
        <4> QED BY <3>2, <4>1
      <3> QED BY <3>1, <3>2
    <2> QED BY <2>2, <2>3
  <1>5. a.scene \in Scenes /\ i \in DOMAIN m_queue[a.scene] /\ m_queue[a.scene][i] = f
    OBVIOUS
  <1> HIDE DEF f, v, n
  <1>6. \A g \in DOMAIN file : file[g].count \in Nat
    BY Indexed DEF IInv, FileKind
  <1>7. Kinds'
    BY <1>2, <1>4 DEF IInv, Kinds, Asking, Places
  <1>8. FilesExist'
    BY <1>1, <1>2, <1>4 DEF IInv, FilesExist, Asking, n
  <1>9. CountsBounded'
    <2>1. Len(request) + 1 <= MaxRequests
      BY <1>2, BoundsAssumption
    <2> QED BY <1>2, <1>4, <1>6, <2>1 DEF IInv, CountsBounded, n
  <1>10. ThreadsHoldFiles'
    BY <1>4 DEF IInv, ThreadsHoldFiles, FilesExist, Asking
  <1>11. HandOver' /\ OneThread'
    BY <1>2 DEF IInv, HandOver, OneThread, Alive, Asking
  <1>12. QueuedOnce'
    BY DEF IInv, QueuedOnce, OnItsWay, Asking
  <1>13. CountsCover'
    <2>1. ASSUME NEW s \in Scenes, NEW j \in DOMAIN m_queue[s], NEW g, g = m_queue[s][j]
          PROVE file'[g].state = "QUEUED" /\ file'[g].count >= Cardinality(WaitingIn(request', g))
      <3>1. g \in DOMAIN file /\ file[g].state = "QUEUED"
            /\ file[g].count >= Cardinality(WaitingIn(request, g)) /\ file[g].count \in Nat
        BY <1>6, <2>1 DEF IInv, CountsCover, FilesExist
      <3>2. Cardinality(WaitingIn(request, g)) \in Nat
        BY WaitingFinite DEF IInv, Kinds
      <3>3. CASE g = f
        BY <1>2, <1>4, <3>1, <3>2, <3>3
      <3>4. CASE g # f
        BY <1>2, <1>4, <3>1, <3>4
      <3> QED BY <3>3, <3>4
    <2> QED BY <2>1 DEF CountsCover
  <1>14. WantedPlaced'
    <2>1. ASSUME "restarted" \notin faults, NEW r \in DOMAIN request', request'[r].answer = "waiting",
                 request'[r].file # Null, file'[request'[r].file].state = "QUEUED"
          PROVE OnItsWay(request'[r].file) \/ InQueue(request'[r].file, request'[r].scene)
      <3>1. CASE r = n
        BY <1>2, <1>5, <3>1 DEF InQueue
      <3>2. CASE r # n
        <4>1. r \in DOMAIN request /\ request'[r] = request[r]
          BY <1>2, <2>1, <3>2 DEF n
        <4>2. request[r].file \in DOMAIN file
          BY <2>1, <4>1 DEF IInv, FilesExist
        <4> QED BY <1>4, <2>1, <4>1, <4>2 DEF IInv, WantedPlaced
      <3> QED BY <3>1, <3>2
    <2> QED BY <2>1 DEF WantedPlaced, OnItsWay, InQueue, Asking
  <1> QED
    BY <1>7, <1>8, <1>9, <1>10, <1>11, <1>12, <1>13, <1>14 DEF IInv

\* getFile found none: a File is added at the end of the queue.
LEMMA AddKeeps ==
  ASSUME IInv, NEW a \in [scene : Scenes, url : Urls],
         Len(request) < MaxRequests, pc \in {"frame", "match"}, Asking,
         file' = Append(file, [url |-> a.url, count |-> 1, state |-> "QUEUED"]),
         m_queue' = [m_queue EXCEPT ![a.scene] = Append(m_queue[a.scene], Len(file) + 1)],
         Queue(a, Len(file) + 1)
  PROVE  IInv'
  <1> DEFINE f == Len(file) + 1
             v == [url |-> a.url, count |-> 1, state |-> "QUEUED"]
             c == a.scene
             n == Len(request) + 1
             k == Len(m_queue[c]) + 1
  <1>1. c \in Scenes /\ v \in FileKind /\ v.count = 1 /\ v.state = "QUEUED"
    BY DEF FileKind, States
  <1>2. Len(file) \in Nat /\ DOMAIN file = 1..Len(file) /\ f \in Nat /\ f # Null /\ f \notin DOMAIN file
    BY Indexed DEF IInv, Null
  <1>3. /\ request' \in Seq(RequestKind) /\ Len(request') = n
        /\ DOMAIN request' = 1..n
        /\ DOMAIN request = 1..Len(request) /\ Len(request) \in Nat
        /\ \A r \in DOMAIN request : request'[r] = request[r]
        /\ request'[n].file = f
        /\ request'[n].scene = c
        /\ Cardinality(WaitingIn(request', f)) = Cardinality(WaitingIn(request, f)) + 1
        /\ \A g : g # f => WaitingIn(request', g) = WaitingIn(request, g)
        /\ pc' = "frame"
    BY <1>2, QueueAdds
  <1>4. /\ file' \in Seq(FileKind) /\ Len(file') = f /\ DOMAIN file' = 1..f
        /\ file'[f] = v /\ \A g \in DOMAIN file : file'[g] = file[g]
    <2>1. file' = Append(file, v) /\ file \in Seq(FileKind)
      BY DEF IInv, Kinds
    <2>2. Append(file, v) \in Seq(FileKind)
      BY <1>1, <2>1, AppendProperties
    <2> HIDE DEF v
    <2> QED BY <1>1, <1>2, <2>1, <2>2, AppendProperties, LenProperties
  <1>5. /\ k \in Nat /\ DOMAIN m_queue[c] = 1..(k - 1)
        /\ m_queue'[c] \in Seq(Nat) /\ DOMAIN m_queue'[c] = 1..k /\ m_queue'[c][k] = f
        /\ \A i \in DOMAIN m_queue[c] : m_queue'[c][i] = m_queue[c][i]
        /\ \A s \in Scenes : s # c => m_queue'[s] = m_queue[s]
    <2>1. m_queue'[c] = Append(m_queue[c], f) /\ \A s \in Scenes : s # c => m_queue'[s] = m_queue[s]
      BY <1>1 DEF IInv, Kinds
    <2>2. m_queue[c] \in Seq(Nat) /\ DOMAIN m_queue[c] = 1..Len(m_queue[c]) /\ Len(m_queue[c]) \in Nat
      BY <1>1, Indexed DEF IInv
    <2>3. Append(m_queue[c], f) \in Seq(Nat)
      BY <1>2, <2>2, AppendProperties
    <2> HIDE DEF c, f
    <2> QED BY <1>2, <2>1, <2>2, <2>3, AppendProperties, LenProperties
  <1>6. m_queue' \in [Scenes -> Seq(Nat)]
    <2>1. m_queue' = [m_queue EXCEPT ![c] = m_queue'[c]]
      BY <1>1 DEF IInv, Kinds
    <2> HIDE DEF c
    <2> QED BY <1>1, <1>5, <2>1 DEF IInv, Kinds
  <1>7. \A i \in DOMAIN m_queue[c] : i \in DOMAIN m_queue'[c]
    BY <1>5
  <1>8. \A s \in Scenes : \A i \in DOMAIN m_queue'[s] :
          \/ s = c /\ i = k /\ m_queue'[s][i] = f
          \/ i \in DOMAIN m_queue[s] /\ m_queue'[s][i] = m_queue[s][i]
    <2> SUFFICES ASSUME NEW s \in Scenes, NEW i \in DOMAIN m_queue'[s]
                 PROVE \/ s = c /\ i = k /\ m_queue'[s][i] = f
                       \/ i \in DOMAIN m_queue[s] /\ m_queue'[s][i] = m_queue[s][i]
      OBVIOUS
    <2> HIDE DEF c, f, k
    <2>1. CASE s # c
      BY <1>5, <2>1
    <2>2. CASE s = c
      <3>1. i \in 1..k
        BY <1>5, <2>2
      <3>2. CASE i = k
        BY <1>5, <2>2, <3>2
      <3>3. CASE i # k
        <4>1. i \in 1..(k - 1)
          BY <1>5, <3>1, <3>3
        <4> QED BY <1>5, <2>2, <4>1
      <3> QED BY <3>2, <3>3
    <2> QED BY <2>1, <2>2
  <1>9. \A g \in DOMAIN file : g # f /\ g \in DOMAIN file'
    BY <1>2, <1>4
  <1>10. f \in DOMAIN file' /\ Cardinality(WaitingIn(request, f)) = 0
    <2>1. WaitingIn(request, f) = {}
      BY <1>2 DEF WaitingIn, IInv, FilesExist
    <2>2. Cardinality(WaitingIn(request, f)) = 0
      BY <2>1, FS_EmptySet, Zenon
    <2>3. f \in 1..f
      BY <1>2
    <2> HIDE DEF f
    <2> QED BY <1>4, <2>2, <2>3
  <1> HIDE DEF f, v, c, n, k
  <1>11. Kinds'
    BY <1>3, <1>4, <1>6 DEF IInv, Kinds, Asking, Places
  <1>12. FilesExist'
    <2>1. ASSUME NEW r \in DOMAIN request' PROVE request'[r].file \in DOMAIN file' \cup {Null}
      <3>1. CASE r = n
        BY <1>3, <1>10, <3>1
      <3>2. CASE r # n
        <4>1. r \in DOMAIN request /\ request'[r] = request[r]
          BY <1>3, <3>2 DEF n
        <4> QED BY <1>9, <4>1 DEF IInv, FilesExist
      <3> QED BY <3>1, <3>2
    <2>2. ASSUME NEW s \in Scenes, NEW i \in DOMAIN m_queue'[s] PROVE m_queue'[s][i] \in DOMAIN file'
      BY <1>8, <1>9, <1>10 DEF IInv, FilesExist
    <2> QED BY <1>9, <2>1, <2>2 DEF IInv, FilesExist, Asking
  <1>13. CountsBounded'
    <2>1. Len(request) + 1 <= MaxRequests
      BY <1>3, BoundsAssumption
    <2>2. ASSUME NEW g \in DOMAIN file' PROVE file'[g].count <= n
      <3>1. CASE g = f
        BY <1>1, <1>3, <1>4, <3>1 DEF n
      <3>2. CASE g # f
        <4>1. g \in DOMAIN file /\ file'[g] = file[g]
          BY <1>2, <1>4, <3>2 DEF f
        <4>2. file[g].count <= Len(request) /\ file[g].count \in Nat
          BY <4>1, Indexed DEF IInv, CountsBounded, FileKind
        <4> QED BY <1>3, <4>1, <4>2 DEF n
      <3> QED BY <3>1, <3>2
    <2> QED BY <1>3, <2>1, <2>2 DEF CountsBounded, n
  <1>14. ThreadsHoldFiles'
    <2>1. \A w \in Workers : wfile[w] \in DOMAIN file \cup {Null}
      BY DEF IInv, FilesExist
    <2> QED BY <1>4, <2>1 DEF IInv, ThreadsHoldFiles, Asking
  <1>15. HandOver' /\ OneThread'
    BY <1>3 DEF IInv, HandOver, OneThread, Alive, Asking
  <1>16. QueuedOnce'
    <2>1. \A s \in Scenes : \A i \in DOMAIN m_queue[s] : m_queue[s][i] # f
      BY <1>9 DEF IInv, FilesExist
    <2>2. ASSUME NEW s \in Scenes, NEW t \in Scenes, NEW i \in DOMAIN m_queue'[s],
                 NEW j \in DOMAIN m_queue'[t], m_queue'[s][i] = m_queue'[t][j]
          PROVE s = t /\ i = j
      BY <1>8, <2>1, <2>2 DEF IInv, QueuedOnce
    <2>3. ~OnItsWay(f)
      BY <1>2, <1>9 DEF OnItsWay, IInv, FilesExist
    <2>4. ASSUME NEW s \in Scenes, NEW i \in DOMAIN m_queue'[s] PROVE ~OnItsWay(m_queue'[s][i])
      BY <1>8, <2>3 DEF IInv, QueuedOnce
    <2> QED BY <2>2, <2>4 DEF QueuedOnce, OnItsWay, Asking
  <1>17. CountsCover'
    <2>1. ASSUME NEW s \in Scenes, NEW j \in DOMAIN m_queue'[s], NEW g, g = m_queue'[s][j]
          PROVE file'[g].state = "QUEUED" /\ file'[g].count >= Cardinality(WaitingIn(request', g))
      <3>1. CASE g = f
        BY <1>1, <1>3, <1>4, <1>10, <3>1
      <3>2. CASE g # f
        <4>1. j \in DOMAIN m_queue[s] /\ g = m_queue[s][j]
          BY <1>8, <2>1, <3>2
        <4>2. g \in DOMAIN file /\ file[g].state = "QUEUED"
              /\ file[g].count >= Cardinality(WaitingIn(request, g))
          BY <4>1 DEF IInv, CountsCover, FilesExist
        <4> QED BY <1>3, <1>4, <3>2, <4>2
      <3> QED BY <3>1, <3>2
    <2> QED BY <2>1 DEF CountsCover
  <1>18. WantedPlaced'
    <2>1. ASSUME "restarted" \notin faults, NEW r \in DOMAIN request', request'[r].answer = "waiting",
                 request'[r].file # Null, file'[request'[r].file].state = "QUEUED"
          PROVE OnItsWay(request'[r].file)
                \/ \E i \in DOMAIN m_queue'[request'[r].scene] :
                     m_queue'[request'[r].scene][i] = request'[r].file
      <3>1. CASE r = n
        <4>1. k \in DOMAIN m_queue'[c]
          BY <1>5 DEF k
        <4> QED BY <1>3, <1>5, <3>1, <4>1
      <3>2. CASE r # n
        <4>1. r \in DOMAIN request /\ request'[r] = request[r]
          BY <1>3, <2>1, <3>2 DEF n
        <4>2. request[r].file \in DOMAIN file /\ request[r].scene \in Scenes
          BY <2>1, <4>1, Indexed DEF IInv, FilesExist, RequestKind
        <4>3. OnItsWay(request[r].file) \/ InQueue(request[r].file, request[r].scene)
          BY <1>4, <2>1, <4>1, <4>2 DEF IInv, WantedPlaced
        <4>4. \A s \in Scenes : \A i \in DOMAIN m_queue[s] :
                 i \in DOMAIN m_queue'[s] /\ m_queue'[s][i] = m_queue[s][i]
          BY <1>5, <1>7
        <4> QED BY <4>1, <4>2, <4>3, <4>4 DEF InQueue
      <3> QED BY <3>1, <3>2
    <2> QED BY <2>1 DEF WantedPlaced, OnItsWay, InQueue, Asking
  <1> QED
    BY <1>11, <1>12, <1>13, <1>14, <1>15, <1>16, <1>17, <1>18 DEF IInv

\* getFile, whichever it finds.
LEMMA FindOrAddKeeps ==
  ASSUME IInv, NEW a \in [scene : Scenes, url : Urls],
         Len(request) < MaxRequests, pc \in {"frame", "match"}, Asking, FindOrAdd(a)
  PROVE  IInv'
  <1>1. CASE Matching(a.scene, a.url) # {}
    <2>1. PICK i \in Matching(a.scene, a.url) :
            /\ file' = [file EXCEPT ![m_queue[a.scene][i]].count = @ + 1]
            /\ Queue(a, m_queue[a.scene][i]) /\ m_queue' = m_queue
      BY <1>1 DEF FindOrAdd
    <2>2. i \in DOMAIN m_queue[a.scene]
      BY DEF Matching
    <2> QED BY <2>1, <2>2, JoinKeeps
  <1>2. CASE Matching(a.scene, a.url) = {}
    BY <1>2, AddKeeps DEF FindOrAdd
  <1> QED BY <1>1, <1>2

\* A node asks for a url.
LEMMA RequestKeeps == ASSUME IInv, Request PROVE IInv'
  <1>1. PICK s \in Scenes, u \in Urls :
          LET a == [scene |-> s, url |-> u] IN
          IF s_currentFile # Null
          THEN pc' = "match" /\ asked' = a /\ UNCHANGED <<file, m_queue, request>>
          ELSE FindOrAdd(a)
    BY DEF Request
  <1> DEFINE a == [scene |-> s, url |-> u]
  <1>2. a \in [scene : Scenes, url : Urls]
    OBVIOUS
  <1>3. pc = "frame" /\ Len(request) < MaxRequests /\ Asking
    BY DEF Request, Asking, statics, workers
  <1>4. CASE s_currentFile = Null
    <2>1. FindOrAdd(a)
      BY <1>1, <1>4
    <2> HIDE DEF a
    <2> QED BY <1>2, <1>3, <2>1, FindOrAddKeeps
  <1>5. CASE s_currentFile # Null
    <2>1. pc' = "match" /\ asked' = a /\ UNCHANGED <<file, m_queue, request>>
      BY <1>1, <1>5
    <2> HIDE DEF a
    <2>2. Kinds' /\ FilesExist' /\ CountsBounded' /\ ThreadsHoldFiles'
      BY <1>2, <1>3, <2>1 DEF IInv, Kinds, Places, FilesExist, CountsBounded, ThreadsHoldFiles, Asking
    <2>3. HandOver' /\ OneThread' /\ QueuedOnce' /\ CountsCover' /\ WantedPlaced'
      BY <1>3, <2>1 DEF IInv, HandOver, OneThread, Alive, QueuedOnce, CountsCover, WantedPlaced,
                        OnItsWay, InQueue, Asking
    <2> QED BY <2>2, <2>3 DEF IInv
  <1> QED BY <1>4, <1>5

\* getFile compares the urls.
LEMMA MatchKeeps == ASSUME IInv, Match PROVE IInv'
  <1>1. pc = "match" /\ Len(request) < MaxRequests /\ asked \in [scene : Scenes, url : Urls]
    BY DEF Match, IInv, CountsBounded, Kinds
  <1>2. UNCHANGED <<blacklist, s_currentFile, s_t, s_quit, wpc, wfile, waitOn, interrupted, starting>>
    BY DEF Match, statics, workers
  <1>3. CASE s_currentFile # Null /\ file[s_currentFile].url # asked.url
    <2>1. FindOrAdd(asked) /\ Asking
      BY <1>2, <1>3 DEF Match, Asking
    <2> QED BY <1>1, <2>1, FindOrAddKeeps
  <1>4. CASE s_currentFile = Null \/ file[s_currentFile].url = asked.url
    <2>1. /\ pc' = "failed" \/ (pc' = "return" /\ asked' = asked)
          /\ UNCHANGED <<file, m_queue, request>>
          /\ faults \subseteq faults' /\ faults' \subseteq faults \cup {"vanished"}
      BY <1>4 DEF Match
    <2>2. "restarted" \in faults' <=> "restarted" \in faults
      BY <2>1
    <2>3. Kinds' /\ FilesExist' /\ CountsBounded' /\ ThreadsHoldFiles'
      BY <1>1, <1>2, <2>1 DEF IInv, Kinds, Places, FaultKinds, FilesExist, CountsBounded,
                              ThreadsHoldFiles
    <2>4. HandOver' /\ OneThread' /\ QueuedOnce' /\ CountsCover' /\ WantedPlaced'
      BY <1>1, <1>2, <2>1, <2>2 DEF IInv, HandOver, OneThread, Alive, QueuedOnce, CountsCover,
                                    WantedPlaced, OnItsWay, InQueue
    <2> QED BY <2>3, <2>4 DEF IInv
  <1> QED BY <1>3, <1>4

\* getFile returns s_currentFile, which is in no queue, or null.
LEMMA ReturnKeeps == ASSUME IInv, Return PROVE IInv'
  <1> DEFINE f == s_currentFile
             n == Len(request) + 1
  <1>1. /\ pc = "return" /\ Len(request) < MaxRequests /\ asked \in [scene : Scenes, url : Urls]
        /\ f \in DOMAIN file \cup {Null} /\ f \in Nat
    BY DEF Return, IInv, CountsBounded, Kinds, FilesExist
  <1>2. UNCHANGED <<blacklist, s_currentFile, s_t, s_quit, wpc, wfile, waitOn, interrupted, starting,
                    file, m_queue>>
    BY DEF Return, statics, workers
  <1>3. Queue(asked, f)
    BY DEF Return
  <1>4. /\ request' \in Seq(RequestKind) /\ Len(request') = n
        /\ DOMAIN request' = 1..n
        /\ DOMAIN request = 1..Len(request) /\ Len(request) \in Nat
        /\ \A r \in DOMAIN request : request'[r] = request[r]
        /\ request'[n].file = f
        /\ \A g : g # f => WaitingIn(request', g) = WaitingIn(request, g)
        /\ pc' = "frame"
    <2> HIDE DEF f
    <2> QED BY <1>1, <1>3, QueueAdds
  <1>5. faults \subseteq faults' /\ faults' \subseteq faults \cup {"vanished"}
    BY DEF Return
  <1>6. "restarted" \in faults' <=> "restarted" \in faults
    BY <1>5
  <1>7. \A r \in DOMAIN request' : r = n \/ (r \in DOMAIN request /\ request'[r] = request[r])
    BY <1>4
  <1> HIDE DEF n
  <1>8. Kinds'
    BY <1>2, <1>4, <1>5 DEF IInv, Kinds, Places, FaultKinds
  <1>9. FilesExist'
    BY <1>1, <1>2, <1>4, <1>7 DEF IInv, FilesExist
  <1>10. CountsBounded'
    <2>1. Len(request) + 1 <= MaxRequests
      BY <1>1, <1>4, BoundsAssumption
    <2>2. \A g \in DOMAIN file : file[g].count \in Nat
      BY Indexed DEF IInv, FileKind
    <2> QED BY <1>2, <1>4, <2>1, <2>2 DEF IInv, CountsBounded, n
  <1>11. ThreadsHoldFiles' /\ HandOver' /\ OneThread' /\ QueuedOnce'
    BY <1>2, <1>1, <1>4, <1>6 DEF IInv, ThreadsHoldFiles, HandOver, OneThread, Alive, QueuedOnce, OnItsWay
  <1>12. CountsCover'
    <2>1. \A s \in Scenes : \A i \in DOMAIN m_queue[s] : m_queue[s][i] # f
      BY DEF IInv, QueuedOnce, OnItsWay
    <2> QED BY <1>2, <1>4, <2>1 DEF IInv, CountsCover
  <1>13. WantedPlaced'
    <2>1. OnItsWay(f)
      BY DEF OnItsWay
    <2> QED BY <1>1, <1>2, <1>4, <1>6, <1>7, <2>1 DEF IInv, WantedPlaced, OnItsWay, InQueue
  <1> QED
    BY <1>8, <1>9, <1>10, <1>11, <1>12, <1>13 DEF IInv

-----------------------------------------------------------------------------
(* loadNext.                                                               *)

\* The queue loses its first Files: those that are not wanted and, if there
\* is one, the first that is.
LEMMA LoadNextMoves ==
  ASSUME IInv, NEW s \in Scenes, LoadNext(s)
  PROVE  \E i \in 0..Len(m_queue[s]), d \in 0..Len(m_queue[s]) :
           /\ m_queue' \in [Scenes -> Seq(Nat)]
           /\ \A t \in Scenes : t # s => m_queue'[t] = m_queue[t]
           /\ i \in {0, d}
           /\ i # 0 => starting' = m_queue[s][i] /\ pc' \in {"new", "wake"} /\ (pc' = "new" => s_t = Null)
           /\ i = 0 => UNCHANGED <<starting, pc>>
           /\ \A j \in 1..d : j # i => ~Wanted(m_queue[s][j])
           /\ DOMAIN m_queue'[s] = 1..(Len(m_queue[s]) - d)
           /\ \A j \in DOMAIN m_queue'[s] : m_queue'[s][j] = m_queue[s][j + d]
  <1> DEFINE q == m_queue[s]
             i == FirstWanted(q)
  <1>1. q \in Seq(Nat) /\ Len(q) \in Nat
    BY Indexed DEF IInv
  <1>2. /\ i \in 0..Len(q)
        /\ \A j \in 1..Len(q) : (i = 0 \/ j < i) => ~Wanted(q[j])
    BY <1>1, FirstWantedIs
  <1>3. CASE i = 0
    <2>1. m_queue' = [m_queue EXCEPT ![s] = <<>>] /\ UNCHANGED <<starting, pc>>
      BY <1>3 DEF LoadNext
    <2>2. m_queue' \in [Scenes -> Seq(Nat)] /\ m_queue'[s] = <<>>
          /\ \A t \in Scenes : t # s => m_queue'[t] = m_queue[t]
      BY <2>1, EmptySeq DEF IInv, Kinds
    <2>3. DOMAIN m_queue'[s] = 1..0
      BY <2>2, EmptySeq, LenProperties
    <2> HIDE DEF q, i
    <2>4. 0 \in 0..Len(q) /\ Len(q) \in 0..Len(q) /\ Len(q) - Len(q) = 0
      BY <1>1
    <2>5. \A j \in 1..Len(q) : ~Wanted(q[j])
      BY <1>2, <1>3
    <2> QED BY <2>1, <2>2, <2>3, <2>4, <2>5 DEF q
  <1>4. CASE i # 0
    <2>1. /\ m_queue' = [m_queue EXCEPT ![s] = SubSeq(q, i + 1, Len(q))]
          /\ starting' = q[i] /\ pc' \in {"new", "wake"} /\ (pc' = "new" => s_t = Null)
      BY <1>4 DEF LoadNext
    <2> HIDE DEF i
    <2>2. SubSeq(q, i + 1, Len(q)) \in Seq(Nat) /\ Len(SubSeq(q, i + 1, Len(q))) = Len(q) - i
          /\ \A j \in 1..(Len(q) - i) : SubSeq(q, i + 1, Len(q))[j] = q[j + i]
      <3> HIDE DEF q
      <3>1. \A j \in (i + 1)..Len(q) : q[j] \in Nat
        BY <1>1, <1>2, ElementOfSeq
      <3>2. /\ SubSeq(q, i + 1, Len(q)) \in Seq(Nat)
            /\ Len(SubSeq(q, i + 1, Len(q))) = IF i + 1 <= Len(q) THEN Len(q) - (i + 1) + 1 ELSE 0
            /\ \A j \in 1..(Len(q) - (i + 1) + 1) : SubSeq(q, i + 1, Len(q))[j] = q[(i + 1) + j - 1]
        BY SMTT(30), <1>1, <1>2, <3>1, SubSeqProperties
      <3> QED BY <1>1, <1>2, <3>2
    <2>3. m_queue' \in [Scenes -> Seq(Nat)] /\ m_queue'[s] = SubSeq(q, i + 1, Len(q))
          /\ \A t \in Scenes : t # s => m_queue'[t] = m_queue[t]
      BY <2>1, <2>2 DEF IInv, Kinds
    <2>4. DOMAIN m_queue'[s] = 1..(Len(q) - i)
      BY <2>2, <2>3, LenProperties
    <2>5. \A j \in 1..i : j # i => ~Wanted(q[j])
      BY <1>1, <1>2
    <2>6. i \in 0..Len(q)
      BY <1>2
    <2> QED BY <1>4, <2>1, <2>2, <2>3, <2>4, <2>5, <2>6
  <1> QED BY <1>3, <1>4

\* A File that is skipped is wanted by nobody, and the one that is taken is on
\* its way.
LEMMA LoadNextKeeps == ASSUME IInv, NEW s \in Scenes, LoadNext(s) PROVE IInv'
  <1> DEFINE q == m_queue[s]
  <1>1. PICK i \in 0..Len(q), d \in 0..Len(q) :
           /\ m_queue' \in [Scenes -> Seq(Nat)]
           /\ \A t \in Scenes : t # s => m_queue'[t] = m_queue[t]
           /\ i \in {0, d}
           /\ i # 0 => starting' = q[i] /\ pc' \in {"new", "wake"} /\ (pc' = "new" => s_t = Null)
           /\ i = 0 => UNCHANGED <<starting, pc>>
           /\ \A j \in 1..d : j # i => ~Wanted(q[j])
           /\ DOMAIN m_queue'[s] = 1..(Len(q) - d)
           /\ \A j \in DOMAIN m_queue'[s] : m_queue'[s][j] = q[j + d]
    BY LoadNextMoves
  <1>2. /\ pc = "frame" /\ s_currentFile = Null
        /\ UNCHANGED <<file, blacklist, s_currentFile, s_t, s_quit, wpc, wfile, waitOn, interrupted,
                       asked, request, faults>>
    BY DEF LoadNext, statics, workers
  <1>3. Len(q) \in Nat /\ DOMAIN q = 1..Len(q)
    BY Indexed DEF IInv
  <1>4. starting = Null
    BY <1>2 DEF IInv, HandOver
  <1>5. i # 0 => i \in DOMAIN q /\ q[i] \in DOMAIN file /\ q[i] # Null /\ ~OnItsWay(q[i])
    <2>1. Null \notin DOMAIN file
      BY Indexed DEF IInv, Null
    <2> QED BY <1>3, <2>1 DEF IInv, FilesExist, QueuedOnce
  <1>6. \A t \in Scenes : \A j \in DOMAIN m_queue'[t] :
          \/ t # s /\ j \in DOMAIN m_queue[t] /\ m_queue'[t][j] = m_queue[t][j]
          \/ t = s /\ j + d \in DOMAIN q /\ j + d # i /\ m_queue'[t][j] = q[j + d]
    <2> SUFFICES ASSUME NEW t \in Scenes, NEW j \in DOMAIN m_queue'[t]
                 PROVE \/ t # s /\ j \in DOMAIN m_queue[t] /\ m_queue'[t][j] = m_queue[t][j]
                       \/ t = s /\ j + d \in DOMAIN q /\ j + d # i /\ m_queue'[t][j] = q[j + d]
      OBVIOUS
    <2> HIDE DEF q
    <2>1. CASE t # s
      BY <1>1, <2>1
    <2>2. CASE t = s
      <3>1. j \in 1..(Len(q) - d) /\ m_queue'[t][j] = q[j + d]
        BY <1>1, <2>2
      <3>2. j + d \in 1..Len(q) /\ j + d # i
        BY <1>1, <1>3, <3>1
      <3> QED BY <1>3, <2>2, <3>1, <3>2
    <2> QED BY <2>1, <2>2
  <1> HIDE DEF q
  <1>7. Kinds'
    BY <1>1, <1>2, <1>5 DEF IInv, Kinds, Places, FilesExist
  <1>8. FilesExist'
    BY <1>1, <1>2, <1>5, <1>6 DEF IInv, FilesExist, q
  <1>9. CountsBounded' /\ ThreadsHoldFiles'
    BY <1>1, <1>2 DEF IInv, CountsBounded, ThreadsHoldFiles
  <1>10. HandOver' /\ OneThread'
    BY <1>1, <1>2, <1>4, <1>5 DEF IInv, HandOver, OneThread, Alive
  <1>11. QueuedOnce'
    <2>1. ASSUME NEW t \in Scenes, NEW u \in Scenes, NEW j \in DOMAIN m_queue'[t],
                 NEW k \in DOMAIN m_queue'[u], m_queue'[t][j] = m_queue'[u][k]
          PROVE t = u /\ j = k
      <3>1. j \in Nat /\ k \in Nat
        <4>1. m_queue'[t] \in Seq(Nat) /\ m_queue'[u] \in Seq(Nat)
          BY <1>1
        <4> QED BY SMTT(30), <4>1, LenProperties
      <3>2. d \in Nat
        OBVIOUS
      <3> QED BY <1>6, <2>1, <3>1, <3>2 DEF IInv, QueuedOnce, q
    <2>2. ASSUME NEW t \in Scenes, NEW j \in DOMAIN m_queue'[t]
          PROVE m_queue'[t][j] \notin {starting', s_currentFile} /\ \A w \in Workers : wfile[w] # m_queue'[t][j]
      <3>1. m_queue'[t][j] \in DOMAIN file /\ m_queue'[t][j] # Null
        <4>1. m_queue'[t][j] \in DOMAIN file
          BY <1>6 DEF IInv, FilesExist, q
        <4> QED BY <4>1, Indexed DEF IInv, Null
      <3>2. m_queue'[t][j] \notin {starting, s_currentFile} /\ \A w \in Workers : wfile[w] # m_queue'[t][j]
        BY <1>6 DEF IInv, QueuedOnce, OnItsWay, q
      <3>3. i # 0 => m_queue'[t][j] # q[i]
        BY <1>5, <1>6 DEF IInv, QueuedOnce, q
      <3> QED BY <1>1, <3>2, <3>3
    <2> QED BY <1>2, <2>1, <2>2 DEF QueuedOnce, OnItsWay
  <1>12. CountsCover'
    BY <1>2, <1>6 DEF IInv, CountsCover, q
  <1>13. WantedPlaced'
    <2>1. ASSUME "restarted" \notin faults, NEW r \in DOMAIN request, request[r].answer = "waiting",
                 request[r].file # Null, file[request[r].file].state = "QUEUED"
          PROVE \/ request[r].file \in {starting', s_currentFile} \/ \E w \in Workers : wfile[w] = request[r].file
                \/ \E j \in DOMAIN m_queue'[request[r].scene] :
                     m_queue'[request[r].scene][j] = request[r].file
      <3> DEFINE f == request[r].file
      <3>1. OnItsWay(f) \/ InQueue(f, request[r].scene)
        BY <1>2, <2>1 DEF IInv, WantedPlaced
      <3>2. CASE OnItsWay(f)
        BY <1>2, <1>4, <2>1, <3>2 DEF OnItsWay
      <3>3. CASE InQueue(f, request[r].scene) /\ request[r].scene # s
        <4>1. request[r].scene \in Scenes
          BY Indexed DEF IInv, RequestKind
        <4> QED BY <1>1, <3>3, <4>1 DEF InQueue
      <3>4. CASE InQueue(f, s) /\ request[r].scene = s
        <4>1. PICK j \in DOMAIN q : q[j] = f
          BY <3>4 DEF InQueue, q
        <4>2. Wanted(f)
          <5>1. file[f].count >= Cardinality(WaitingIn(request, f))
            BY <4>1 DEF IInv, CountsCover, q
          <5>2. r \in WaitingIn(request, f)
            BY <2>1 DEF WaitingIn
          <5>3. IsFiniteSet(WaitingIn(request, f)) /\ Cardinality(WaitingIn(request, f)) \in Nat
            BY WaitingFinite DEF IInv, Kinds
          <5>4. Cardinality(WaitingIn(request, f)) # 0
            BY <5>2, <5>3, FS_EmptySet
          <5>5. f \in DOMAIN file
            BY <2>1 DEF IInv, FilesExist
          <5>6. file[f].count \in Nat
            BY <5>5, Indexed DEF IInv, FileKind
          <5> HIDE DEF f
          <5> QED BY <2>1, <5>1, <5>3, <5>4, <5>6 DEF Wanted, f
        <4>3. CASE j \in 1..d
          BY <1>1, <2>1, <4>1, <4>2, <4>3
        <4>4. CASE j \notin 1..d
          <5>1. j \in 1..Len(q)
            BY <1>3, <4>1 DEF q
          <5>2. j - d \in 1..(Len(q) - d) /\ (j - d) + d = j
            BY <1>3, <4>4, <5>1 DEF q
          <5>3. j - d \in DOMAIN m_queue'[s] /\ m_queue'[s][j - d] = q[j]
            BY <1>1, <5>2
          <5> QED BY <3>4, <4>1, <5>3
        <4> QED BY <4>3, <4>4
      <3> QED BY <3>1, <3>2, <3>3, <3>4
    <2> QED BY <1>2, <2>1 DEF WantedPlaced, OnItsWay, InQueue
  <1> QED
    BY <1>7, <1>8, <1>9, <1>10, <1>11, <1>12, <1>13 DEF IInv

-----------------------------------------------------------------------------
(* DataLoaders are answered or released, and queues emptied.               *)

\* DataLoaders stop waiting, the queues of the scenes S are emptied, and the
\* counts still cover those that wait.
Leaves(S) ==
  /\ request' \in Seq(RequestKind) /\ DOMAIN request' = DOMAIN request
  /\ \A r \in DOMAIN request :
       \/ request'[r] = request[r]
       \/ request'[r].answer # "waiting" /\ request'[r].file \in {request[r].file, Null}
  /\ file' \in Seq(FileKind) /\ DOMAIN file' = DOMAIN file
  /\ \A g \in DOMAIN file :
       /\ file'[g].state = file[g].state /\ file'[g].count <= file[g].count
       /\ file[g].state = "QUEUED" /\ file[g].count >= Cardinality(WaitingIn(request, g))
            => file'[g].count >= Cardinality(WaitingIn(request', g))
  /\ m_queue' = [s \in Scenes |-> IF s \in S THEN <<>> ELSE m_queue[s]]
  /\ \A r \in DOMAIN request : request'[r].answer = "waiting" => request[r].scene \notin S
  /\ UNCHANGED <<wfile, s_currentFile, starting, faults>>
  /\ pc' = pc \/ pc' = "exited"
  /\ pc \in {"frame", "failed"} /\ (pc = "failed" => S = Scenes)

\* Intervals from 1 with the same elements end at the same number.
LEMMA SameLength == ASSUME NEW m \in Nat, NEW n \in Nat, 1..m = 1..n PROVE m = n
  <1>1. m = 0 \/ m \in 1..n
    OBVIOUS
  <1>2. n = 0 \/ n \in 1..m
    OBVIOUS
  <1> QED BY <1>1, <1>2

\* What this keeps of the invariant.
LEMMA LeavesKeeps ==
  ASSUME IInv, NEW S, Leaves(S)
  PROVE  /\ file' \in Seq(FileKind) /\ request' \in Seq(RequestKind) /\ m_queue' \in [Scenes -> Seq(Nat)]
         /\ FilesExist' /\ CountsBounded' /\ QueuedOnce' /\ CountsCover' /\ WantedPlaced'
  <1>1. UNCHANGED <<wfile, s_currentFile, starting, faults>> /\ DOMAIN request' = DOMAIN request
        /\ DOMAIN file' = DOMAIN file
    BY DEF Leaves
  <1>2. \A s \in Scenes : (s \in S => m_queue'[s] = <<>>) /\ (s \notin S => m_queue'[s] = m_queue[s])
    BY DEF Leaves
  <1>3. m_queue' \in [Scenes -> Seq(Nat)]
    BY EmptySeq DEF Leaves, IInv, Kinds
  <1>4. \A s \in Scenes : \A i \in DOMAIN m_queue'[s] :
          s \notin S /\ i \in DOMAIN m_queue[s] /\ m_queue'[s] = m_queue[s]
    <2>1. DOMAIN <<>> = {}
      OBVIOUS
    <2> QED BY <1>2, <2>1
  <1>5. FilesExist'
    <2>1. \A r \in DOMAIN request : request'[r].file \in {request[r].file, Null}
      BY DEF Leaves
    <2> QED BY <1>1, <1>4, <2>1 DEF IInv, FilesExist
  <1>6. CountsBounded'
    <2>1. Len(request') = Len(request)
      <3>1. /\ Len(request') \in Nat /\ DOMAIN request' = 1..Len(request')
            /\ Len(request) \in Nat /\ DOMAIN request = 1..Len(request)
        BY LenProperties DEF Leaves, IInv, Kinds
      <3> QED BY <1>1, <3>1, SameLength
    <2>2. pc' \notin {"match", "return"}
      BY DEF Leaves
    <2>3. ASSUME NEW g \in DOMAIN file PROVE file'[g].count <= Len(request)
      <3>1. file'[g].count <= file[g].count /\ file[g].count <= Len(request)
        BY DEF Leaves, IInv, CountsBounded
      <3>2. file[g].count \in Nat /\ Len(request) \in Nat
        BY Indexed DEF IInv, FileKind
      <3>3. file'[g] \in FileKind
        BY <1>1, LenProperties, ElementOfSeq DEF Leaves
      <3>4. file'[g].count \in Nat
        BY <3>3 DEF FileKind
      <3> QED BY <3>1, <3>2, <3>4
    <2> QED BY <1>1, <2>1, <2>2, <2>3 DEF IInv, CountsBounded
  <1>7. QueuedOnce'
    BY <1>1, <1>4 DEF IInv, QueuedOnce, OnItsWay
  <1>8. CountsCover'
    <2>1. ASSUME NEW s \in Scenes, NEW i \in DOMAIN m_queue'[s], NEW g, g = m_queue'[s][i]
          PROVE file'[g].state = "QUEUED" /\ file'[g].count >= Cardinality(WaitingIn(request', g))
      <3>1. /\ g \in DOMAIN file /\ file[g].state = "QUEUED"
            /\ file[g].count >= Cardinality(WaitingIn(request, g))
        BY <1>4, <2>1 DEF IInv, FilesExist, CountsCover
      <3> QED BY <3>1 DEF Leaves
    <2> QED BY <2>1 DEF CountsCover
  <1>9. WantedPlaced'
    <2>1. ASSUME "restarted" \notin faults, NEW r \in DOMAIN request, request'[r].answer = "waiting",
                 request'[r].file # Null, file'[request'[r].file].state = "QUEUED"
          PROVE OnItsWay(request'[r].file)
                \/ \E i \in DOMAIN m_queue'[request'[r].scene] :
                     m_queue'[request'[r].scene][i] = request'[r].file
      <3>1. request'[r] = request[r] /\ request[r].scene \notin S
        BY <2>1 DEF Leaves
      <3>2. request[r].file \in DOMAIN file /\ request[r].scene \in Scenes
        BY <2>1, <3>1, Indexed DEF IInv, FilesExist, RequestKind
      <3>3. pc # "failed"
        BY <3>1, <3>2 DEF Leaves
      <3>4. file[request[r].file].state = "QUEUED"
        BY <2>1, <3>1, <3>2 DEF Leaves
      <3>5. OnItsWay(request[r].file) \/ InQueue(request[r].file, request[r].scene)
        BY <2>1, <3>1, <3>3, <3>4 DEF IInv, WantedPlaced
      <3>6. m_queue'[request[r].scene] = m_queue[request[r].scene]
        BY <1>2, <3>1, <3>2
      <3> QED BY <3>1, <3>5, <3>6 DEF InQueue
    <2> QED BY <1>1, <2>1 DEF WantedPlaced, OnItsWay, InQueue
  <1> QED
    BY <1>3, <1>5, <1>6, <1>7, <1>8, <1>9 DEF Leaves

\* Without Files there is nothing to cancel.
LEMMA CancelledNone == ASSUME Kinds, DOMAIN file = {}, NEW R PROVE Cancelled(R) = file
  <1>1. file = [f \in {} |-> file[f]]
    BY LenProperties DEF Kinds
  <1>2. ASSUME NEW c(_) PROVE [f \in {} |-> c(f)] = [f \in {} |-> file[f]]
    OBVIOUS
  <1> QED
    BY <1>1, <1>2 DEF Cancelled

\* cancelQueue takes as many from the count of a File as DataLoaders leave it.
LEMMA CancelledCovers ==
  ASSUME IInv, NEW R, R \subseteq DOMAIN request, \A r \in R : request[r].answer = "waiting",
         NEW req \in Seq(RequestKind), NEW g \in DOMAIN file,
         WaitingIn(req, g) \subseteq WaitingIn(request, g) \ R
  PROVE  /\ Cancelled(R) \in Seq(FileKind) /\ DOMAIN Cancelled(R) = DOMAIN file
         /\ Cancelled(R)[g].state = file[g].state /\ Cancelled(R)[g].count <= file[g].count
         /\ file[g].state = "QUEUED" /\ file[g].count >= Cardinality(WaitingIn(request, g))
              => Cancelled(R)[g].count >= Cardinality(WaitingIn(req, g))
  <1> DEFINE N(f) == Cardinality({r \in R : request[r].file = f})
             c(f) == IF file[f].state # "QUEUED" THEN file[f]
                     ELSE [file[f] EXCEPT !.count = IF @ > N(f) THEN @ - N(f) ELSE 0]
  <1>1. \A f : {r \in R : request[r].file = f} = WaitingIn(request, f) \cap R
    BY DEF WaitingIn
  <1>2. \A f : /\ IsFiniteSet(WaitingIn(request, f)) /\ Cardinality(WaitingIn(request, f)) \in Nat
    BY WaitingFinite DEF IInv, Kinds
  <1>3. ASSUME NEW f
        PROVE  /\ N(f) \in Nat
               /\ IsFiniteSet(WaitingIn(request, f) \ R)
               /\ Cardinality(WaitingIn(request, f) \ R) = Cardinality(WaitingIn(request, f)) - N(f)
    <2>1. IsFiniteSet(WaitingIn(request, f) \cap R)
      BY <1>2, FS_Intersection
    <2>2. Cardinality(WaitingIn(request, f) \cap R) \in Nat
      BY <2>1, FS_CardinalityType
    <2>3. IsFiniteSet(WaitingIn(request, f) \ R)
          /\ Cardinality(WaitingIn(request, f) \ R)
               = Cardinality(WaitingIn(request, f)) - Cardinality(WaitingIn(request, f) \cap R)
      BY <1>2, FS_Difference
    <2> QED BY <1>1, <2>2, <2>3
  <1>4. Cancelled(R) = [f \in DOMAIN file |-> c(f)]
    BY DEF Cancelled
  <1> HIDE DEF N
  <1>5. ASSUME NEW f \in DOMAIN file
        PROVE  /\ c(f) \in FileKind /\ c(f).state = file[f].state
               /\ c(f).count <= file[f].count
               /\ file[f].state = "QUEUED" => c(f).count = IF file[f].count > N(f) THEN file[f].count - N(f) ELSE 0
    <2>1. file[f] \in FileKind /\ file[f].count \in Nat /\ N(f) \in Nat
      BY <1>3, Indexed DEF IInv, FileKind
    <2>2. (IF file[f].count > N(f) THEN file[f].count - N(f) ELSE 0) \in 0..file[f].count
      BY <2>1
    <2> QED BY <2>1, <2>2 DEF FileKind
  <1> HIDE DEF c
  <1>6. Cancelled(R) \in Seq(FileKind) /\ DOMAIN Cancelled(R) = DOMAIN file
    BY <1>4, <1>5, Indexed, IsSequence DEF IInv
  <1>7. Cancelled(R)[g] = c(g)
    BY <1>4
  <1>8. ASSUME file[g].state = "QUEUED", file[g].count >= Cardinality(WaitingIn(request, g))
        PROVE  c(g).count >= Cardinality(WaitingIn(req, g))
    <2>1. Cardinality(WaitingIn(req, g)) <= Cardinality(WaitingIn(request, g) \ R)
      BY <1>3, FS_Subset
    <2>2. Cardinality(WaitingIn(req, g)) \in Nat
      BY WaitingFinite
    <2>3. Cardinality(WaitingIn(request, g) \ R) = Cardinality(WaitingIn(request, g)) - N(g) /\ N(g) \in Nat
      BY <1>3
    <2>4. file[g].count \in Nat /\ Cardinality(WaitingIn(request, g)) \in Nat
      BY <1>2, Indexed DEF IInv, FileKind
    <2>5. c(g).count = IF file[g].count > N(g) THEN file[g].count - N(g) ELSE 0
      BY <1>5, <1>8
    <2> QED BY <1>8, <2>1, <2>2, <2>3, <2>4, <2>5
  <1> QED BY <1>5, <1>6, <1>7, <1>8

\* The canvas answers the DataLoaders.
LEMMA CheckKeeps == ASSUME IInv, Check PROVE IInv'
  <1>1. /\ pc = "frame"
        /\ UNCHANGED <<file, m_queue, s_currentFile, s_t, s_quit, wpc, wfile, waitOn, interrupted,
                       pc, asked, starting, faults>>
    BY DEF Check, statics, workers, canvas
  <1>2. request' = [r \in DOMAIN request |->
          IF Answer(r) = request[r].answer THEN request[r]
          ELSE [request[r] EXCEPT !.answer = Answer(r), !.file = Null]]
    BY DEF Check
  <1>3. ASSUME NEW r \in DOMAIN request
        PROVE  /\ request'[r] \in RequestKind
               /\ \/ request'[r] = request[r]
                  \/ request'[r].answer # "waiting" /\ request'[r].file = Null
    <2>1. request[r] \in RequestKind
      BY Indexed DEF IInv
    <2>2. Answer(r) = request[r].answer \/ Answer(r) \in {"dropped", "data", "error"}
      BY DEF Answer
    <2>3. CASE Answer(r) = request[r].answer
      BY <1>2, <2>1, <2>3
    <2>4. CASE Answer(r) # request[r].answer
      <3>1. request'[r] = [request[r] EXCEPT !.answer = Answer(r), !.file = Null]
        BY <1>2, <2>4
      <3> DEFINE x == Answer(r)
      <3>2. x \in Answers /\ x # "waiting" /\ Null \in Nat
        BY <2>1, <2>2, <2>4 DEF Answers, Null
      <3> HIDE DEF x
      <3>3. [request[r] EXCEPT !.answer = x, !.file = Null] \in RequestKind
        BY <2>1, <3>2 DEF RequestKind
      <3>4. /\ [request[r] EXCEPT !.answer = x, !.file = Null].answer = x
            /\ [request[r] EXCEPT !.answer = x, !.file = Null].file = Null
        BY <2>1 DEF RequestKind
      <3> QED BY <3>1, <3>2, <3>3, <3>4 DEF x
    <2> QED BY <2>3, <2>4
  <1>4. request' \in Seq(RequestKind) /\ DOMAIN request' = DOMAIN request
    BY <1>2, <1>3, Indexed, IsSequence DEF IInv
  <1>5. ASSUME NEW g PROVE Cardinality(WaitingIn(request', g)) <= Cardinality(WaitingIn(request, g))
    <2>1. WaitingIn(request', g) \subseteq WaitingIn(request, g)
      BY <1>3, <1>4 DEF WaitingIn
    <2> QED BY <2>1, WaitingFinite, FS_Subset DEF IInv, Kinds
  <1>6. ASSUME NEW g \in DOMAIN file, file[g].count >= Cardinality(WaitingIn(request, g))
        PROVE  file[g].count >= Cardinality(WaitingIn(request', g))
    <2>1. /\ file[g].count \in Nat /\ Cardinality(WaitingIn(request, g)) \in Nat
          /\ Cardinality(WaitingIn(request', g)) \in Nat
      BY <1>4, WaitingFinite, Indexed DEF IInv, Kinds, FileKind
    <2> QED BY <1>5, <1>6, <2>1
  <1>7. m_queue' = [s \in Scenes |-> IF s \in {} THEN <<>> ELSE m_queue[s]]
    BY <1>1 DEF IInv, Kinds
  <1>8. file' \in Seq(FileKind) /\ \A g \in DOMAIN file : file[g].count <= file[g].count
    BY <1>1, Indexed DEF IInv, Kinds, FileKind
  <1>9. Leaves({})
    BY <1>1, <1>3, <1>4, <1>6, <1>7, <1>8 DEF Leaves
  <1>10. blacklist' \in [Scenes -> SUBSET Urls]
    <2>1. \A r \in DOMAIN request : request[r].url \in Urls
      BY Indexed DEF IInv, RequestKind
    <2> DEFINE E(s) == {request[r].url : r \in {q \in DOMAIN request :
                           request[q].scene = s /\ Listed(q) /\ Answer(q) = "error"}}
    <2>2. \A s : E(s) \subseteq Urls
      BY <2>1
    <2>3. blacklist' = [s \in Scenes |-> blacklist[s] \cup E(s)]
      BY DEF Check
    <2> HIDE DEF E
    <2> QED BY <2>2, <2>3 DEF IInv, Kinds
  <1>11. Kinds'
    BY <1>1, <1>9, <1>10, LeavesKeeps DEF IInv, Kinds
  <1>12. ThreadsHoldFiles' /\ HandOver' /\ OneThread'
    BY <1>1 DEF IInv, ThreadsHoldFiles, HandOver, OneThread, Alive
  <1> QED
    BY <1>9, <1>11, <1>12, LeavesKeeps DEF IInv

\* An ImageTexture releases its loader.
LEMMA ReleaseKeeps == ASSUME IInv, Release PROVE IInv'
  <1>1. PICK d \in DOMAIN request :
          /\ request[d].answer = "waiting" /\ file' = Cancelled({d})
          /\ request' = [request EXCEPT ![d].answer = "released", ![d].file = Null]
    BY DEF Release
  <1>2. /\ pc = "frame"
        /\ UNCHANGED <<m_queue, blacklist, s_currentFile, s_t, s_quit, wpc, wfile, waitOn,
                       interrupted, pc, asked, starting, faults>>
    BY DEF Release, statics, workers, canvas
  <1> DEFINE e == [request[d] EXCEPT !.answer = "released", !.file = Null]
  <1>3. request[d] \in RequestKind /\ request \in Seq(RequestKind) /\ DOMAIN request = 1..Len(request)
    BY Indexed DEF IInv, Kinds
  <1>4. e \in RequestKind /\ e.answer = "released" /\ e.file = Null
    BY <1>3 DEF RequestKind, Answers, Null
  <1>5. request' = [request EXCEPT ![d] = e]
    BY <1>1
  <1> HIDE DEF e
  <1>6. /\ request' \in Seq(RequestKind) /\ DOMAIN request' = DOMAIN request
        /\ request'[d] = e /\ \A r \in DOMAIN request : r # d => request'[r] = request[r]
    BY <1>3, <1>4, <1>5, ExceptSeq
  <1>7. \A r \in DOMAIN request :
          \/ request'[r] = request[r]
          \/ request'[r].answer # "waiting" /\ request'[r].file \in {request[r].file, Null}
    <2>1. ASSUME NEW r \in DOMAIN request
          PROVE \/ request'[r] = request[r]
                \/ request'[r].answer # "waiting" /\ request'[r].file \in {request[r].file, Null}
      <3>1. CASE r = d
        BY <1>4, <1>6, <3>1
      <3>2. CASE r # d
        BY <1>6, <3>2
      <3> QED BY <3>1, <3>2
    <2> QED BY <2>1
  <1>8. ASSUME NEW g PROVE WaitingIn(request', g) \subseteq WaitingIn(request, g) \ {d}
    <2>1. ASSUME NEW r \in WaitingIn(request', g) PROVE r \in WaitingIn(request, g) /\ r # d
      BY <1>4, <1>6, <2>1 DEF WaitingIn
    <2> QED BY <2>1
  <1>9. /\ file' \in Seq(FileKind) /\ DOMAIN file' = DOMAIN file
        /\ \A g \in DOMAIN file :
             /\ file'[g].state = file[g].state /\ file'[g].count <= file[g].count
             /\ file[g].state = "QUEUED" /\ file[g].count >= Cardinality(WaitingIn(request, g))
                  => file'[g].count >= Cardinality(WaitingIn(request', g))
    <2>1. {d} \subseteq DOMAIN request /\ \A r \in {d} : request[r].answer = "waiting"
      BY <1>1
    <2>2. CASE DOMAIN file = {}
      <3>1. file' = file
        BY <1>1, <2>2, CancelledNone DEF IInv
      <3> QED BY <2>2, <3>1 DEF IInv, Kinds
    <2>3. ASSUME NEW g \in DOMAIN file
          PROVE  /\ file' \in Seq(FileKind) /\ DOMAIN file' = DOMAIN file
                 /\ file'[g].state = file[g].state /\ file'[g].count <= file[g].count
                 /\ file[g].state = "QUEUED" /\ file[g].count >= Cardinality(WaitingIn(request, g))
                      => file'[g].count >= Cardinality(WaitingIn(request', g))
      BY ZenonT(60), <1>1, <1>6, <1>8, <2>1, CancelledCovers
    <2> QED BY <2>2, <2>3
  <1>10. m_queue' = [s \in Scenes |-> IF s \in {} THEN <<>> ELSE m_queue[s]]
    BY <1>2 DEF IInv, Kinds
  <1>11. Leaves({})
    BY <1>2, <1>6, <1>7, <1>9, <1>10 DEF Leaves
  <1>12. Kinds'
    BY <1>2, <1>11, LeavesKeeps DEF IInv, Kinds
  <1>13. ThreadsHoldFiles'
    BY <1>2, <1>9 DEF IInv, ThreadsHoldFiles, FilesExist
  <1>14. HandOver' /\ OneThread'
    BY <1>2 DEF IInv, HandOver, OneThread, Alive
  <1> QED
    BY <1>11, <1>12, <1>13, <1>14, LeavesKeeps DEF IInv

\* Scenes are stopped, with what else the step does to the other variables.
LEMMA StopScenesLeaves ==
  ASSUME IInv, NEW S \in SUBSET Scenes, StopScenes(S),
         UNCHANGED <<wfile, s_currentFile, starting, faults>>,
         pc' = pc \/ pc' = "exited", pc \in {"frame", "failed"}, pc = "failed" => S = Scenes
  PROVE  /\ Leaves(S) /\ blacklist' \in [Scenes -> SUBSET Urls]
         /\ \A g \in DOMAIN file : file'[g].state = file[g].state
  <1> DEFINE R == {r \in DOMAIN request : request[r].answer = "waiting" /\ request[r].scene \in S}
  <1>1. PICK L \in SUBSET R :
          /\ file' = Cancelled(R \ L)
          /\ request' = [r \in DOMAIN request |->
               IF r \notin R THEN request[r]
               ELSE IF r \in L THEN [request[r] EXCEPT !.answer = "left"]
               ELSE [request[r] EXCEPT !.answer = "released", !.file = Null]]
    BY DEF StopScenes
  <1>2. ASSUME NEW r \in DOMAIN request
        PROVE  /\ request'[r] \in RequestKind
               /\ r \notin R => request'[r] = request[r]
               /\ r \in R => request'[r].answer # "waiting" /\ request'[r].file \in {request[r].file, Null}
    <2>1. request[r] \in RequestKind
      BY Indexed DEF IInv
    <2> HIDE DEF R
    <2>2. CASE r \notin R
      BY <1>1, <2>1, <2>2
    <2>3. CASE r \in L
      <3>1. request'[r] = [request[r] EXCEPT !.answer = "left"]
        BY <1>1, <2>3
      <3> QED BY <2>1, <2>3, <3>1 DEF RequestKind, Answers
    <2>4. CASE r \in R \ L
      <3>1. request'[r] = [request[r] EXCEPT !.answer = "released", !.file = Null]
        BY <1>1, <2>4
      <3>2. [request[r] EXCEPT !.answer = "released", !.file = Null] \in RequestKind
        BY <2>1 DEF RequestKind, Answers, Null
      <3>3. /\ [request[r] EXCEPT !.answer = "released", !.file = Null].answer = "released"
            /\ [request[r] EXCEPT !.answer = "released", !.file = Null].file = Null
        BY <2>1 DEF RequestKind
      <3> QED BY <2>4, <3>1, <3>2, <3>3
    <2> QED BY <2>2, <2>3, <2>4
  <1>3. request' \in Seq(RequestKind) /\ DOMAIN request' = DOMAIN request
    <2> HIDE DEF R
    <2> QED BY <1>1, <1>2, Indexed, IsSequence DEF IInv
  <1>4. \A r \in DOMAIN request : request'[r].answer = "waiting" => request[r].scene \notin S
    BY <1>2
  <1>5. ASSUME NEW g PROVE WaitingIn(request', g) \subseteq WaitingIn(request, g) \ (R \ L)
    <2> HIDE DEF R
    <2> QED BY <1>2, <1>3 DEF WaitingIn
  <1>6. /\ file' \in Seq(FileKind) /\ DOMAIN file' = DOMAIN file
        /\ \A g \in DOMAIN file :
             /\ file'[g].state = file[g].state /\ file'[g].count <= file[g].count
             /\ file[g].state = "QUEUED" /\ file[g].count >= Cardinality(WaitingIn(request, g))
                  => file'[g].count >= Cardinality(WaitingIn(request', g))
    <2>1. R \ L \subseteq DOMAIN request /\ \A r \in R \ L : request[r].answer = "waiting"
      OBVIOUS
    <2> HIDE DEF R
    <2>2. CASE DOMAIN file = {}
      <3>1. file' = file
        BY <1>1, <2>2, CancelledNone DEF IInv
      <3> QED BY <2>2, <3>1 DEF IInv, Kinds
    <2>3. ASSUME NEW g \in DOMAIN file
          PROVE  /\ file' \in Seq(FileKind) /\ DOMAIN file' = DOMAIN file
                 /\ file'[g].state = file[g].state /\ file'[g].count <= file[g].count
                 /\ file[g].state = "QUEUED" /\ file[g].count >= Cardinality(WaitingIn(request, g))
                      => file'[g].count >= Cardinality(WaitingIn(request', g))
      BY <1>1, <1>3, <1>5, <2>1, CancelledCovers
    <2> QED BY <2>2, <2>3
  <1>7. m_queue' = [s \in Scenes |-> IF s \in S THEN <<>> ELSE m_queue[s]]
        /\ blacklist' = [s \in Scenes |-> IF s \in S THEN {} ELSE blacklist[s]]
    BY DEF StopScenes
  <1>8. blacklist' \in [Scenes -> SUBSET Urls]
    BY <1>7 DEF IInv, Kinds
  <1>9. \A r \in DOMAIN request :
          \/ request'[r] = request[r]
          \/ request'[r].answer # "waiting" /\ request'[r].file \in {request[r].file, Null}
    <2> HIDE DEF R
    <2> QED BY <1>2
  <1> HIDE DEF R
  <1> QED
    BY <1>3, <1>4, <1>6, <1>7, <1>8, <1>9 DEF Leaves

\* A scene is stopped while the others go on.
LEMMA StopSceneKeeps == ASSUME IInv, StopScene PROVE IInv'
  <1>1. PICK s \in Scenes : StopScenes({s})
    BY DEF StopScene
  <1>2. /\ pc = "frame"
        /\ UNCHANGED <<s_currentFile, s_t, s_quit, wpc, wfile, waitOn, interrupted, pc, asked,
                       starting, faults>>
    BY DEF StopScene, statics, workers, canvas
  <1>3. /\ Leaves({s}) /\ blacklist' \in [Scenes -> SUBSET Urls]
        /\ \A g \in DOMAIN file : file'[g].state = file[g].state
    BY <1>1, <1>2, StopScenesLeaves
  <1>4. Kinds'
    BY <1>2, <1>3, LeavesKeeps DEF IInv, Kinds
  <1>5. ThreadsHoldFiles'
    BY <1>2, <1>3 DEF IInv, ThreadsHoldFiles, FilesExist
  <1>6. HandOver' /\ OneThread'
    BY <1>2 DEF IInv, HandOver, OneThread, Alive
  <1> QED
    BY <1>3, <1>4, <1>5, <1>6, LeavesKeeps DEF IInv

\* The application ends: every scene is stopped, and the thread is told.
LEMMA ExitKeeps == ASSUME IInv, Exit PROVE IInv'
  <1>1. /\ pc \in {"frame", "failed"} /\ pc' = "exited" /\ StopScenes(Scenes)
        /\ UNCHANGED <<s_currentFile, wfile, asked, starting, faults>>
    BY DEF Exit
  <1>2. /\ Leaves(Scenes) /\ blacklist' \in [Scenes -> SUBSET Urls]
        /\ \A g \in DOMAIN file : file'[g].state = file[g].state
    BY <1>1, StopScenesLeaves
  <1>3. /\ wpc' \in [Workers -> Points] /\ waitOn' \in [Workers -> Workers \cup {Null}]
        /\ interrupted' \in [Workers -> BOOLEAN]
        /\ s_t' = Null /\ s_quit' \in BOOLEAN
        /\ \A v \in Workers : \/ wpc'[v] = wpc[v] /\ waitOn'[v] = waitOn[v]
                              \/ wpc[v] = "waiting" /\ wpc'[v] = "loop" /\ waitOn'[v] = Null
    <2>1. CASE s_t = Null
      BY <2>1 DEF Exit, IInv, Kinds
    <2>2. CASE s_t # Null /\ wpc[s_t] = "waiting"
      BY <2>2 DEF Exit, IInv, Kinds, Points
    <2>3. CASE s_t # Null /\ wpc[s_t] # "waiting"
      <3>1. interrupted' \in [Workers -> BOOLEAN] /\ s_t' = Null /\ s_quit' \in BOOLEAN /\ Notify(s_t)
        BY <2>3 DEF Exit, IInv, Kinds
      <3>2. CASE UNCHANGED <<wpc, waitOn>>
        BY <3>1, <3>2 DEF IInv, Kinds
      <3>3. CASE \E w \in Workers : /\ wpc[w] = "waiting"
                                     /\ wpc' = [wpc EXCEPT ![w] = "loop"]
                                     /\ waitOn' = [waitOn EXCEPT ![w] = Null]
        BY <3>1, <3>3 DEF IInv, Kinds, Points
      <3> QED BY <3>1, <3>2, <3>3 DEF Notify
    <2> QED BY <2>1, <2>2, <2>3 DEF IInv, Kinds
  <1>4. Kinds'
    BY <1>1, <1>2, <1>3, LeavesKeeps DEF IInv, Kinds, Places
  <1>5. ThreadsHoldFiles'
    BY <1>1, <1>2, <1>3 DEF IInv, ThreadsHoldFiles, FilesExist
  <1>6. HandOver'
    BY <1>1 DEF IInv, HandOver
  <1>7. OneThread'
    BY <1>1, <1>3 DEF IInv, OneThread, Alive
  <1> QED
    BY <1>2, <1>4, <1>5, <1>6, <1>7, LeavesKeeps DEF IInv

-----------------------------------------------------------------------------
\* Nothing has been asked for.
LEMMA InitIInv == Init => IInv
  <1> SUFFICES ASSUME Init PROVE IInv
    OBVIOUS
  <1>1. /\ DOMAIN file = {} /\ DOMAIN request = {} /\ \A s \in Scenes : DOMAIN m_queue[s] = {}
        /\ Len(request) = 0
    BY DEF Init
  <1>2. Kinds
    <2>1. <<>> \in Seq(FileKind) /\ <<>> \in Seq(RequestKind) /\ <<>> \in Seq(Nat)
      BY EmptySeq
    <2>2. m_queue \in [Scenes -> Seq(Nat)] /\ file \in Seq(FileKind) /\ request \in Seq(RequestKind)
      BY <2>1 DEF Init
    <2>3. /\ wpc \in [Workers -> Points] /\ waitOn \in [Workers -> Workers \cup {Null}]
          /\ wfile \in [Workers -> Nat] /\ interrupted \in [Workers -> BOOLEAN]
      BY DEF Init, Points, Null
    <2>4. /\ blacklist \in [Scenes -> SUBSET Urls] /\ s_t = Null /\ s_quit = FALSE
          /\ pc = "frame" /\ s_currentFile = 0 /\ starting = 0 /\ faults = {}
      BY DEF Init, Null
    <2>5. s_t \in Workers \cup {Null} /\ pc \in Places /\ faults \subseteq FaultKinds
      BY <2>4 DEF Places
    <2>6. {s_currentFile, starting} \subseteq Nat
      BY <2>4
    <2>7. s_quit \in BOOLEAN
      BY <2>4, Zenon
    <2>8. pc \notin {"match", "return"}
      BY <2>4
    <2> QED BY <2>2, <2>3, <2>4, <2>5, <2>6, <2>7, <2>8 DEF Kinds
  <1>3. CountsBounded
    BY <1>1, BoundsAssumption DEF Init, CountsBounded
  <1>4. FilesExist /\ ThreadsHoldFiles /\ HandOver /\ OneThread
    BY <1>1 DEF Init, FilesExist, ThreadsHoldFiles, HandOver, OneThread, Alive, Null
  <1>5. QueuedOnce /\ CountsCover /\ WantedPlaced
    BY <1>1 DEF QueuedOnce, CountsCover, WantedPlaced
  <1> QED
    BY <1>2, <1>3, <1>4, <1>5 DEF IInv

\* Every step keeps the invariant.
LEMMA StepKeepsIInv == IInv /\ [Next]_vars => IInv'
  <1> SUFFICES ASSUME IInv, [Next]_vars PROVE IInv'
    OBVIOUS
  <1>1. CASE Canvas
    BY <1>1, LoadNextKeeps, MatchKeeps, ReturnKeeps, NewThreadKeeps, WakeThreadKeeps, CheckKeeps,
       ExitKeeps DEF Canvas
  <1>2. CASE Request \/ Release \/ StopScene \/ Exit \/ StartAgain
    BY <1>2, RequestKeeps, ReleaseKeeps, StopSceneKeeps, ExitKeeps, StartAgainKeeps
  <1>3. ASSUME NEW w \in Workers, Run(w) \/ Dies(w) \/ SpuriousWakeUp(w) PROVE IInv'
    BY <1>3, LoopKeeps, OpenKeeps, LoadedKeeps, ClearKeeps, LockKeeps, DeadKeeps, DiesKeeps,
       SpuriousWakeUpKeeps DEF Run
  <1>4. CASE UNCHANGED vars
    BY <1>4 DEF vars, IInv, Kinds, FilesExist, CountsBounded, ThreadsHoldFiles, HandOver, OneThread,
                Alive, QueuedOnce, OnItsWay, CountsCover, WantedPlaced, InQueue
  <1> QED
    BY <1>1, <1>2, <1>3, <1>4 DEF Next

LEMMA Invariance == Spec => []IInv
  BY InitIInv, StepKeepsIInv, PTL DEF Spec

\* What the invariant says of the kinds of values.
LEMMA IInvTypes == IInv => TypeOK
  <1> SUFFICES ASSUME IInv PROVE TypeOK
    OBVIOUS
  <1>1. ASSUME NEW f \in DOMAIN file
        PROVE  /\ file[f].url \in Urls /\ file[f].count \in 0..MaxRequests
               /\ file[f].state \in {"QUEUED", "LOADING", "LOADED", "ERROR"}
    <2>1. file[f] \in FileKind /\ Len(request) \in Nat
      BY Indexed DEF IInv
    <2>2. file[f].count <= Len(request) /\ Len(request) <= MaxRequests
      BY DEF IInv, CountsBounded
    <2> QED BY <2>1, <2>2, BoundsAssumption DEF FileKind, States
  <1>2. ASSUME NEW r \in DOMAIN request
        PROVE  request[r].answer \in {"waiting", "left", "data", "error", "released", "dropped"}
    BY Indexed DEF IInv, RequestKind, Answers
  <1>3. /\ \A s \in Scenes : \A i \in DOMAIN m_queue[s] : m_queue[s][i] \in DOMAIN file
        /\ {s_currentFile, starting} \subseteq DOMAIN file \cup {Null}
        /\ \A w \in Workers : wfile[w] \in DOMAIN file \cup {Null}
    BY DEF IInv, FilesExist
  <1>4. \A w \in Workers : (wpc[w] = "waiting") = (waitOn[w] # Null)
    BY DEF IInv, ThreadsHoldFiles
  <1> QED
    BY <1>1, <1>2, <1>3, <1>4 DEF TypeOK, IInv, Kinds, Points, Places

\* A File that is waited for has a positive count.
LEMMA IInvWanted == IInv => NoWantedFileDropped
  <1> SUFFICES ASSUME IInv, NEW r \in DOMAIN request, request[r].answer = "waiting",
                      request[r].file # Null, file[request[r].file].state = "QUEUED",
                      "restarted" \notin faults, pc # "failed"
               PROVE  \/ OnItsWay(request[r].file)
                      \/ file[request[r].file].count > 0 /\ InQueue(request[r].file, request[r].scene)
    BY DEF NoWantedFileDropped, OnItsWay, InQueue
  <1> DEFINE f == request[r].file
  <1>1. OnItsWay(f) \/ InQueue(f, request[r].scene)
    BY DEF IInv, WantedPlaced
  <1>2. ASSUME InQueue(f, request[r].scene) PROVE file[f].count > 0
    <2>1. f \in DOMAIN file /\ request[r].scene \in Scenes
      BY Indexed DEF IInv, FilesExist, RequestKind
    <2>2. file[f].count >= Cardinality(WaitingIn(request, f))
      BY <1>2, <2>1 DEF IInv, CountsCover, InQueue
    <2>3. r \in WaitingIn(request, f)
      BY DEF WaitingIn
    <2>4. IsFiniteSet(WaitingIn(request, f)) /\ Cardinality(WaitingIn(request, f)) \in Nat
      BY WaitingFinite DEF IInv, Kinds
    <2>5. Cardinality(WaitingIn(request, f)) # 0
      BY <2>3, <2>4, FS_EmptySet
    <2>6. file[f].count \in Nat
      BY <2>1, Indexed DEF IInv, FileKind
    <2> HIDE DEF f
    <2> QED BY <2>2, <2>4, <2>5, <2>6
  <1> QED
    BY <1>1, <1>2

\* Every variable keeps values of its kind; no File is counted more often than
\* there may be DataLoaders.
THEOREM TypesKept == Spec => []TypeOK
  BY Invariance, IInvTypes, PTL

\* No File that a DataLoader waits for is dropped by popQueue, cancelQueue, the
\* hand over to the thread or its end, until the application was started again
\* while a thread of the last session was alive.
THEOREM WantedFilesAreKept == Spec => []NoWantedFileDropped
  BY Invariance, IInvWanted, PTL

=============================================================================
