-------------------------- MODULE TaskQueueProofs --------------------------
(***************************************************************************)
(* Theorems about TaskQueue, for any number of tasks, indices and          *)
(* listeners: type correctness, mutual exclusion of the two threads, and   *)
(* that the queue implements SerialExecutor: no task is lost or queued     *)
(* twice, and every step of the two threads is a step of the executor or   *)
(* leaves it as it is.                                                     *)
(***************************************************************************)
EXTENDS TaskQueue, SequenceTheorems, TLAPS

LEMMA InitType == Init => TypeOK
  <1> SUFFICES ASSUME Init PROVE TypeOK
    OBVIOUS
  <1>1. m_state \in QueueStates /\ queue \in Seq(Tasks)
    BY DEF Init, QueueStates
  <1>5. pauseThread \in BOOLEAN
    BY DEF Init
  <1>2. /\ s_tasks \in [Slots -> Tasks \cup {NoTask}]
        /\ cur \in [Threads -> Tasks \cup {NoTask}]
        /\ pc \in [Threads -> Executing \cup
               {"none", "take", "waiting", "woken", "idle", "resume", "canceled", "dead"}]
    BY DEF Init, Threads
  <1>3. /\ taskState \in [Tasks -> TaskStates]
        /\ result \in [Tasks -> Results]
        /\ listeners \in [Tasks -> SUBSET Listeners]
    BY DEF Init, TaskStates, Results
  <1>4. /\ tlc \in [Listeners ->
              [task: Tasks \cup {NoTask}, id: Slots \cup {0},
               signal: Signals \cup {"none"}, param: TaskStates]]
        /\ callbacks \subseteq [listener: Listeners, state: TaskStates]
    BY DEF Init, NoCb, TaskStates
  <1> QED BY <1>1, <1>2, <1>3, <1>4, <1>5 DEF TypeOK

\* setState keeps the types of the variables it writes.
LEMMA SetStateType ==
  ASSUME TypeOK, NEW t \in Tasks, NEW s \in TaskStates, SetState(t, s)
  PROVE  /\ taskState' \in [Tasks -> TaskStates]
         /\ tlc' \in [Listeners ->
              [task: Tasks \cup {NoTask}, id: Slots \cup {0},
               signal: Signals \cup {"none"}, param: TaskStates]]
         /\ callbacks' \subseteq [listener: Listeners, state: TaskStates]
  <1>1. taskState' \in [Tasks -> TaskStates]
    BY DEF TypeOK, SetState
  <1>2. callbacks' \subseteq [listener: Listeners, state: TaskStates]
    BY DEF TypeOK, SetState
  <1>3. tlc' \in [Listeners ->
              [task: Tasks \cup {NoTask}, id: Slots \cup {0},
               signal: Signals \cup {"none"}, param: TaskStates]]
    BY DEF TypeOK, SetState
  <1> QED BY <1>1, <1>2, <1>3

\* A thread that is executing, or waits to execute, has a task in hand.
HasTask ==
  /\ \A p \in Threads : pc[p] \in Executing => cur[p] \in Tasks
  /\ pc["main"] \in {"waiting", "woken"} => cur["main"] \in Tasks

\* The handshake on m_state: whoever has seen PAUSED or STOPPED knows that the
\* worker waits, or has never been started.
Handshake ==
  /\ m_state = "PAUSED" => pc["worker"] = "waiting"
  /\ m_state = "STOPPED" => pc["worker"] = "none"
  /\ pc["main"] \in Executing \cup {"woken", "resume"} => m_state \in {"PAUSED", "STOPPED"}

IInv == TypeOK /\ HasTask /\ Handshake

LEMMA InitIInv == Init => IInv
  <1> SUFFICES ASSUME Init PROVE IInv
    OBVIOUS
  <1>1. TypeOK
    BY InitType
  <1>2. HasTask /\ Handshake
    BY DEF Init, HasTask, Handshake, Threads, Executing
  <1> QED BY <1>1, <1>2 DEF IInv

LEMMA HandshakeExcludes == IInv => NoConcurrentJobs
  BY DEF IInv, Handshake, NoConcurrentJobs, Executing

-----------------------------------------------------------------------------
(* Sequences from which an element is removed.                             *)

LEMMA Removed ==
  ASSUME NEW q \in Seq(Tasks), NEW i \in 1 .. Len(q)
  PROVE  /\ RemoveAt(q, i) \in Seq(Tasks) /\ Len(RemoveAt(q, i)) = Len(q) - 1
         /\ \A k \in 1 .. Len(q) - 1 : RemoveAt(q, i)[k] = IF k < i THEN q[k] ELSE q[k + 1]
  <1> DEFINE a == SubSeq(q, 1, i - 1)
             b == SubSeq(q, i + 1, Len(q))
  <1>1. Len(q) \in Nat /\ i \in 1 .. Len(q) /\ RemoveAt(q, i) = a \o b
    BY LenProperties DEF RemoveAt
  <1>2. a \in Seq(Tasks) /\ Len(a) = i - 1 /\ \A k \in 1 .. i - 1 : a[k] = q[k]
    <2>1. 1 \in 1 .. Len(q) + 1 /\ i - 1 \in 1 - 1 .. Len(q)
      BY <1>1
    <2> QED BY <1>1, <2>1, SubSeqProperties
  <1>3. b \in Seq(Tasks) /\ Len(b) = Len(q) - i /\ \A k \in 1 .. Len(q) - i : b[k] = q[k + i]
    <2>1. i + 1 \in 1 .. Len(q) + 1 /\ Len(q) \in (i + 1) - 1 .. Len(q)
      BY <1>1
    <2> QED BY <1>1, <2>1, SubSeqProperties
  <1> HIDE DEF a, b
  <1>4. /\ a \o b \in Seq(Tasks) /\ Len(a \o b) = Len(a) + Len(b)
        /\ \A k \in 1 .. Len(a) + Len(b) : (a \o b)[k] = IF k <= Len(a) THEN a[k] ELSE b[k - Len(a)]
    BY <1>2, <1>3, ConcatProperties
  <1>5. ASSUME NEW k \in 1 .. Len(q) - 1
        PROVE  (a \o b)[k] = IF k < i THEN q[k] ELSE q[k + 1]
    <2>1. CASE k < i
      BY <1>1, <1>2, <1>3, <1>4, <1>5, <2>1
    <2>2. CASE k >= i
      <3> DEFINE n == k - (i - 1)
      <3>1. n \in 1 .. Len(q) - i /\ n + i = k + 1
        BY <1>1, <1>5, <2>2
      <3>2. (a \o b)[k] = b[n]
        BY <1>1, <1>2, <1>3, <1>4, <1>5, <2>2
      <3> HIDE DEF n
      <3>3. b[n] = q[n + i]
        BY <1>3, <3>1
      <3>4. (a \o b)[k] = q[k + 1]
        BY <3>1, <3>2, <3>3
      <3>5. ~(k < i)
        BY <1>1, <1>5, <2>2
      <3> QED BY <3>4, <3>5
    <2>3. k < i \/ k >= i
      BY <1>1, <1>5
    <2> QED BY <2>1, <2>2, <2>3
  <1> QED BY <1>1, <1>2, <1>3, <1>4, <1>5

LEMMA TailRemoves == ASSUME NEW q \in Seq(Tasks), q # <<>>
                     PROVE  Tail(q) = RemoveAt(q, 1) /\ Head(q) = q[1] /\ 1 \in 1 .. Len(q)
  <1>1. Len(q) \in Nat \ {0}
    BY EmptySeq
  <1>2. 1 \in 1 .. Len(q)
    BY <1>1
  <1>3. /\ Tail(q) \in Seq(Tasks) /\ Len(Tail(q)) = Len(q) - 1
        /\ \A i \in 1 .. Len(Tail(q)) : Tail(q)[i] = q[i + 1]
    BY HeadTailProperties
  <1>4. /\ RemoveAt(q, 1) \in Seq(Tasks) /\ Len(RemoveAt(q, 1)) = Len(q) - 1
        /\ \A k \in 1 .. Len(q) - 1 : RemoveAt(q, 1)[k] = IF k < 1 THEN q[k] ELSE q[k + 1]
    BY <1>2, Removed
  <1>5. \A k \in 1 .. Len(q) - 1 : RemoveAt(q, 1)[k] = q[k + 1]
    BY <1>1, <1>4
  <1>6. Tail(q) = RemoveAt(q, 1)
    BY <1>3, <1>4, <1>5, SeqEqual
  <1> QED BY <1>1, <1>2, <1>6

\* What Link.remove leaves is a list of tasks.
LEMMA RemoveLinkType ==
  ASSUME TypeOK, NEW t, ~RemoveOverflows(t), taskState[t] = "READY", RemoveLink(t)
  PROVE  queue' \in Seq(Tasks)
  <1> queue \in Seq(Tasks)
    BY DEF TypeOK
  <1>1. CASE queue = <<>>
    BY <1>1 DEF RemoveLink
  <1>2. CASE queue # <<>> /\ Last(queue) = t
    <2>1. Tail(queue) \in Seq(Tasks) /\ Head(queue) \in Tasks
      BY <1>2, HeadTailProperties
    <2>2. Append(Tail(queue), Head(queue)) \in Seq(Tasks)
      BY <2>1, AppendProperties
    <2> QED BY <1>2, <2>2 DEF RemoveLink
  <1>3. CASE queue # <<>> /\ Last(queue) # t
    <2> DEFINE i == CHOOSE k \in DOMAIN queue : queue[k] = t
    <2>1. i \in 1 .. Len(queue)
      BY <1>3, LenProperties DEF RemoveOverflows
    <2>2. queue' = RemoveAt(queue, i)
      BY <1>3 DEF RemoveLink
    <2> HIDE DEF i
    <2> QED BY <2>1, <2>2, Removed
  <1> QED BY <1>1, <1>2, <1>3

-----------------------------------------------------------------------------
(* One lemma per group of actions: running a task, the worker's loop, the  *)
(* script thread.                                                          *)

LEMMA RunTaskStep ==
  ASSUME IInv, NEW p \in Threads, RunTask(p)
  PROVE  IInv'
  <1> USE DEF IInv, HasTask, Handshake, Threads, Executing
  <1> cur[p] \in Tasks /\ pc[p] \in Executing
    BY DEF RunTask, Start, Decode, Finish, Fail, OnSuccess, OnError
  <1>1. CASE Start(p)
    <2>1. /\ taskState' \in [Tasks -> TaskStates]
          /\ callbacks' \subseteq [listener: Listeners, state: TaskStates]
          /\ tlc' \in [Listeners ->
              [task: Tasks \cup {NoTask}, id: Slots \cup {0},
               signal: Signals \cup {"none"}, param: TaskStates]]
      BY <1>1, SetStateType DEF Start, TaskStates
    <2>2. TypeOK'
      BY <1>1, <2>1 DEF TypeOK, Start, Goto, queueVars
    <2>3. HasTask' /\ Handshake'
      BY <1>1 DEF TypeOK, Start, Goto, queueVars
    <2> QED BY <2>2, <2>3
  <1>2. CASE Decode(p)
    <2>1. TypeOK'
      BY <1>2 DEF TypeOK, Decode, Goto, queueVars, listenerVars, Results
    <2>2. HasTask' /\ Handshake'
      BY <1>2 DEF TypeOK, Decode, Goto, queueVars
    <2> QED BY <2>1, <2>2
  <1>3. CASE Finish(p)
    <2>1. /\ taskState' \in [Tasks -> TaskStates]
          /\ callbacks' \subseteq [listener: Listeners, state: TaskStates]
          /\ tlc' \in [Listeners ->
              [task: Tasks \cup {NoTask}, id: Slots \cup {0},
               signal: Signals \cup {"none"}, param: TaskStates]]
      BY <1>3, SetStateType DEF Finish, TaskStates
    <2>2. TypeOK'
      BY <1>3, <2>1 DEF TypeOK, Finish, Goto, queueVars, Results
    <2>3. HasTask' /\ Handshake'
      BY <1>3 DEF TypeOK, Finish, Goto, queueVars
    <2> QED BY <2>2, <2>3
  <1>4. CASE Fail(p)
    <2>1. /\ taskState' \in [Tasks -> TaskStates]
          /\ callbacks' \subseteq [listener: Listeners, state: TaskStates]
          /\ tlc' \in [Listeners ->
              [task: Tasks \cup {NoTask}, id: Slots \cup {0},
               signal: Signals \cup {"none"}, param: TaskStates]]
      BY <1>4, SetStateType DEF Fail, TaskStates
    <2>2. TypeOK'
      BY <1>4, <2>1 DEF TypeOK, Fail, Goto, queueVars
    <2>3. HasTask' /\ Handshake'
      BY <1>4 DEF TypeOK, Fail, Goto, queueVars
    <2> QED BY <2>2, <2>3
  <1>5. CASE OnSuccess(p)
    <2>1. TypeOK'
      BY <1>5 DEF TypeOK, OnSuccess, AfterTask, CleanTask, Goto, queueVars, taskVars
    <2>2. HasTask' /\ Handshake'
      BY <1>5 DEF TypeOK, OnSuccess, AfterTask, Goto, queueVars
    <2> QED BY <2>1, <2>2
  <1>6. CASE OnError(p)
    <2>1. TypeOK'
      BY <1>6 DEF TypeOK, OnError, AfterTask, CleanTask, Goto, queueVars, Results
    <2>2. HasTask' /\ Handshake'
      BY <1>6 DEF TypeOK, OnError, AfterTask, Goto, queueVars
    <2> QED BY <2>1, <2>2
  <1> QED
    BY <1>1, <1>2, <1>3, <1>4, <1>5, <1>6 DEF RunTask

LEMMA WorkerStep ==
  ASSUME IInv, TakeTask \/ Sleep \/ Pause \/ Resume
  PROVE  IInv'
  <1> USE NoTaskAssumption DEF IInv, HasTask, Handshake, Threads, Executing
  <1>1. CASE TakeTask
    <2>1. TypeOK'
      BY <1>1 DEF TypeOK, TakeTask, RemoveFromHead, Goto, taskVars, listenerVars
    <2>2. HasTask' /\ Handshake'
      BY <1>1 DEF TypeOK, TakeTask, RemoveFromHead, Fetching, Goto
    <2> QED BY <2>1, <2>2
  <1>2. CASE Sleep
    <2>1. TypeOK'
      BY <1>2 DEF TypeOK, Sleep, WaitPaused, GotoNotifying, QueueStates, taskVars, listenerVars
    <2>2. HasTask' /\ Handshake'
      BY <1>2 DEF TypeOK, Sleep, WaitPaused, Fetching, GotoNotifying
    <2> QED BY <2>1, <2>2
  <1>3. CASE Pause
    <2>1. TypeOK'
      BY <1>3 DEF TypeOK, Pause, RemoveFromHead, WaitPaused, GotoNotifying, QueueStates, taskVars, listenerVars
    <2>2. HasTask' /\ Handshake'
      BY <1>3 DEF TypeOK, Pause, RemoveFromHead, WaitPaused, Fetching, GotoNotifying
    <2> QED BY <2>1, <2>2
  <1>4. CASE Resume
    <2>1. TypeOK'
      BY <1>4 DEF TypeOK, Resume, Goto, queueVars, taskVars, listenerVars
    <2>2. HasTask' /\ Handshake'
      BY <1>4 DEF TypeOK, Resume, Goto, queueVars
    <2> QED BY <2>1, <2>2
  <1> QED BY <1>1, <1>2, <1>3, <1>4

LEMMA ScriptStep ==
  ASSUME IInv, WorkerPaused \/ Restart \/ CancelAll \/ JsonRpc \/ \E c \in callbacks : Deliver(c)
  PROVE  IInv'
  <1> USE DEF IInv, HasTask, Handshake, Threads, Executing
  <1>1. CASE WorkerPaused
    <2>1. TypeOK'
      BY <1>1 DEF TypeOK, WorkerPaused, Goto, queueVars, taskVars, listenerVars
    <2>2. HasTask' /\ Handshake'
      BY <1>1 DEF TypeOK, WorkerPaused, Goto, queueVars
    <2> QED BY <2>1, <2>2
  <1>2. CASE Restart
    <2>1. TypeOK'
      BY <1>2 DEF TypeOK, Restart, GotoNotifying, QueueStates, taskVars, listenerVars
    <2>2. HasTask' /\ Handshake'
      BY <1>2 DEF TypeOK, Restart, GotoNotifying
    <2> QED BY <2>1, <2>2
  <1>3. ASSUME NEW t \in Tasks, CallSync(t) PROVE IInv'
    <2>1. TypeOK'
      BY <1>3 DEF TypeOK, CallSync, PauseNeeded, Goto, QueueStates, taskVars, listenerVars
    <2>2. HasTask' /\ Handshake'
      BY <1>3 DEF TypeOK, CallSync, PauseNeeded, Idle, Goto, QueueStates
    <2> QED BY <2>1, <2>2
  <1>4. ASSUME NEW t \in Tasks, NEW id \in Slots, CallAsync(t, id) PROVE IInv'
    <2>1. TypeOK'
      BY <1>4 DEF TypeOK, CallAsync, AddToTail, WakeWorker, Goto, GotoNotifying, QueueStates, TaskStates, listenerVars
    <2>2. HasTask' /\ Handshake'
      BY <1>4 DEF TypeOK, CallAsync, AddToTail, WakeWorker, Idle, Goto, GotoNotifying
    <2> QED BY <2>1, <2>2
  <1>5. CASE Clean
    <2>1. TypeOK'
      BY <1>5 DEF TypeOK, Clean, CleanAll, taskVars, listenerVars
    <2>2. HasTask' /\ Handshake'
      BY <1>5 DEF Clean, CleanAll
    <2> QED BY <2>1, <2>2
  <1>6. ASSUME NEW id \in Slots, GetResult(id) PROVE IInv'
    <2>1. TypeOK'
      BY <1>6 DEF TypeOK, GetResult, queueVars, taskVars, listenerVars
    <2>2. HasTask' /\ Handshake'
      BY <1>6 DEF GetResult, queueVars
    <2> QED BY <2>1, <2>2
  <1>7. ASSUME NEW id \in Slots, CancelOverflow(id) PROVE IInv'
    <2>1. TypeOK'
      BY <1>7 DEF TypeOK, CancelOverflow, Goto, queueVars, taskVars, listenerVars
    <2>2. HasTask' /\ Handshake'
      BY <1>7 DEF TypeOK, CancelOverflow, Goto, queueVars
    <2> QED BY <2>1, <2>2
  <1>8. ASSUME NEW l \in Listeners, NEW id \in Slots, NEW s \in Signals, AddListener(l, id, s)
        PROVE  IInv'
    <2>1. s_tasks[id] \in Tasks
      BY <1>8 DEF TypeOK, AddListener, Free
    <2>2. tlc' \in [Listeners ->
              [task: Tasks \cup {NoTask}, id: Slots \cup {0},
               signal: Signals \cup {"none"}, param: TaskStates]]
      BY <1>8, <2>1 DEF TypeOK, AddListener, TaskStates
    <2>3. TypeOK'
      BY <1>8, <2>1, <2>2 DEF TypeOK, AddListener, queueVars, taskVars
    <2>4. HasTask' /\ Handshake'
      BY <1>8 DEF AddListener, queueVars
    <2> QED BY <2>3, <2>4
  <1>9. ASSUME NEW c \in callbacks, Deliver(c) PROVE IInv'
    <2>1. TypeOK'
      BY <1>9 DEF TypeOK, Deliver, queueVars, taskVars
    <2>2. HasTask' /\ Handshake'
      BY <1>9 DEF Deliver, queueVars
    <2> QED BY <2>1, <2>2
  <1>10. ASSUME NEW id \in Slots, Cancel(id) PROVE IInv'
    <2>1. queue' \in Seq(Tasks)
      BY <1>10, RemoveLinkType DEF TypeOK, Cancel
    <2>2. TypeOK'
      BY <1>10, <2>1 DEF TypeOK, Cancel, Goto, taskVars, listenerVars
    <2>3. HasTask' /\ Handshake'
      BY <1>10 DEF TypeOK, Cancel, Idle, Goto
    <2> QED BY <2>2, <2>3
  <1>11. CASE CancelAll
    <2>1. TypeOK'
      BY <1>11 DEF TypeOK, CancelAll, CleanAll, Goto, taskVars, listenerVars
    <2>2. HasTask' /\ Handshake'
      BY <1>11 DEF TypeOK, CancelAll, CleanAll, Goto
    <2> QED BY <2>1, <2>2
  <1> QED
    BY <1>1, <1>2, <1>3, <1>4, <1>5, <1>6, <1>7, <1>8, <1>9, <1>10, <1>11 DEF JsonRpc

LEMMA Stuttering == IInv /\ UNCHANGED vars => IInv'
  BY DEF IInv, TypeOK, HasTask, Handshake, vars

LEMMA Invariance == Spec => []IInv
  <1>1. Init => IInv
    BY InitIInv
  <1>2. IInv /\ [Next]_vars => IInv'
    BY RunTaskStep, WorkerStep, ScriptStep, Stuttering
    DEF Next, Worker, Main, RunTaskNow, Threads
  <1> QED BY <1>1, <1>2, PTL DEF Spec

-----------------------------------------------------------------------------
\* Every reachable state is typed.
THEOREM TypeCorrect == Spec => []TypeOK
  BY Invariance, PTL DEF IInv

\* runTaskNow and the worker never execute a task at the same time, although
\* runTaskNow neither loops around its wait nor pauses a worker it finds PAUSED.
THEOREM MutualExclusion == Spec => []NoConcurrentJobs
  BY Invariance, HandshakeExcludes, PTL


-----------------------------------------------------------------------------
(* The executor.                                                           *)

\* The third and the fourth variable of the executor.
Done == {t \in Tasks : taskState[t] \in Completed} \ Running
Cancelling == pc["main"] = "canceled"

\* Where each thread may be, and what is known there of the task in its hand. Who
\* takes a task from the queue or from a script finds it as it was created or added.
Tracking ==
  /\ pc["main"] \in {"idle", "resume", "canceled", "dead", "waiting", "woken"} \cup Executing
  /\ pc["worker"] \in {"none", "take", "waiting", "woken"} \cup Executing
  /\ pc["main"] \in {"idle", "resume", "canceled", "dead"} => cur["main"] = NoTask
  /\ pc["worker"] \in {"none", "take"} => cur["worker"] = NoTask
  /\ pc["main"] \in {"waiting", "woken", "start"} => taskState[cur["main"]] = "NONE"
  /\ \A p \in Threads :
       /\ pc[p] \in {"job", "decoded"} => taskState[cur[p]] = "RUNNING"
       /\ pc[p] \in {"finished", "failed"} => taskState[cur[p]] \in Completed

\* A task has one index at most, and has been added.
Indexed ==
  /\ \A id \in Slots : ~Free(id) => taskState[s_tasks[id]] # "NONE"
  /\ \A i, j \in Slots : ~Free(i) /\ s_tasks[i] = s_tasks[j] => i = j

EInv == IInv /\ Tracking /\ Indexed /\ NoTaskLost

-----------------------------------------------------------------------------
(* The pending tasks as a sequence.                                        *)

LEMMA HeldType == ASSUME TypeOK PROVE Held \in Seq(Tasks) /\ Pending \in Seq(Tasks)
  <1>1. cur["worker"] # NoTask => cur["worker"] \in Tasks
    BY DEF TypeOK, Threads
  <1>2. Held \in Seq(Tasks)
    BY <1>1, EmptySeq DEF Held
  <1>3. queue \in Seq(Tasks)
    BY DEF TypeOK
  <1> QED BY <1>2, <1>3, ConcatProperties DEF Pending

\* The first task moves from the list into the hand of the worker.
LEMMA HeadInHand ==
  ASSUME NEW q \in Seq(Tasks), q # <<>>
  PROVE  <<Head(q)>> \o Tail(q) = q
  <1>1. Head(q) \in Tasks /\ Tail(q) \in Seq(Tasks) /\ Len(Tail(q)) = Len(q) - 1
        /\ \A i \in 1 .. Len(Tail(q)) : Tail(q)[i] = q[i + 1]
    BY HeadTailProperties
  <1>2. Head(q) = q[1] /\ Len(q) \in Nat \ {0}
    BY EmptySeq
  <1>3. <<Head(q)>> \in Seq(Tasks) /\ Len(<<Head(q)>>) = 1 /\ <<Head(q)>>[1] = q[1]
    BY <1>1, <1>2
  <1> DEFINE c == <<Head(q)>> \o Tail(q)
  <1>4. c \in Seq(Tasks) /\ Len(c) = Len(q)
        /\ \A i \in 1 .. Len(q) : c[i] = IF i <= 1 THEN <<Head(q)>>[i] ELSE Tail(q)[i - 1]
    BY <1>1, <1>2, <1>3, ConcatProperties
  <1>5. \A i \in 1 .. Len(q) : c[i] = q[i]
    BY <1>1, <1>2, <1>3, <1>4
  <1> QED BY <1>4, <1>5, SeqEqual

LEMMA Appended ==
  ASSUME NEW q \in Seq(Tasks), NEW t \in Tasks
  PROVE  /\ Append(q, t) \in Seq(Tasks) /\ Len(Append(q, t)) = Len(q) + 1
         /\ \A i \in 1 .. Len(q) + 1 : Append(q, t)[i] = IF i <= Len(q) THEN q[i] ELSE t
  BY LenProperties

LEMMA AppendToPending ==
  ASSUME NEW h \in Seq(Tasks), NEW q \in Seq(Tasks), NEW t \in Tasks
  PROVE  h \o Append(q, t) = Append(h \o q, t)
  <1> DEFINE a == Append(q, t)
             hq == h \o q
             ha == h \o a
             hqa == Append(hq, t)
  <1>1. /\ hq \in Seq(Tasks) /\ Len(hq) = Len(h) + Len(q)
        /\ \A i \in 1 .. Len(h) + Len(q) : hq[i] = IF i <= Len(h) THEN h[i] ELSE q[i - Len(h)]
    BY ConcatProperties
  <1>2. a \in Seq(Tasks) /\ Len(a) = Len(q) + 1
        /\ \A i \in 1 .. Len(q) + 1 : a[i] = IF i <= Len(q) THEN q[i] ELSE t
    BY Appended
  <1>3. hqa \in Seq(Tasks) /\ Len(hqa) = Len(hq) + 1
        /\ \A i \in 1 .. Len(hq) + 1 : hqa[i] = IF i <= Len(hq) THEN hq[i] ELSE t
    BY <1>1, Appended
  <1>4. ha \in Seq(Tasks) /\ Len(ha) = Len(h) + Len(a)
        /\ \A i \in 1 .. Len(h) + Len(a) : ha[i] = IF i <= Len(h) THEN h[i] ELSE a[i - Len(h)]
    BY <1>2, ConcatProperties
  <1>5. Len(h) \in Nat /\ Len(q) \in Nat
    BY LenProperties
  <1> HIDE DEF a, hq, ha, hqa
  <1>6. Len(ha) = Len(hqa)
    BY <1>1, <1>2, <1>3, <1>4, <1>5
  <1>7. ASSUME NEW i \in 1 .. Len(ha) PROVE ha[i] = hqa[i]
    <2>1. i \in Int /\ 1 <= i /\ i <= Len(h) + Len(q) + 1
      BY <1>2, <1>4, <1>5, <1>7
    <2>2. i \in 1 .. Len(h) + Len(a) /\ i \in 1 .. Len(hq) + 1
      BY <1>1, <1>2, <1>5, <2>1
    <2>3. ha[i] = IF i <= Len(h) THEN h[i] ELSE a[i - Len(h)]
      BY <1>4, <2>2
    <2>4. hqa[i] = IF i <= Len(hq) THEN hq[i] ELSE t
      BY <1>3, <2>2
    <2>5. ASSUME i <= Len(hq)
          PROVE  hq[i] = IF i <= Len(h) THEN h[i] ELSE q[i - Len(h)]
      BY <1>1, <1>5, <2>1, <2>5
    <2>6. ASSUME i > Len(h)
          PROVE  a[i - Len(h)] = IF i - Len(h) <= Len(q) THEN q[i - Len(h)] ELSE t
      <3>1. i - Len(h) \in 1 .. Len(q) + 1
        BY <1>5, <2>1, <2>6
      <3> QED BY <1>2, <3>1
    <2> QED BY <1>1, <1>5, <2>1, <2>3, <2>4, <2>5, <2>6
  <1>8. ha = hqa
    BY <1>3, <1>4, <1>6, <1>7, SeqEqual
  <1> QED BY <1>8 DEF a, hq, ha, hqa

\* A task in hand comes first.
LEMMA HandFirst ==
  ASSUME NEW c \in Tasks, NEW q \in Seq(Tasks)
  PROVE  /\ <<c>> \o q # <<>> /\ Head(<<c>> \o q) = c /\ Tail(<<c>> \o q) = q
         /\ Len(<<c>> \o q) = Len(q) + 1
         /\ \A i \in 1 .. Len(q) : (<<c>> \o q)[i + 1] = q[i]
         /\ (<<c>> \o q)[1] = c
  <1> DEFINE s == <<c>> \o q
  <1>1. <<c>> \in Seq(Tasks) /\ Len(<<c>>) = 1 /\ <<c>>[1] = c /\ Len(q) \in Nat
    BY LenProperties
  <1>2. s \in Seq(Tasks) /\ Len(s) = 1 + Len(q)
        /\ \A i \in 1 .. 1 + Len(q) : s[i] = IF i <= 1 THEN <<c>>[i] ELSE q[i - 1]
    BY <1>1, ConcatProperties
  <1> HIDE DEF s
  <1>3. Len(s) = Len(q) + 1 /\ s[1] = c /\ \A i \in 1 .. Len(q) : s[i + 1] = q[i]
    BY <1>1, <1>2
  <1>4. s # <<>> /\ Head(s) = c
    BY <1>1, <1>2, <1>3
  <1>5. Tail(s) \in Seq(Tasks) /\ Len(Tail(s)) = Len(q)
        /\ \A i \in 1 .. Len(q) : Tail(s)[i] = s[i + 1]
    BY <1>1, <1>2, <1>4, HeadTailProperties
  <1>6. Tail(s) = q
    BY <1>3, <1>5, SeqEqual
  <1> QED BY <1>3, <1>4, <1>6 DEF s

\* What is removed from a list is removed behind what comes before the list.
LEMMA RemoveBehind ==
  ASSUME NEW h \in Seq(Tasks), NEW q \in Seq(Tasks), NEW i \in 1 .. Len(q)
  PROVE  /\ Len(h) + i \in 1 .. Len(h \o q) /\ (h \o q)[Len(h) + i] = q[i]
         /\ Len(h \o q) = Len(h) + Len(q)
         /\ h \o RemoveAt(q, i) = RemoveAt(h \o q, Len(h) + i)
  <1> DEFINE hq == h \o q
             r == RemoveAt(q, i)
             hr == h \o r
             n == Len(h) + i
             x == RemoveAt(hq, n)
  <1>1. Len(h) \in Nat /\ Len(q) \in Nat /\ i \in 1 .. Len(q)
    BY LenProperties
  <1>2. /\ hq \in Seq(Tasks) /\ Len(hq) = Len(h) + Len(q)
        /\ \A k \in 1 .. Len(h) + Len(q) : hq[k] = IF k <= Len(h) THEN h[k] ELSE q[k - Len(h)]
    BY ConcatProperties
  <1>3. n \in 1 .. Len(hq) /\ hq[n] = q[i]
    <2>1. n \in 1 .. Len(h) + Len(q) /\ ~(n <= Len(h)) /\ n - Len(h) = i
      BY <1>1
    <2> HIDE DEF n, hq
    <2> QED BY <1>2, <2>1
  <1>4. /\ r \in Seq(Tasks) /\ Len(r) = Len(q) - 1
        /\ \A k \in 1 .. Len(q) - 1 : r[k] = IF k < i THEN q[k] ELSE q[k + 1]
    BY Removed
  <1>5. /\ x \in Seq(Tasks) /\ Len(x) = Len(hq) - 1
        /\ \A k \in 1 .. Len(hq) - 1 : x[k] = IF k < n THEN hq[k] ELSE hq[k + 1]
    BY <1>2, <1>3, Removed
  <1>6. /\ hr \in Seq(Tasks) /\ Len(hr) = Len(h) + Len(r)
        /\ \A k \in 1 .. Len(h) + Len(r) : hr[k] = IF k <= Len(h) THEN h[k] ELSE r[k - Len(h)]
    BY <1>4, ConcatProperties
  <1>7. n = Len(h) + i
    OBVIOUS
  <1> HIDE DEF hq, r, hr, n, x
  <1>8. ASSUME NEW k \in 1 .. Len(hr) PROVE hr[k] = x[k]
    <2>1. k \in Int /\ 1 <= k /\ k <= Len(h) + Len(q) - 1
      BY <1>1, <1>4, <1>6, <1>8
    <2>2. k \in 1 .. Len(hq) - 1 /\ k \in 1 .. Len(h) + Len(r)
      BY <1>1, <1>2, <1>4, <2>1
    <2>3. x[k] = IF k < n THEN hq[k] ELSE hq[k + 1]
      BY <1>5, <2>2
    <2>4. CASE k <= Len(h)
      BY <1>1, <1>2, <1>6, <1>7, <2>1, <2>2, <2>3, <2>4
    <2>5. CASE k > Len(h)
      <3> DEFINE m == k - Len(h)
      <3>1. /\ m \in 1 .. Len(q) - 1 /\ (k + 1) - Len(h) = m + 1 /\ (m < i <=> k < n)
            /\ k \in 1 .. Len(h) + Len(q) /\ k + 1 \in 1 .. Len(h) + Len(q)
            /\ ~(k + 1 <= Len(h)) /\ ~(k <= Len(h))
        BY <1>1, <1>7, <2>1, <2>5
      <3>2. hr[k] = r[m]
        BY <1>6, <2>2, <3>1
      <3>3. hq[k] = q[m] /\ hq[k + 1] = q[(k + 1) - Len(h)]
        BY <1>2, <3>1
      <3> HIDE DEF m
      <3>4. r[m] = IF m < i THEN q[m] ELSE q[m + 1]
        BY <1>4, <3>1
      <3> QED BY <2>3, <3>1, <3>2, <3>3, <3>4
    <2> QED BY <1>1, <2>1, <2>4, <2>5
  <1>9. Len(hr) = Len(x)
    BY <1>1, <1>2, <1>4, <1>5, <1>6
  <1>10. hr = x
    BY <1>5, <1>6, <1>8, <1>9, SeqEqual
  <1> QED BY <1>2, <1>3, <1>7, <1>10 DEF hq, r, hr, n, x

NoRepetition(s) == \A m, n \in 1 .. Len(s) : s[m] = s[n] => m = n

\* r holds each element of s once: all of them, or all but the ith one.
HoldsAll(r, s) ==
  /\ r \in Seq(Tasks) /\ NoRepetition(r)
  /\ \A k \in 1 .. Len(r) : \E n \in 1 .. Len(s) : r[k] = s[n]
  /\ \A n \in 1 .. Len(s) : \E k \in 1 .. Len(r) : r[k] = s[n]
HoldsOthers(r, s, i) ==
  /\ r \in Seq(Tasks) /\ NoRepetition(r)
  /\ \A k \in 1 .. Len(r) : r[k] # s[i] /\ \E n \in 1 .. Len(s) : r[k] = s[n]
  /\ \A n \in 1 .. Len(s) : n # i => \E k \in 1 .. Len(r) : r[k] = s[n]

\* A list without repetition from which an element is removed holds the others.
LEMMA OthersStay ==
  ASSUME NEW s \in Seq(Tasks), NEW i \in 1 .. Len(s), NoRepetition(s)
  PROVE  HoldsOthers(RemoveAt(s, i), s, i)
  <1> DEFINE r == RemoveAt(s, i)
  <1>1. Len(s) \in Nat /\ i \in 1 .. Len(s)
    BY LenProperties
  <1>2. /\ r \in Seq(Tasks) /\ Len(r) = Len(s) - 1
        /\ \A k \in 1 .. Len(s) - 1 : r[k] = IF k < i THEN s[k] ELSE s[k + 1]
    BY Removed
  <1> HIDE DEF r
  <1>3. ASSUME NEW k \in 1 .. Len(r) PROVE r[k] # s[i] /\ \E n \in 1 .. Len(s) : r[k] = s[n]
    <2>1. k \in 1 .. Len(s) /\ k + 1 \in 1 .. Len(s) /\ (k < i => k # i) /\ (~(k < i) => k + 1 # i)
      BY <1>1, <1>2, <1>3
    <2>2. \A n \in 1 .. Len(s) : n # i => s[n] # s[i]
      BY <1>1 DEF NoRepetition
    <2> QED BY <1>1, <1>2, <1>3, <2>1, <2>2
  <1>4. ASSUME NEW n \in 1 .. Len(s), n # i PROVE \E k \in 1 .. Len(r) : r[k] = s[n]
    <2>1. CASE n < i
      BY <1>1, <1>2, <1>4, <2>1
    <2>2. CASE n > i
      <3> DEFINE k == n - 1
      <3>1. k \in 1 .. Len(r) /\ k + 1 = n /\ ~(k < i)
        BY <1>1, <1>2, <1>4, <2>2
      <3> HIDE DEF k
      <3> QED BY <1>2, <3>1
    <2> QED BY <1>1, <1>4, <2>1, <2>2
  <1>5. ASSUME NEW k \in 1 .. Len(r), NEW l \in 1 .. Len(r), r[k] = r[l] PROVE k = l
    <2>1. /\ k \in 1 .. Len(s) /\ k + 1 \in 1 .. Len(s) /\ l \in 1 .. Len(s) /\ l + 1 \in 1 .. Len(s)
          /\ r[k] = IF k < i THEN s[k] ELSE s[k + 1]
          /\ r[l] = IF l < i THEN s[l] ELSE s[l + 1]
      BY <1>1, <1>2, <1>5
    <2>2. CASE k < i /\ l < i
      BY <1>5, <2>1, <2>2 DEF NoRepetition
    <2>3. CASE k < i /\ ~(l < i)
      <3>1. k = l + 1
        BY <1>5, <2>1, <2>3 DEF NoRepetition
      <3> QED BY <1>1, <2>1, <2>3, <3>1
    <2>4. CASE ~(k < i) /\ l < i
      <3>1. k + 1 = l
        BY <1>5, <2>1, <2>4 DEF NoRepetition
      <3> QED BY <1>1, <2>1, <2>4, <3>1
    <2>5. CASE ~(k < i) /\ ~(l < i)
      <3>1. k + 1 = l + 1
        BY <1>5, <2>1, <2>5 DEF NoRepetition
      <3> QED BY <2>1, <3>1
    <2> QED BY <2>2, <2>3, <2>4, <2>5
  <1> QED BY <1>2, <1>3, <1>4, <1>5 DEF r, HoldsOthers, NoRepetition

\* And one whose element is put at its end holds the same ones.
LEMMA AllStay ==
  ASSUME NEW s \in Seq(Tasks), NEW i \in 1 .. Len(s), NoRepetition(s)
  PROVE  HoldsAll(Append(RemoveAt(s, i), s[i]), s)
  <1> DEFINE a == RemoveAt(s, i)
             r == Append(a, s[i])
  <1>0. HoldsOthers(a, s, i)
    BY OthersStay
  <1> HIDE DEF a
  <1>1. /\ a \in Seq(Tasks)
        /\ \A k \in 1 .. Len(a) : a[k] # s[i] /\ \E n \in 1 .. Len(s) : a[k] = s[n]
        /\ \A n \in 1 .. Len(s) : n # i => \E k \in 1 .. Len(a) : a[k] = s[n]
        /\ \A k, l \in 1 .. Len(a) : a[k] = a[l] => k = l
    BY <1>0 DEF HoldsOthers, NoRepetition
  <1>2. s[i] \in Tasks /\ Len(a) \in Nat
    BY <1>1, ElementOfSeq, LenProperties
  <1>3. /\ r \in Seq(Tasks) /\ Len(r) = Len(a) + 1
        /\ \A k \in 1 .. Len(a) + 1 : r[k] = IF k <= Len(a) THEN a[k] ELSE s[i]
    BY <1>1, <1>2, Appended
  <1> HIDE DEF r
  <1>4. ASSUME NEW k \in 1 .. Len(r)
        PROVE  \/ k \in 1 .. Len(a) /\ r[k] = a[k]
               \/ k = Len(a) + 1 /\ r[k] = s[i]
    BY <1>2, <1>3, <1>4
  <1>5. ASSUME NEW n \in 1 .. Len(s) PROVE \E k \in 1 .. Len(r) : r[k] = s[n]
    <2>1. CASE n = i
      <3>1. Len(a) + 1 \in 1 .. Len(r) /\ r[Len(a) + 1] = s[i]
        BY <1>2, <1>3
      <3> QED BY <2>1, <3>1
    <2>2. CASE n # i
      <3>1. PICK k \in 1 .. Len(a) : a[k] = s[n]
        BY <1>1, <2>2
      <3>2. k \in 1 .. Len(r) /\ r[k] = a[k]
        BY <1>2, <1>3
      <3> QED BY <3>1, <3>2
    <2> QED BY <2>1, <2>2
  <1>6. \A k, l \in 1 .. Len(r) : r[k] = r[l] => k = l
    BY <1>1, <1>4
  <1>7. \A k \in 1 .. Len(r) : \E n \in 1 .. Len(s) : r[k] = s[n]
    BY <1>1, <1>4
  <1> QED BY <1>3, <1>5, <1>6, <1>7 DEF a, r, HoldsAll, NoRepetition

-----------------------------------------------------------------------------
(* What is pending, running and done.                                      *)

RunningOf(p) == IF pc[p] \in Executing \ {"start"} THEN {cur[p]} ELSE {}

LEMMA RunningUnion == Running = RunningOf("main") \cup RunningOf("worker")
  BY DEF Running, RunningOf, Threads

LEMMA RunningUnionPrime == Running' = (RunningOf("main") \cup RunningOf("worker"))'
  BY DEF Running, RunningOf, Threads

\* Steps that leave the pending tasks alone lose none.
LEMMA KeepsPending ==
  ASSUME TypeOK, NoTaskLost, Pending' = Pending,
         \A id \in Slots : s_tasks'[id] \in {s_tasks[id], NoTask},
         \A t \in Tasks : taskState'[t] = taskState[t]
                          \/ (taskState[t] # "READY" /\ taskState'[t] # "READY")
  PROVE  NoTaskLost'
  <1>1. \A t : IsPending(t)' <=> IsPending(t)
    BY DEF IsPending
  <1>2. \A i \in 1 .. Len(Pending) : Pending[i] \in Tasks
    BY HeldType, ElementOfSeq
  <1>3. ASSUME NEW id \in Slots, s_tasks'[id] # NoTask, taskState'[s_tasks'[id]] = "READY"
        PROVE  IsPending(s_tasks'[id])
    <2>1. s_tasks'[id] = s_tasks[id] /\ s_tasks[id] \in Tasks
      BY <1>3 DEF TypeOK
    <2>2. taskState[s_tasks[id]] = "READY"
      BY <1>3, <2>1
    <2> QED BY <2>1, <2>2, <1>3 DEF NoTaskLost, Free
  <1>4. \A i \in 1 .. Len(Pending) : taskState'[Pending[i]] = "READY"
    BY <1>2 DEF NoTaskLost
  <1>5. (\A id \in Slots :
       ~Free(id) /\ taskState[s_tasks[id]] = "READY" => IsPending(s_tasks[id]))'
    BY <1>1, <1>3 DEF Free
  <1> QED BY <1>4, <1>5 DEF NoTaskLost

-----------------------------------------------------------------------------
(* The steps of a running task.                                            *)

LEMMA ExecutorStands ==
  ASSUME Pending' = Pending, Running' = Running, Done' = Done, Cancelling' = Cancelling
  PROVE  [Executor!Next]_(Executor!vars)
  BY DEF Executor!vars, Done, Cancelling

Places == Executing \cup
  {"none", "take", "waiting", "woken", "idle", "resume", "canceled", "dead"}

LEMMA Typed ==
  ASSUME EInv
  PROVE  /\ TypeOK /\ pc \in [Threads -> Places] /\ cur \in [Threads -> Tasks \cup {NoTask}]
         /\ queue \in Seq(Tasks) /\ s_tasks \in [Slots -> Tasks \cup {NoTask}]
         /\ taskState \in [Tasks -> TaskStates]
         /\ \A p \in Threads : pc[p] \in Executing =>
              cur[p] \in Tasks /\ \A q \in Threads \ {p} : pc[q] \notin Executing
  <1>1. TypeOK /\ NoConcurrentJobs /\ HasTask
    BY HandshakeExcludes DEF EInv, IInv
  <1>2. /\ pc \in [Threads -> Places] /\ cur \in [Threads -> Tasks \cup {NoTask}]
        /\ queue \in Seq(Tasks) /\ s_tasks \in [Slots -> Tasks \cup {NoTask}]
        /\ taskState \in [Tasks -> TaskStates]
    BY <1>1 DEF TypeOK, Places
  <1>3. ASSUME NEW p \in Threads, pc[p] \in Executing
        PROVE  cur[p] \in Tasks /\ \A q \in Threads \ {p} : pc[q] \notin Executing
    BY <1>1, <1>3 DEF HasTask, NoConcurrentJobs, Threads
  <1> QED BY <1>1, <1>2, <1>3

LEMMA MainStarts ==
  ASSUME EInv, Start("main")
  PROVE  [Executor!Next]_(Executor!vars) /\ Tracking' /\ NoTaskLost'
  <1> USE DEF Executing, Threads, Completed
  <1> DEFINE c == cur["main"]
  <1>1. /\ c \in Tasks /\ pc["main"] = "start" /\ taskState[c] = "NONE"
        /\ pc["worker"] \notin Executing
        /\ pc' = [pc EXCEPT !["main"] = "job"] /\ cur' = cur /\ queue' = queue /\ s_tasks' = s_tasks
        /\ taskState' = [taskState EXCEPT ![c] = "RUNNING"]
        /\ pc \in [Threads -> Places] /\ taskState \in [Tasks -> TaskStates]
    BY Typed DEF EInv, Tracking, Start, SetState, Goto, queueVars
  <1>2. Pending' = Pending
    BY <1>1 DEF Pending, Held
  <1>3. Running = {} /\ Running' = {c}
    BY <1>1, RunningUnion, RunningUnionPrime DEF RunningOf
  <1>4. Done' = Done /\ c \notin Done
    BY <1>1, <1>3 DEF Done
  <1>5. ~IsPending(c)
    BY <1>1 DEF EInv, NoTaskLost, IsPending
  <1>6. Executor!RunNow(c)
    BY <1>1, <1>2, <1>3, <1>4, <1>5 DEF Executor!RunNow, Executor!Fresh, Executor!IsPending, IsPending, Done
  <1>7. NoTaskLost'
    BY <1>1, <1>2, KeepsPending DEF EInv, IInv
  <1>8. Tracking'
    BY <1>1 DEF EInv, Tracking
  <1> QED BY <1>1, <1>6, <1>7, <1>8 DEF Executor!Next

LEMMA WorkerStarts ==
  ASSUME EInv, Start("worker")
  PROVE  [Executor!Next]_(Executor!vars) /\ Tracking' /\ NoTaskLost'
  <1> USE DEF Executing, Threads, Completed
  <1> DEFINE c == cur["worker"]
  <1>1. /\ c \in Tasks /\ pc["worker"] = "start" /\ c # NoTask
        /\ pc["main"] \notin Executing
        /\ pc' = [pc EXCEPT !["worker"] = "job"] /\ cur' = cur /\ queue' = queue /\ s_tasks' = s_tasks
        /\ taskState' = [taskState EXCEPT ![c] = "RUNNING"]
        /\ pc \in [Threads -> Places] /\ taskState \in [Tasks -> TaskStates]
        /\ queue \in Seq(Tasks) /\ s_tasks \in [Slots -> Tasks \cup {NoTask}]
    BY Typed, NoTaskAssumption DEF Start, SetState, Goto, queueVars
  <1>2. Pending = <<c>> \o queue /\ Pending' = <<>> \o queue
    BY <1>1 DEF Pending, Held
  <1>3. Pending' = queue
    BY <1>1, <1>2, ConcatEmptySeq
  <1>4. /\ Pending # <<>> /\ Head(Pending) = c /\ Tail(Pending) = queue
        /\ Len(Pending) = Len(queue) + 1 /\ Pending[1] = c
        /\ \A i \in 1 .. Len(queue) : Pending[i + 1] = queue[i]
    BY <1>1, <1>2, HandFirst
  <1>5. Len(queue) \in Nat
    BY <1>1, LenProperties
  <1>6. taskState[c] = "READY"
    BY <1>4, <1>5 DEF EInv, NoTaskLost
  <1>7. Running = {} /\ Running' = {c}
    BY <1>1, RunningUnion, RunningUnionPrime DEF RunningOf
  <1>8. Done' = Done
    BY <1>1, <1>6, <1>7 DEF Done
  <1>9. Executor!StartNext
    BY <1>1, <1>3, <1>4, <1>7, <1>8 DEF Executor!StartNext, Done
  <1>10. NoTaskLost'
    <2>1. ASSUME NEW i \in 1 .. Len(queue), NEW k \in 1 .. Len(queue), queue[i] = queue[k] PROVE i = k
      <3>1. i + 1 \in 1 .. Len(Pending) /\ k + 1 \in 1 .. Len(Pending)
        BY <1>4, <1>5
      <3>2. Pending[i + 1] = Pending[k + 1]
        BY <1>4, <2>1
      <3>3. i + 1 = k + 1
        BY <3>1, <3>2 DEF EInv, NoTaskLost
      <3> QED BY <3>3
    <2>2. ASSUME NEW i \in 1 .. Len(queue) PROVE taskState'[queue[i]] = "READY"
      <3>1. i + 1 \in 1 .. Len(Pending) /\ i + 1 # 1 /\ 1 \in 1 .. Len(Pending)
        BY <1>4, <1>5
      <3>2. Pending[i + 1] = queue[i] /\ Pending[i + 1] # Pending[1]
        BY <1>4, <3>1 DEF EInv, NoTaskLost
      <3>3. taskState[queue[i]] = "READY" /\ queue[i] # c
        BY <1>4, <3>1, <3>2 DEF EInv, NoTaskLost
      <3>4. queue[i] \in Tasks
        BY <1>1, ElementOfSeq
      <3> QED BY <1>1, <3>3, <3>4
    <2>3. ASSUME NEW id \in Slots, s_tasks[id] # NoTask, taskState'[s_tasks[id]] = "READY"
          PROVE  \E i \in 1 .. Len(queue) : queue[i] = s_tasks[id]
      <3>1. s_tasks[id] \in Tasks /\ s_tasks[id] # c /\ taskState[s_tasks[id]] = "READY"
        BY <1>1, <2>3
      <3>2. PICK i \in 1 .. Len(Pending) : Pending[i] = s_tasks[id]
        BY <2>3, <3>1 DEF EInv, NoTaskLost, Free, IsPending
      <3>3. i - 1 \in 1 .. Len(queue) /\ (i - 1) + 1 = i
        BY <1>4, <1>5, <3>1, <3>2
      <3>4. Pending[(i - 1) + 1] = queue[i - 1]
        BY <1>4, <3>3
      <3> QED BY <3>2, <3>3, <3>4
    <2> QED BY <1>1, <1>3, <2>1, <2>2, <2>3 DEF NoTaskLost, IsPending, Free
  <1>11. Tracking'
    <2>1. pc["main"] \in {"waiting", "woken", "start"} => cur["main"] # c
      BY <1>6 DEF EInv, Tracking
    <2> QED BY <1>1, <2>1 DEF EInv, Tracking
  <1> QED BY <1>9, <1>10, <1>11 DEF Executor!Next

\* While a task runs, and when it has ended but its thread has not gone on.
LEMMA JobGoesOn ==
  ASSUME EInv, NEW p \in Threads, Decode(p) \/ Finish(p) \/ Fail(p)
  PROVE  [Executor!Next]_(Executor!vars) /\ Tracking' /\ NoTaskLost'
  <1> USE DEF Executing, Threads, Completed
  <1> DEFINE c == cur[p]
  <1>1. /\ c \in Tasks /\ pc[p] \in {"job", "decoded"} /\ taskState[c] = "RUNNING"
        /\ cur' = cur /\ queue' = queue /\ s_tasks' = s_tasks
        /\ pc \in [Threads -> Places] /\ taskState \in [Tasks -> TaskStates]
        /\ \A q \in Threads \ {p} : pc[q] \notin Executing
    BY Typed DEF EInv, Tracking, Decode, Finish, Fail, SetState, queueVars
  <1>2. \/ pc' = [pc EXCEPT ![p] = "decoded"] /\ taskState' = taskState
        \/ pc' = [pc EXCEPT ![p] = "finished"] /\ taskState' = [taskState EXCEPT ![c] = "FINISHED"]
        \/ pc' = [pc EXCEPT ![p] = "failed"] /\ taskState' = [taskState EXCEPT ![c] = "ERROR"]
    BY DEF Decode, Finish, Fail, SetState, Goto
  <1>3. Pending' = Pending
    BY <1>1, <1>2 DEF Pending, Held
  <1>4. Running = {c} /\ Running' = {c}
    BY <1>1, <1>2, RunningUnion, RunningUnionPrime DEF RunningOf
  <1>5. Done' = Done
    BY <1>1, <1>2, <1>4 DEF Done
  <1>6. NoTaskLost'
    BY <1>1, <1>2, <1>3, KeepsPending, Typed DEF EInv
  <1>7. Tracking'
    <2>1. pc["main"] \in {"waiting", "woken"} => cur["main"] # c
      BY <1>1 DEF EInv, Tracking
    <2>2. /\ cur["main"] \in Tasks \/ pc["main"] \notin {"waiting", "woken", "start"}
          /\ \A q \in Threads \ {p} : pc'[q] = pc[q] /\ pc[q] \notin Executing
          /\ pc'[p] \in {"decoded", "finished", "failed"}
      BY <1>1, <1>2, Typed DEF IInv, EInv, HasTask
    <2>3. /\ pc'[p] = "decoded" => taskState'[c] = "RUNNING"
          /\ pc'[p] \in {"finished", "failed"} => taskState'[c] \in Completed
      BY <1>1, <1>2
    <2>4. cur["main"] \in Tasks => taskState'[cur["main"]] = taskState[cur["main"]] \/ cur["main"] = c
      BY <1>1, <1>2
    <2>5. (pc["main"] \in {"waiting", "woken", "start"} => taskState[cur["main"]] = "NONE")'
      BY <1>1, <2>1, <2>2, <2>4 DEF EInv, Tracking
    <2>6. (\A q \in Threads : /\ pc[q] \in {"job", "decoded"} => taskState[cur[q]] = "RUNNING"
                              /\ pc[q] \in {"finished", "failed"} => taskState[cur[q]] \in Completed)'
      BY <1>1, <2>2, <2>3
    <2> QED BY <1>1, <2>2, <2>5, <2>6 DEF EInv, Tracking
  <1>8. Cancelling' = Cancelling
    BY <1>1, <1>2 DEF Cancelling
  <1> QED BY <1>3, <1>4, <1>5, <1>6, <1>7, <1>8, ExecutorStands

LEMMA JobEnds ==
  ASSUME EInv, NEW p \in Threads, OnSuccess(p) \/ OnError(p)
  PROVE  [Executor!Next]_(Executor!vars) /\ Tracking' /\ NoTaskLost'
  <1> USE DEF Executing, Threads, Completed
  <1> DEFINE c == cur[p]
  <1>1. /\ c \in Tasks /\ pc[p] \in {"finished", "failed"} /\ taskState[c] \in Completed
        /\ queue' = queue /\ s_tasks' = s_tasks /\ taskState' = taskState
        /\ pc' = [pc EXCEPT ![p] = AfterTask(p)] /\ cur' = [cur EXCEPT ![p] = NoTask]
        /\ pc \in [Threads -> Places] /\ cur \in [Threads -> Tasks \cup {NoTask}]
        /\ \A q \in Threads \ {p} : pc[q] \notin Executing
    BY Typed DEF EInv, Tracking, OnSuccess, OnError, Goto, queueVars, taskVars
  <1>2. AfterTask(p) \in IF p = "worker" THEN {"take"} ELSE {"resume", "idle"}
    BY DEF AfterTask
  <1>3. Pending' = Pending
    BY <1>1, <1>2 DEF Pending, Held
  <1>4. Running = {c} /\ Running' = {}
    BY <1>1, <1>2, RunningUnion, RunningUnionPrime DEF RunningOf
  <1>5. Done' = Done \cup Running
    BY <1>1, <1>4 DEF Done
  <1>9. (pc["main"] = "canceled")' = (pc["main"] = "canceled")
    BY <1>1, <1>2
  <1>6. Executor!End
    BY <1>1, <1>3, <1>4, <1>5, <1>9 DEF Executor!End, Done
  <1>7. NoTaskLost'
    BY <1>1, <1>3, KeepsPending, Typed DEF EInv
  <1>8. Tracking'
    BY <1>1, <1>2 DEF EInv, Tracking
  <1> QED BY <1>6, <1>7, <1>8 DEF Executor!Next

-----------------------------------------------------------------------------
(* The worker's loop: a task in its hand is still pending.                 *)

LEMMA WorkerTakes ==
  ASSUME EInv, TakeTask \/ Sleep \/ Pause \/ Resume
  PROVE  [Executor!Next]_(Executor!vars) /\ Tracking' /\ NoTaskLost'
  <1> USE NoTaskAssumption DEF Executing, Threads, Completed
  <1>1. /\ pc["worker"] \in {"take", "woken"} /\ s_tasks' = s_tasks /\ taskState' = taskState
        /\ pc \in [Threads -> Places] /\ cur \in [Threads -> Tasks \cup {NoTask}]
        /\ queue \in Seq(Tasks)
    BY Typed DEF TakeTask, Sleep, Pause, Resume, Fetching, taskVars
  <1>2. /\ pc'["worker"] \in {"start", "waiting"} /\ cur'["main"] = cur["main"]
        /\ pc'["main"] = pc["main"] \/ (pc["main"] = "waiting" /\ pc'["main"] = "woken")
        /\ pc \in [Threads -> Places]
    BY <1>1 DEF TakeTask, Sleep, Pause, Resume, RemoveFromHead, WaitPaused, Goto, GotoNotifying
  <1>3. ASSUME cur["worker"] = NoTask, queue # <<>> PROVE Pending' = Pending
    <2>1. /\ queue' = Tail(queue) /\ cur'["worker"] = Head(queue)
      BY <1>1, <1>3 DEF TakeTask, Sleep, Pause, Resume, RemoveFromHead
    <2>2. Head(queue) \in Tasks
      BY <1>1, <1>3, HeadTailProperties
    <2>3. Held' = <<Head(queue)>> /\ Held = <<>>
      BY <1>2, <1>3, <2>1, <2>2 DEF Held
    <2>4. Pending' = queue /\ Pending = queue
      BY <1>1, <1>3, <2>1, <2>3, HeadInHand, ConcatEmptySeq DEF Pending
    <2> QED BY <1>1, <2>2, <2>1, <2>4
  <1>4. ASSUME cur["worker"] = NoTask, queue = <<>> PROVE Pending' = Pending
    BY <1>1, <1>4 DEF TakeTask, Sleep, Pause, Resume, Pending, Held
  <1>5. ASSUME cur["worker"] # NoTask PROVE Pending' = Pending
    BY <1>1, <1>5 DEF TakeTask, Sleep, Pause, Resume, Fetching, Goto, queueVars, Pending, Held
  <1>6. Pending' = Pending
    BY <1>3, <1>4, <1>5
  <1>7. Running' = Running
    BY <1>1, <1>2, RunningUnion, RunningUnionPrime DEF RunningOf
  <1>8. Done' = Done
    BY <1>1, <1>7 DEF Done
  <1>9. NoTaskLost'
    BY <1>1, <1>6, KeepsPending, Typed DEF EInv
  <1>10. Tracking'
    BY <1>1, <1>2 DEF EInv, Tracking
  <1>11. Cancelling' = Cancelling
    BY <1>1, <1>2 DEF Cancelling
  <1> QED BY <1>6, <1>7, <1>8, <1>9, <1>10, <1>11, ExecutorStands

-----------------------------------------------------------------------------
(* The script thread.                                                      *)

\* Steps that touch neither the tasks nor the list.
LEMMA ScriptStutters ==
  ASSUME EInv,
         \/ WorkerPaused
         \/ Restart
         \/ \E t \in Tasks : CallSync(t)
         \/ \E id \in Slots : GetResult(id) \/ CancelOverflow(id)
         \/ \E l \in Listeners, id \in Slots, s \in Signals : AddListener(l, id, s)
         \/ \E c \in callbacks : Deliver(c)
         \/ UNCHANGED vars
  PROVE  [Executor!Next]_(Executor!vars) /\ Tracking' /\ NoTaskLost'
  <1> USE NoTaskAssumption DEF Executing, Threads, Completed
  <1>1. /\ queue' = queue /\ taskState' = taskState /\ cur'["worker"] = cur["worker"]
        /\ \A id \in Slots : s_tasks'[id] \in {s_tasks[id], NoTask}
        /\ pc'["worker"] = pc["worker"] \/ (pc["worker"] = "waiting" /\ pc'["worker"] = "woken")
    BY Typed DEF WorkerPaused, Restart, CallSync, GetResult, CancelOverflow, AddListener, Deliver,
         Goto, GotoNotifying, queueVars, taskVars, vars
  <1>2. \/ pc'["main"] = pc["main"] /\ cur'["main"] = cur["main"]
        \/ /\ pc["main"] = "woken" /\ pc'["main"] = "start" /\ cur'["main"] = cur["main"]
        \/ /\ pc["main"] \in {"idle", "resume"} /\ pc'["main"] \in {"idle", "dead"}
           /\ cur'["main"] = cur["main"]
        \/ /\ pc["main"] = "idle" /\ pc'["main"] \in {"waiting", "start"}
           /\ taskState[cur'["main"]] = "NONE"
    BY Typed DEF WorkerPaused, Restart, CallSync, GetResult, CancelOverflow, AddListener, Deliver,
         Idle, Fresh, Goto, GotoNotifying, queueVars, taskVars, vars
  <1>3. Pending' = Pending
    BY <1>1 DEF Pending, Held
  <1>4. Running' = Running
    BY <1>1, <1>2, RunningUnion, RunningUnionPrime DEF RunningOf
  <1>5. Done' = Done
    BY <1>1, <1>4 DEF Done
  <1>6. NoTaskLost'
    BY <1>1, <1>3, KeepsPending, Typed
    DEF EInv
  <1>7. Tracking'
    BY <1>1, <1>2 DEF EInv, Tracking
  <1>8. Cancelling' = Cancelling
    BY <1>1, <1>2 DEF Cancelling
  <1> QED BY <1>3, <1>4, <1>5, <1>6, <1>7, <1>8, ExecutorStands

LEMMA ScriptDrops ==
  ASSUME EInv, Clean \/ CancelAll
  PROVE  [Executor!Next]_(Executor!vars) /\ Tracking' /\ NoTaskLost'
  <1> USE NoTaskAssumption
  <1>1. /\ queue' = <<>> /\ cur' = cur /\ taskState' = taskState
        /\ s_tasks' = [i \in Slots |-> NoTask] /\ queue \in Seq(Tasks)
        /\ cur["worker"] \in Tasks \cup {NoTask}
    BY Typed DEF Clean, CancelAll, CleanAll, taskVars, Threads
  <1>0. /\ pc'["worker"] = pc["worker"] /\ pc["main"] \in {"idle", "canceled"}
        /\ pc'["main"] = "idle" /\ cur["main"] = NoTask
    BY Typed DEF Clean, CancelAll, Idle, Goto, Threads, EInv, Tracking
  <1>2. Running' = Running /\ Done' = Done
    <2>1. Running' = Running
      BY <1>0, <1>1, RunningUnion, RunningUnionPrime DEF RunningOf, Executing
    <2> QED BY <1>1, <2>1 DEF Done
  <1>3. Held' = Held /\ Pending' = Held
    BY <1>0, <1>1, ConcatEmptySeq, Typed, HeldType DEF Held, Pending
  <1>4. CASE Held = <<>>
    <2>1. Executor!DropAll
      BY <1>0, <1>2, <1>3, <1>4 DEF Executor!DropAll, Done
    <2>2. NoTaskLost'
      BY <1>1, <1>3, <1>4 DEF NoTaskLost, Free
    <2>3. Tracking'
      BY <1>0, <1>1 DEF EInv, Tracking, Threads, Executing
    <2> QED BY <2>1, <2>2, <2>3 DEF Executor!Next
  <1>5. CASE Held # <<>>
    <2> DEFINE c == cur["worker"]
    <2>1. Held = <<c>> /\ c \in Tasks
      BY <1>1, <1>5 DEF Held
    <2>2. Pending[1] = c /\ Len(Pending) = Len(queue) + 1 /\ Len(queue) \in Nat
      BY <1>1, <2>1, HandFirst, LenProperties DEF Pending
    <2>3. 1 \in DOMAIN Pending /\ Pending' = <<Pending[1]>> /\ 1 \in 1 .. Len(Pending)
      BY <1>3, <2>1, <2>2, Typed, HeldType, LenProperties
    <2>4. Executor!DropAll
      BY <1>0, <1>2, <2>3 DEF Executor!DropAll, Done
    <2>5. taskState[c] = "READY"
      BY <2>2, <2>3 DEF EInv, NoTaskLost
    <2>6. NoTaskLost'
      BY <1>1, <1>3, <2>1, <2>5 DEF NoTaskLost, Free
    <2>7. Tracking'
      BY <1>0, <1>1 DEF EInv, Tracking, Threads, Executing
    <2> QED BY <2>4, <2>6, <2>7 DEF Executor!Next
  <1> QED BY <1>4, <1>5

LEMMA ScriptAdds ==
  ASSUME EInv, NEW t \in Tasks, NEW id \in Slots, CallAsync(t, id)
  PROVE  [Executor!Next]_(Executor!vars) /\ Tracking' /\ NoTaskLost'
  <1> USE NoTaskAssumption DEF Executing, Threads, Completed
  <1>1. /\ taskState[t] = "NONE" /\ cur["main"] # t /\ cur["worker"] # t
        /\ queue' = Append(queue, t) /\ taskState' = [taskState EXCEPT ![t] = "READY"]
        /\ s_tasks' = [s_tasks EXCEPT ![id] = t] /\ cur' = cur /\ pc["main"] = "idle"
        /\ queue \in Seq(Tasks) /\ s_tasks \in [Slots -> Tasks \cup {NoTask}]
        /\ taskState \in [Tasks -> TaskStates] /\ pc \in [Threads -> Places]
    BY Typed DEF CallAsync, Idle, Fresh, AddToTail
  <1>2. /\ pc'["main"] = "idle"
        /\ \/ pc'["worker"] = pc["worker"]
           \/ pc["worker"] = "waiting" /\ pc'["worker"] = "woken"
           \/ pc["worker"] = "none" /\ pc'["worker"] = "take"
    BY <1>1 DEF CallAsync, WakeWorker, Goto, GotoNotifying
  <1>3. Held' = Held
    BY <1>1, <1>2 DEF Held, EInv, Tracking
  <1>4. Held \in Seq(Tasks) /\ Pending \in Seq(Tasks)
    BY Typed, HeldType
  <1>5. Pending' = Append(Pending, t)
    BY <1>1, <1>3, <1>4, AppendToPending DEF Pending
  <1>6. Running' = Running /\ t \notin Running
    BY <1>1, <1>2, RunningUnion, RunningUnionPrime DEF RunningOf
  <1>7. Done' = Done /\ t \notin Done
    BY <1>1, <1>6 DEF Done
  <1>8. ~IsPending(t)
    BY <1>1 DEF EInv, NoTaskLost, IsPending
  <1>9. Executor!Add(t)
    BY <1>1, <1>2, <1>5, <1>6, <1>7, <1>8
    DEF Executor!Add, Executor!Fresh, Executor!IsPending, IsPending, Done
  <1>10. /\ Len(Pending') = Len(Pending) + 1 /\ Len(Pending) \in Nat
         /\ \A i \in 1 .. Len(Pending) : Pending'[i] = Pending[i] /\ Pending[i] \in Tasks
         /\ Pending'[Len(Pending) + 1] = t
    BY <1>4, <1>5, Appended, LenProperties, ElementOfSeq
  <1>11. NoTaskLost'
    <2>1. ASSUME NEW k \in Slots, s_tasks'[k] # NoTask, taskState'[s_tasks'[k]] = "READY"
          PROVE  \E i \in 1 .. Len(Pending') : Pending'[i] = s_tasks'[k]
      <3>1. CASE s_tasks'[k] = t
        <4>1. Len(Pending) + 1 \in 1 .. Len(Pending')
          BY <1>10
        <4> QED BY <1>10, <3>1, <4>1
      <3>2. CASE s_tasks'[k] # t
        <4>1. s_tasks'[k] = s_tasks[k] /\ s_tasks[k] \in Tasks /\ taskState[s_tasks[k]] = "READY"
          BY <1>1, <2>1, <3>2
        <4>2. PICK i \in 1 .. Len(Pending) : Pending[i] = s_tasks[k]
          BY <2>1, <4>1 DEF EInv, NoTaskLost, Free, IsPending
        <4>3. i \in 1 .. Len(Pending') /\ Pending'[i] = s_tasks'[k]
          BY <1>10, <4>1, <4>2
        <4> QED BY <4>3
      <3> QED BY <3>1, <3>2
    <2>2. ASSUME NEW i \in 1 .. Len(Pending'), NEW k \in 1 .. Len(Pending'), Pending'[i] = Pending'[k]
          PROVE  i = k
      <3>1. \A n \in 1 .. Len(Pending) : Pending[n] # t
        BY <1>8 DEF IsPending
      <3>2. \A m, n \in 1 .. Len(Pending) : Pending[m] = Pending[n] => m = n
        BY DEF EInv, NoTaskLost
      <3> QED BY <1>10, <2>2, <3>1, <3>2
    <2>3. ASSUME NEW i \in 1 .. Len(Pending') PROVE taskState'[Pending'[i]] = "READY"
      <3>1. CASE i = Len(Pending) + 1
        BY <1>1, <1>10, <3>1
      <3>2. CASE i # Len(Pending) + 1
        <4>1. i \in 1 .. Len(Pending)
          BY <1>10, <3>2
        <4>2. taskState[Pending[i]] = "READY" /\ Pending[i] \in Tasks /\ Pending'[i] = Pending[i]
          BY <1>10, <4>1 DEF EInv, NoTaskLost
        <4> QED BY <1>1, <4>2
      <3> QED BY <3>1, <3>2
    <2> QED BY <2>1, <2>2, <2>3 DEF NoTaskLost, Free, IsPending
  <1>12. Tracking'
    <2>1. \A p \in Threads : pc'[p] \in Executing => pc[p] = pc'[p] /\ cur[p] \in Tasks \ {t}
      BY <1>1, <1>2, Typed
    <2> QED BY <1>1, <1>2, <2>1 DEF EInv, Tracking
  <1> QED BY <1>9, <1>11, <1>12 DEF Executor!Next

-----------------------------------------------------------------------------
(* Cancel: what the first locked part leaves.                              *)

LEMMA ScriptCancels ==
  ASSUME EInv, NEW id \in Slots, Cancel(id)
  PROVE  [Executor!Next]_(Executor!vars) /\ Tracking' /\ NoTaskLost'
  <1> USE NoTaskAssumption DEF Executing, Threads, Completed
  <1> DEFINE t == s_tasks[id]
  <1>1. /\ t \in Tasks /\ ~RemoveOverflows(t) /\ ~Free(id) /\ pc["main"] = "idle"
        /\ pc' = [pc EXCEPT !["main"] = "canceled"] /\ cur' = cur /\ taskState' = taskState
        /\ s_tasks' = [s_tasks EXCEPT ![id] = NoTask]
        /\ queue \in Seq(Tasks) /\ s_tasks \in [Slots -> Tasks \cup {NoTask}]
        /\ pc \in [Threads -> Places] /\ cur["worker"] \in Tasks \cup {NoTask}
    BY Typed DEF Cancel, Idle, Free, Goto, taskVars
  <1>2. Held' = Held /\ Held \in Seq(Tasks) /\ Pending \in Seq(Tasks)
    BY <1>1, Typed, HeldType DEF Held
  <1>12. PICK h \in {0, 1} : Len(Held) = h
    <2>1. Len(Held) = 0 \/ Len(Held) = 1
      BY <1>1 DEF Held
    <2> QED BY <2>1
  <1>3. Running' = Running /\ Done' = Done
    <2>1. Running' = Running
      BY <1>1, RunningUnion, RunningUnionPrime DEF RunningOf
    <2> QED BY <1>1, <2>1 DEF Done
  <1>4. Tracking'
    BY <1>1 DEF EInv, Tracking
  <1>5. /\ \A i, k \in 1 .. Len(Pending) : Pending[i] = Pending[k] => i = k
        /\ \A i \in 1 .. Len(Pending) : taskState[Pending[i]] = "READY"
        /\ \A k \in Slots : s_tasks[k] # NoTask /\ taskState[s_tasks[k]] = "READY" =>
             \E i \in 1 .. Len(Pending) : Pending[i] = s_tasks[k]
        /\ \A k \in Slots : k # id => s_tasks'[k] = s_tasks[k] /\ s_tasks[k] # t
        /\ s_tasks'[id] = NoTask
    BY <1>1 DEF EInv, NoTaskLost, IsPending, Free, Indexed
  <1>13. NoRepetition(Pending)
    BY <1>5 DEF NoRepetition
  <1> DEFINE How == \/ ~IsPending(t) /\ Pending' = Pending
                    \/ \E i \in 1 .. Len(Pending) - 1 : Pending[i] = t /\ Pending' = RemoveAt(Pending, i)
                    \/ /\ IsPending(t) /\ Last(Pending) = t
                       /\ \E i \in {1, 2} \cap DOMAIN Pending :
                            Pending' = Append(RemoveAt(Pending, i), Pending[i])
  <1>6. ASSUME taskState[t] # "READY"
        PROVE  How /\ NoTaskLost'
    <2>1. Pending' = Pending
      BY <1>1, <1>2, <1>6 DEF Cancel, Pending
    <2>2. ~IsPending(t)
      BY <1>5, <1>6 DEF IsPending
    <2>3. How
      BY <2>1, <2>2
    <2>4. NoTaskLost'
      BY <1>1, <1>5, <2>1 DEF NoTaskLost, Free, IsPending
    <2> QED BY <2>3, <2>4
  <1>7. ASSUME taskState[t] = "READY", queue = <<>>
        PROVE  How /\ NoTaskLost'
    <2>1. Pending' = Held /\ Pending = Held
      BY <1>1, <1>2, <1>7, ConcatEmptySeq DEF Cancel, RemoveLink, Pending
    <2>2. IsPending(t)
      BY <1>1, <1>5, <1>7 DEF IsPending
    <2>3. Len(Held) = 1 /\ Held[1] = t
      BY <1>12, <2>1, <2>2 DEF IsPending
    <2>4. Append(RemoveAt(Held, 1), Held[1]) = Held
      <3>1. 1 \in 1 .. Len(Held)
        BY <2>3
      <3>5. RemoveAt(Held, 1) \in Seq(Tasks) /\ Len(RemoveAt(Held, 1)) = Len(Held) - 1
        BY <1>2, <3>1, Removed
      <3>2. RemoveAt(Held, 1) \in Seq(Tasks) /\ Len(RemoveAt(Held, 1)) = 0
        BY <2>3, <3>5
      <3>3. RemoveAt(Held, 1) = <<>>
        BY <3>2, EmptySeq
      <3>4. Append(<<>>, t) = <<t>> /\ Held = <<t>>
        BY <1>2, <2>3
      <3> QED BY <2>3, <3>3, <3>4
    <2>5. How
      <3>1. 1 \in DOMAIN Pending /\ Last(Pending) = t
        BY <1>2, <2>1, <2>3, LenProperties DEF Last
      <3> QED BY <2>1, <2>2, <2>4, <3>1
    <2>6. NoTaskLost'
      BY <1>1, <1>5, <2>1 DEF NoTaskLost, Free, IsPending
    <2> QED BY <2>5, <2>6
  <1>8. ASSUME taskState[t] = "READY", queue # <<>>, Last(queue) = t
        PROVE  How /\ NoTaskLost'
    <2> DEFINE m == h + 1
    <2>1. queue' = Append(RemoveAt(queue, 1), queue[1]) /\ 1 \in 1 .. Len(queue)
      BY <1>1, <1>8, TailRemoves DEF Cancel, RemoveLink
    <2>2. /\ m \in 1 .. Len(Pending) /\ Pending[m] = queue[1] /\ Len(Pending) = Len(Held) + Len(queue)
          /\ Held \o RemoveAt(queue, 1) = RemoveAt(Pending, m)
      BY <1>1, <1>2, <1>12, <2>1, RemoveBehind DEF Pending
    <2>3. RemoveAt(queue, 1) \in Seq(Tasks) /\ queue[1] \in Tasks
      BY <1>1, <2>1, Removed, ElementOfSeq
    <2>4. Pending' = Append(RemoveAt(Pending, m), Pending[m])
      <3>1. Held \o Append(RemoveAt(queue, 1), queue[1]) = Append(Held \o RemoveAt(queue, 1), queue[1])
        BY <1>2, <2>3, AppendToPending
      <3>2. Pending' = Held \o queue'
        BY <1>2 DEF Pending
      <3> QED BY <2>1, <2>2, <3>1, <3>2
    <2>5. Last(Pending) = t
      <3>1. Len(queue) \in 1 .. Len(queue)
        BY <1>1, <2>1, LenProperties
      <3>2. Pending[Len(Held) + Len(queue)] = queue[Len(queue)]
        BY <1>1, <1>2, <3>1, RemoveBehind DEF Pending
      <3> QED BY <1>8, <2>2, <3>2 DEF Last
    <2>6. How
      <3>1. m \in {1, 2}
        BY <1>12
      <3>2. IsPending(t)
        BY <1>1, <1>5, <1>8 DEF Free, IsPending
      <3> HIDE DEF m
      <3>3. m \in DOMAIN Pending
        BY <1>2, <2>2, LenProperties
      <3> QED BY <2>4, <2>5, <3>1, <3>2, <3>3
    <2> HIDE DEF m
    <2>11. HoldsAll(Pending', Pending)
      BY <1>2, <1>13, <2>2, <2>4, AllStay
    <2>7. /\ \A k \in 1 .. Len(Pending') : \E i \in 1 .. Len(Pending) : Pending'[k] = Pending[i]
          /\ \A i \in 1 .. Len(Pending) : \E k \in 1 .. Len(Pending') : Pending'[k] = Pending[i]
          /\ \A k, l \in 1 .. Len(Pending') : Pending'[k] = Pending'[l] => k = l
      BY <2>11 DEF HoldsAll, NoRepetition
    <2>8. ASSUME NEW k \in Slots, s_tasks'[k] # NoTask, taskState[s_tasks'[k]] = "READY"
          PROVE  \E i \in 1 .. Len(Pending') : Pending'[i] = s_tasks'[k]
      <3>1. s_tasks'[k] = s_tasks[k]
        BY <1>5, <2>8
      <3>2. PICK i \in 1 .. Len(Pending) : Pending[i] = s_tasks[k]
        BY <1>5, <2>8, <3>1
      <3> QED BY <2>7, <3>1, <3>2
    <2>9. \A k \in 1 .. Len(Pending') : taskState[Pending'[k]] = "READY"
      BY <1>5, <2>7
    <2>10. NoTaskLost'
      BY <1>1, <2>7, <2>8, <2>9 DEF NoTaskLost, Free, IsPending
    <2> QED BY <2>6, <2>10
  <1>9. ASSUME taskState[t] = "READY", queue # <<>>, Last(queue) # t
        PROVE  How /\ NoTaskLost'
    <2>1. DOMAIN queue = 1 .. Len(queue) /\ Len(queue) \in Nat
      BY <1>1, LenProperties
    <2>2. PICK c \in 1 .. Len(queue) : queue[c] = t /\ queue' = RemoveAt(queue, c)
      <3> DEFINE i == CHOOSE k \in DOMAIN queue : queue[k] = t
      <3>1. i \in 1 .. Len(queue) /\ queue[i] = t
        BY <1>1, <1>9, <2>1 DEF RemoveOverflows
      <3>2. queue' = RemoveAt(queue, i)
        BY <1>9 DEF Cancel, RemoveLink
      <3> HIDE DEF i
      <3> QED BY <3>1, <3>2
    <2> DEFINE m == h + c
    <2>4. c # Len(queue)
      BY <1>9, <2>2 DEF Last
    <2>5. /\ m \in 1 .. Len(Pending) /\ Pending[m] = t /\ Len(Pending) = Len(Held) + Len(queue)
          /\ Held \o RemoveAt(queue, c) = RemoveAt(Pending, m)
      BY <1>1, <1>2, <1>12, <2>2, RemoveBehind DEF Pending
    <2>6. Pending' = RemoveAt(Pending, m)
      BY <1>2, <2>2, <2>5 DEF Pending
    <2>7. m \in 1 .. Len(Pending) - 1
      <3>1. Len(Pending) = h + Len(queue)
        BY <1>12, <2>5
      <3>3. Len(queue) \in Nat /\ c \in 1 .. Len(queue)
        BY <2>1
      <3>2. c \in 1 .. Len(queue) - 1
        BY <3>3, <2>4
      <3> QED BY <2>1, <3>1, <3>2
    <2> HIDE DEF m
    <2>8. How
      BY <2>5, <2>6, <2>7
    <2>13. HoldsOthers(Pending', Pending, m)
      BY <1>2, <1>13, <2>5, <2>6, OthersStay
    <2>9. /\ \A k \in 1 .. Len(Pending') : \E i \in 1 .. Len(Pending) : Pending'[k] = Pending[i]
          /\ \A i \in 1 .. Len(Pending) : i # m => \E k \in 1 .. Len(Pending') : Pending'[k] = Pending[i]
          /\ \A k, l \in 1 .. Len(Pending') : Pending'[k] = Pending'[l] => k = l
      BY <2>13 DEF HoldsOthers, NoRepetition
    <2>10. ASSUME NEW k \in Slots, s_tasks'[k] # NoTask, taskState[s_tasks'[k]] = "READY"
           PROVE  \E i \in 1 .. Len(Pending') : Pending'[i] = s_tasks'[k]
      <3>1. s_tasks'[k] = s_tasks[k] /\ s_tasks[k] # t
        BY <1>5, <2>10
      <3>2. PICK i \in 1 .. Len(Pending) : Pending[i] = s_tasks[k]
        BY <1>5, <2>10, <3>1
      <3>3. i # m
        BY <2>5, <3>1, <3>2
      <3> QED BY <2>9, <3>1, <3>2, <3>3
    <2>11. \A k \in 1 .. Len(Pending') : taskState[Pending'[k]] = "READY"
      BY <1>5, <2>9
    <2>12. NoTaskLost'
      BY <1>1, <2>9, <2>10, <2>11 DEF NoTaskLost, Free, IsPending
    <2> QED BY <2>8, <2>12
  <1>10. How /\ NoTaskLost'
    BY <1>6, <1>7, <1>8, <1>9
  <1>11. Executor!Cancel(t)
    <2>1. /\ \A i : Executor!RemoveAt(Pending, i) = RemoveAt(Pending, i)
          /\ Executor!Last(Pending) = Last(Pending)
      BY DEF Executor!RemoveAt, RemoveAt, Executor!Last, Last
    <2>2. pc["main"] # "canceled" /\ pc'["main"] = "canceled"
      BY <1>1
    <2> QED BY <1>3, <1>10, <2>1, <2>2
            DEF Executor!Cancel, Executor!IsPending, Executor!ToEnd, IsPending, Done
  <1> QED BY <1>1, <1>4, <1>10, <1>11 DEF Executor!Next

-----------------------------------------------------------------------------
(* The indices.                                                            *)

\* Steps that add no task keep the indices apart.
LEMMA KeepsIndices ==
  ASSUME TypeOK, Indexed, \A id \in Slots : s_tasks'[id] \in {s_tasks[id], NoTask},
         \A t \in Tasks : taskState'[t] = "NONE" => taskState[t] = "NONE"
  PROVE  Indexed'
  <1>1. \A id \in Slots : s_tasks[id] \in Tasks \cup {NoTask}
    BY DEF TypeOK
  <1> QED BY <1>1 DEF Indexed, Free

LEMMA IndexStep == ASSUME EInv, [Next]_vars PROVE Indexed'
  <1> USE NoTaskAssumption
  <1>0. /\ TypeOK /\ Indexed /\ s_tasks \in [Slots -> Tasks \cup {NoTask}]
        /\ taskState \in [Tasks -> TaskStates]
    BY Typed DEF EInv
  <1>1. CASE \E p \in Threads : RunTask(p)
    <2>1. PICK p \in Threads : RunTask(p)
      BY <1>1
    <2>2. s_tasks' = s_tasks
      BY <2>1 DEF RunTask, Start, Decode, Finish, Fail, OnSuccess, OnError
    <2>3. \/ taskState' = taskState
          \/ \E s \in {"RUNNING", "FINISHED", "ERROR"} : taskState' = [taskState EXCEPT ![cur[p]] = s]
      BY <2>1 DEF RunTask, Start, Decode, Finish, Fail, OnSuccess, OnError, SetState, taskVars
    <2>4. \A t \in Tasks : taskState'[t] = "NONE" => taskState[t] = "NONE"
      BY <1>0, <2>3
    <2> QED BY <1>0, <2>2, <2>4, KeepsIndices
  <1>2. ASSUME NEW t \in Tasks, NEW id \in Slots, CallAsync(t, id) PROVE Indexed'
    <2>1. /\ s_tasks' = [s_tasks EXCEPT ![id] = t] /\ taskState[t] = "NONE"
          /\ taskState' = [taskState EXCEPT ![t] = "READY"]
      BY <1>2 DEF CallAsync, Fresh
    <2>2. \A k \in Slots : s_tasks[k] # t
      BY <1>0, <2>1 DEF Indexed, Free
    <2> QED BY <1>0, <2>1, <2>2 DEF Indexed, Free
  <1>3. CASE Clean \/ CancelAll
    BY <1>0, <1>3, KeepsIndices DEF Clean, CancelAll, CleanAll, taskVars
  <1>4. ASSUME NEW id \in Slots, GetResult(id) \/ Cancel(id) \/ CancelOverflow(id) PROVE Indexed'
    <2>1. taskState' = taskState /\ \A k \in Slots : s_tasks'[k] \in {s_tasks[k], NoTask}
      BY <1>0, <1>4 DEF GetResult, Cancel, CancelOverflow, taskVars
    <2> QED BY <1>0, <2>1, KeepsIndices
  <1>5. CASE \/ TakeTask \/ Sleep \/ Pause \/ Resume \/ WorkerPaused \/ Restart
             \/ (\E t \in Tasks : CallSync(t))
             \/ (\E l \in Listeners, id \in Slots, s \in Signals : AddListener(l, id, s))
             \/ (\E c \in callbacks : Deliver(c)) \/ UNCHANGED vars
    <2>1. s_tasks' = s_tasks /\ taskState' = taskState
      BY <1>5 DEF TakeTask, Sleep, Pause, Resume, WorkerPaused, Restart, CallSync, AddListener,
                  Deliver, taskVars, vars
    <2> QED BY <1>0, <2>1, KeepsIndices
  <1> QED
    BY <1>1, <1>2, <1>3, <1>4, <1>5
    DEF Next, Worker, Main, RunTaskNow, JsonRpc, Threads

-----------------------------------------------------------------------------
LEMMA EInit == Init => EInv /\ Executor!Init
  <1> SUFFICES ASSUME Init PROVE EInv /\ Executor!Init
    OBVIOUS
  <1>1. IInv
    BY InitIInv
  <1>2. Held = <<>> /\ Pending = <<>>
    BY DEF Init, Held, Pending, Threads
  <1>3. Running = {} /\ Done = {}
    BY RunningUnion DEF Init, RunningOf, Done, Threads, Executing, Completed
  <1>4. Tracking
    BY DEF Init, Tracking, Threads, Executing
  <1>5. NoTaskLost
    BY <1>2 DEF Init, NoTaskLost, Free
  <1>6. Indexed /\ pc["main"] # "canceled"
    BY DEF Init, Indexed, Free, Threads
  <1> QED BY <1>1, <1>2, <1>3, <1>4, <1>5, <1>6 DEF EInv, Executor!Init, Done

LEMMA EStep == EInv /\ [Next]_vars => EInv' /\ [Executor!Next]_(Executor!vars)
  <1> SUFFICES ASSUME EInv, [Next]_vars PROVE EInv' /\ [Executor!Next]_(Executor!vars)
    OBVIOUS
  <1>1. IInv'
    BY RunTaskStep, WorkerStep, ScriptStep, Stuttering
    DEF EInv, Next, Worker, Main, RunTaskNow, Threads
  <1>6. Indexed'
    BY IndexStep
  <1>2. CASE \E p \in Threads : RunTask(p)
    BY <1>1, <1>2, <1>6, MainStarts, WorkerStarts, JobGoesOn, JobEnds DEF RunTask, EInv, Threads
  <1>3. CASE TakeTask \/ Sleep \/ Pause \/ Resume
    BY <1>1, <1>3, <1>6, WorkerTakes DEF EInv
  <1>7. CASE CancelAll
    BY <1>1, <1>6, <1>7, ScriptDrops DEF EInv
  <1>4. CASE WorkerPaused \/ Restart \/ (\E c \in callbacks : Deliver(c)) \/ UNCHANGED vars
    BY <1>1, <1>4, <1>6, ScriptStutters DEF EInv
  <1>5. CASE JsonRpc
    <2>1. ASSUME NEW t \in Tasks, CallSync(t) PROVE EInv' /\ [Executor!Next]_(Executor!vars)
      BY <1>1, <1>6, <2>1, ScriptStutters DEF EInv
    <2>2. ASSUME NEW t \in Tasks, NEW id \in Slots, CallAsync(t, id)
          PROVE  EInv' /\ [Executor!Next]_(Executor!vars)
      BY <1>1, <1>6, <2>2, ScriptAdds DEF EInv
    <2>3. CASE Clean
      BY <1>1, <1>6, <2>3, ScriptDrops DEF EInv
    <2>4. ASSUME NEW id \in Slots, GetResult(id) \/ CancelOverflow(id)
          PROVE  EInv' /\ [Executor!Next]_(Executor!vars)
      BY <1>1, <1>6, <2>4, ScriptStutters DEF EInv
    <2>5. ASSUME NEW l \in Listeners, NEW id \in Slots, NEW s \in Signals, AddListener(l, id, s)
          PROVE  EInv' /\ [Executor!Next]_(Executor!vars)
      BY <1>1, <1>6, <2>5, ScriptStutters DEF EInv
    <2>6. ASSUME NEW id \in Slots, Cancel(id) PROVE EInv' /\ [Executor!Next]_(Executor!vars)
      BY <1>1, <1>6, <2>6, ScriptCancels DEF EInv
    <2> QED BY <1>5, <2>1, <2>2, <2>3, <2>4, <2>5, <2>6 DEF JsonRpc
  <1> QED BY <1>2, <1>3, <1>4, <1>5, <1>7 DEF Next, Worker, Main, RunTaskNow, Threads

-----------------------------------------------------------------------------
\* A task a script holds an index for is pending exactly once until it starts,
\* through every pause, cancellation and cleaning of the queue.
THEOREM TasksAreKept == Spec => []NoTaskLost
  <1>1. Init => EInv
    BY EInit
  <1>2. EInv /\ [Next]_vars => EInv'
    BY EStep
  <1>3. EInv => NoTaskLost
    BY DEF EInv
  <1> QED BY <1>1, <1>2, <1>3, PTL DEF Spec

\* The queue, its worker and runTaskNow implement an executor of one task at a
\* time that runs the added tasks in their order.
THEOREM QueueIsAnExecutor == Spec => ImplementsExecutor
  <1>1. Init => EInv /\ Executor!Init
    BY EInit
  <1>2. EInv /\ [Next]_vars => EInv' /\ [Executor!Next]_(Executor!vars)
    BY EStep
  <1> QED BY <1>1, <1>2, PTL DEF Spec, ImplementsExecutor, Executor!Spec

=============================================================================
