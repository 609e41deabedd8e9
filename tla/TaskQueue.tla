------------------------------ MODULE TaskQueue ------------------------------
(***************************************************************************)
(* TaskQueue.java, Task.java, JsonTask.java and TaskListenerCb.java: the   *)
(* queue of remote calls a scene's scripts make.  The script thread        *)
(* ("main") adds, cancels and queries tasks and may run one itself         *)
(* (runTaskNow) after pausing the worker thread ("worker"), which executes *)
(* the queued tasks one at a time.                                         *)
(*                                                                         *)
(* An action is what one thread does between two points where the other    *)
(* one can interfere: a synchronized block, or a step outside the lock.    *)
(***************************************************************************)
EXTENDS Naturals, Sequences, SequencesExt

CONSTANTS
  Tasks,       \* the Task objects scripts may create; each one is used once
  Slots,       \* the indices of s_tasks: 0 .. MAX_TASKS - 1
  Listeners,   \* the TaskListenerCb objects scripts may create
  NoTask       \* null

ASSUME NoTaskAssumption == NoTask \notin Tasks
ASSUME SlotsAssumption == Slots \subseteq Nat

VARIABLES
  m_state,     \* TaskQueue.m_state
  queue,       \* the circular list behind m_tail, oldest first
  s_tasks,     \* the table that gives scripts an index for each async task
  pc,          \* where each thread is
  cur,         \* the local variable 'task' of each thread
  pauseThread, \* the local variable of runTaskNow
  taskState,   \* Task.m_state
  result,      \* JsonTask.m_result
  listeners,   \* Task.m_listeners
  tlc,         \* the fields of each TaskListenerCb
  callbacks    \* callbacks posted to the Script and not invoked yet

queueVars    == <<m_state, queue>>
taskVars     == <<taskState, result>>
listenerVars == <<listeners, tlc, callbacks>>
vars == <<m_state, queue, s_tasks, pc, cur, pauseThread,
          taskState, result, listeners, tlc, callbacks>>

QueueStates == {"STOPPED", "WORK", "PAUSE", "PAUSED"}
TaskStates  == {"NONE", "READY", "RUNNING", "FINISHED", "ERROR"}
Completed   == {"FINISHED", "ERROR"}
\* The state a TaskListenerCb waits for; "allStates" is m_state = 0.
Signals     == {"RUNNING", "FINISHED", "ERROR", "allStates"}
\* null; the decoded answer; its "result" member; the response code.
Results     == {"null", "raw", "value", "code"}

Threads == {"main", "worker"}
\* Both threads run a task through the same calls.
Executing == {"start", "job", "decoded", "finished", "failed"}

NoCb == [task |-> NoTask, id |-> 0, signal |-> "none", param |-> "NONE"]

Init ==
  /\ m_state = "STOPPED"
  /\ queue = <<>>
  /\ s_tasks = [i \in Slots |-> NoTask]
  /\ pc = [p \in Threads |-> IF p = "main" THEN "idle" ELSE "none"]
  /\ cur = [p \in Threads |-> NoTask]
  /\ pauseThread = FALSE
  /\ taskState = [t \in Tasks |-> "NONE"]
  /\ result = [t \in Tasks |-> "null"]
  /\ listeners = [t \in Tasks |-> {}]
  /\ tlc = [l \in Listeners |-> NoCb]
  /\ callbacks = {}

-----------------------------------------------------------------------------
(* Tasks and their listeners.                                              *)

Fires(l, s) == tlc[l].signal \in {s, "allStates"}

\* Mutant: the listener's parameter gets the result instead of the state.
SetStatePassesResult(t, s) ==
  /\ taskState' = [taskState EXCEPT ![t] = s]
  /\ callbacks' = callbacks \cup
       {[listener |-> l, state |-> s] : l \in {k \in listeners[t] : Fires(k, s)}}
  /\ tlc' = [l \in Listeners |->
               IF l \in listeners[t] /\ tlc[l].signal = "allStates"
               THEN [tlc[l] EXCEPT !.param = result[t]] ELSE tlc[l]]

(***************************************************************************)
(* Task.setState, then notifyListeners: every listener whose signal fits   *)
(* posts a callback.  An "allStates" listener writes the state into the    *)
(* one Register that all its callbacks share.                              *)
(***************************************************************************)
SetState(t, s) ==
  /\ taskState' = [taskState EXCEPT ![t] = s]
  /\ callbacks' = callbacks \cup
       {[listener |-> l, state |-> s] : l \in {k \in listeners[t] : Fires(k, s)}}
  /\ tlc' = [l \in Listeners |->
               IF l \in listeners[t] /\ tlc[l].signal = "allStates"
               THEN [tlc[l] EXCEPT !.param = s] ELSE tlc[l]]

\* Task.clean: the listeners of a completed task are released.
CleanTask(t) == listeners' = [listeners EXCEPT ![t] = {}]

Goto(p, l) == pc' = [pc EXCEPT ![p] = l]
\* m_lock.notify() by p, which continues at l: wakes the other thread q if it waits.
GotoNotifying(p, l, q) ==
  pc' = [pc EXCEPT ![p] = l, ![q] = IF @ = "waiting" THEN "woken" ELSE @]

-----------------------------------------------------------------------------
(* Running a task: the body of run() and of runTaskNow(), outside m_lock.  *)

\* task.setState(RUNNING)
Start(p) ==
  /\ pc[p] = "start"
  /\ SetState(cur[p], "RUNNING")
  /\ Goto(p, "job")
  /\ UNCHANGED <<queueVars, s_tasks, cur, pauseThread, result, listeners>>

\* JsonTask.doTheJob: the whole answer is in m_result before it is unwrapped.
Decode(p) ==
  /\ pc[p] = "job"
  /\ result' = [result EXCEPT ![cur[p]] = "raw"]
  /\ Goto(p, "decoded")
  /\ UNCHANGED <<queueVars, s_tasks, cur, pauseThread, taskState, listenerVars>>

\* doTheJob unwraps the result and returns: task.setState(FINISHED)
Finish(p) ==
  /\ pc[p] = "decoded"
  /\ result' = [result EXCEPT ![cur[p]] = "value"]
  /\ SetState(cur[p], "FINISHED")
  /\ Goto(p, "finished")
  /\ UNCHANGED <<queueVars, s_tasks, cur, pauseThread, listeners>>

\* The connection fails, or the answer is an error: task.setState(ERROR)
Fail(p) ==
  /\ pc[p] \in {"job", "decoded"}
  /\ SetState(cur[p], "ERROR")
  /\ Goto(p, "failed")
  /\ UNCHANGED <<queueVars, s_tasks, cur, pauseThread, result, listeners>>

\* Where a thread goes once task.onSuccess or task.onError has returned.
AfterTask(p) == IF p = "worker" THEN "take" ELSE
                IF pauseThread THEN "resume" ELSE "idle"

\* task.onSuccess()
OnSuccess(p) ==
  /\ pc[p] = "finished"
  /\ CleanTask(cur[p])
  /\ Goto(p, AfterTask(p))
  /\ cur' = [cur EXCEPT ![p] = NoTask]
  /\ UNCHANGED <<queueVars, s_tasks, pauseThread, taskVars, tlc, callbacks>>

\* task.onError(e): the response code becomes the result; never a retry.
OnError(p) ==
  /\ pc[p] = "failed"
  /\ result' = [result EXCEPT ![cur[p]] = "code"]
  /\ CleanTask(cur[p])
  /\ Goto(p, AfterTask(p))
  /\ cur' = [cur EXCEPT ![p] = NoTask]
  /\ UNCHANGED <<queueVars, s_tasks, pauseThread, taskState, tlc, callbacks>>

RunTask(p) == Start(p) \/ Decode(p) \/ Finish(p) \/ Fail(p) \/ OnSuccess(p) \/ OnError(p)

-----------------------------------------------------------------------------
(* The worker thread: the synchronized block of run().                     *)

\* The lock is free for the worker: its loop is about to fetch a task.
Fetching == pc["worker"] \in {"take", "woken"} /\ cur["worker"] = NoTask

\* Mutant: the task stays in the list.
PeekAtHead ==
  /\ queue' = queue
  /\ cur' = [cur EXCEPT !["worker"] = Head(queue)]

\* Link.removeFromHead
RemoveFromHead ==
  /\ queue' = Tail(queue)
  /\ cur' = [cur EXCEPT !["worker"] = Head(queue)]

\* Say that the worker is paused, and wait on the lock.
WaitPaused == m_state' = "PAUSED" /\ GotoNotifying("worker", "waiting", "main")

TakeTask ==
  /\ Fetching /\ queue # <<>> /\ m_state # "PAUSE"
  /\ RemoveFromHead
  /\ Goto("worker", "start")
  /\ UNCHANGED <<m_state, s_tasks, pauseThread, taskVars, listenerVars>>

\* Nothing to do.
Sleep ==
  /\ Fetching /\ queue = <<>>
  /\ WaitPaused
  /\ UNCHANGED <<queue, s_tasks, cur, pauseThread, taskVars, listenerVars>>

\* Asked to pause: the worker waits holding the task it has just removed.
Pause ==
  /\ Fetching /\ queue # <<>> /\ m_state = "PAUSE"
  /\ RemoveFromHead
  /\ WaitPaused
  /\ UNCHANGED <<s_tasks, pauseThread, taskVars, listenerVars>>

\* Woken with a task in hand: the loop ends, whatever m_state is.
Resume ==
  /\ pc["worker"] = "woken" /\ cur["worker"] # NoTask
  /\ Goto("worker", "start")
  /\ UNCHANGED <<queueVars, s_tasks, cur, pauseThread, taskVars, listenerVars>>

Worker == TakeTask \/ Sleep \/ Pause \/ Resume \/ RunTask("worker")

-----------------------------------------------------------------------------
(* The script thread: TaskQueue.doJsonRpc.                                 *)

Idle == pc["main"] = "idle"
Free(id) == s_tasks[id] = NoTask
FirstFree(id) == Free(id) /\ \A j \in Slots : j < id => ~Free(j)
Fresh(t) == taskState[t] = "NONE" /\ t \notin {cur["main"], cur["worker"]}

\* Mutant: a stack.
AddToHead(t) == <<t>> \o queue

\* Link.addToTail
AddToTail(t) == Append(queue, t)

\* Mutant: a worker that exists already is not notified.
WakeWorkerOnce == Goto("worker", IF pc["worker"] = "none" THEN "take" ELSE pc["worker"])

\* The end of addTask: the worker thread is started, or notified.
WakeWorker ==
  IF pc["worker"] = "none" THEN Goto("worker", "take")
                           ELSE GotoNotifying("main", "idle", "worker")

\* call (async = true): the task takes the first free index; addTask.
CallAsync(t, id) ==
  /\ Idle /\ Fresh(t) /\ FirstFree(id)
  /\ s_tasks' = [s_tasks EXCEPT ![id] = t]
  /\ queue' = AddToTail(t)
  /\ taskState' = [taskState EXCEPT ![t] = "READY"]
  /\ m_state' = "WORK"
  /\ WakeWorker
  /\ UNCHANGED <<cur, pauseThread, result, listenerVars>>

\* Mutant: the wrong state is taken for a pause.
PauseNeededWrongly == m_state = "PAUSED"

\* runTaskNow: the worker may be executing a task.
PauseNeeded == m_state \notin {"STOPPED", "PAUSED"}

\* call (async = false): runTaskNow up to its m_lock.wait().
CallSync(t) ==
  /\ Idle /\ Fresh(t)
  /\ cur' = [cur EXCEPT !["main"] = t]
  /\ pauseThread' = PauseNeeded
  /\ m_state' = IF pauseThread' THEN "PAUSE" ELSE m_state
  /\ Goto("main", IF pauseThread' THEN "waiting" ELSE "start")
  /\ UNCHANGED <<queue, s_tasks, taskVars, listenerVars>>

\* The wait returns: runTaskNow does not look at m_state again.
WorkerPaused ==
  /\ pc["main"] = "woken"
  /\ Goto("main", "start")
  /\ UNCHANGED <<queueVars, s_tasks, cur, pauseThread, taskVars, listenerVars>>

\* The end of runTaskNow: restart the worker thread.
Restart ==
  /\ pc["main"] = "resume"
  /\ m_state' = "WORK"
  /\ GotoNotifying("main", "idle", "worker")
  /\ UNCHANGED <<queue, s_tasks, cur, pauseThread, taskVars, listenerVars>>

\* clean(): the queue and the table are emptied; a running task goes on.
CleanAll ==
  /\ queue' = <<>>
  /\ s_tasks' = [i \in Slots |-> NoTask]
  /\ UNCHANGED <<m_state, cur, pauseThread, taskVars, listenerVars>>

\* clean, and every call on a free index: case 1 falls through to case 4.
Clean == Idle /\ CleanAll /\ UNCHANGED pc

\* getResult of a used index: reads m_result and frees the index.
GetResult(id) ==
  /\ Idle /\ ~Free(id)
  /\ s_tasks' = [s_tasks EXCEPT ![id] = NoTask]
  /\ UNCHANGED <<queueVars, pc, cur, pauseThread, taskVars, listenerVars>>

(***************************************************************************)
(* Link.remove follows m_next until it finds the object or null, and the   *)
(* list addToTail builds is circular: looking for a task that has already  *)
(* left a non-empty list never ends (StackOverflowError).                  *)
(***************************************************************************)
RemoveOverflows(t) ==
  taskState[t] = "READY" /\ queue # <<>> /\ \A i \in 1..Len(queue) : queue[i] # t

\* Link.remove on the circular list: the tail itself is not unlinked, but the link
\* behind it, the oldest, becomes the new tail.
RemoveLink(t) ==
  queue' = IF queue = <<>> THEN queue
           ELSE IF Last(queue) = t THEN Append(Tail(queue), Head(queue))
           ELSE RemoveAt(queue, CHOOSE i \in DOMAIN queue : queue[i] = t)

\* cancel: the synchronized block of cancelTask, then the index is freed.
Cancel(id) ==
  /\ Idle /\ ~Free(id) /\ ~RemoveOverflows(s_tasks[id])
  /\ IF taskState[s_tasks[id]] = "READY" THEN RemoveLink(s_tasks[id]) ELSE queue' = queue
  /\ s_tasks' = [s_tasks EXCEPT ![id] = NoTask]
  /\ Goto("main", "canceled")
  /\ UNCHANGED <<m_state, cur, pauseThread, taskVars, listenerVars>>

\* The index is free now: case 2 falls through cases 3 and 4 to clean(), whose
\* cancelAll takes the lock again. The worker may have taken a task in between.
CancelAll == pc["main"] = "canceled" /\ CleanAll /\ Goto("main", "idle")

CancelOverflow(id) ==
  /\ Idle /\ ~Free(id) /\ RemoveOverflows(s_tasks[id])
  /\ Goto("main", "dead")
  /\ UNCHANGED <<queueVars, s_tasks, cur, pauseThread, taskVars, listenerVars>>

\* addCallback on a used index.
AddListener(l, id, s) ==
  /\ Idle /\ ~Free(id) /\ tlc[l] = NoCb
  /\ tlc' = [tlc EXCEPT ![l] =
               [task |-> s_tasks[id], id |-> id, signal |-> s, param |-> "NONE"]]
  /\ listeners' = [listeners EXCEPT ![s_tasks[id]] = @ \cup {l}]
  /\ UNCHANGED <<queueVars, s_tasks, pc, cur, pauseThread, taskVars, callbacks>>

\* The Script invokes a posted callback (their order is modelled in ScriptCallbacks).
Deliver(c) ==
  /\ Idle
  /\ callbacks' = callbacks \ {c}
  /\ UNCHANGED <<queueVars, s_tasks, pc, cur, pauseThread, taskVars, listeners, tlc>>

RunTaskNow == WorkerPaused \/ Restart \/ RunTask("main")

\* The script thread goes on with its call.
Main == RunTaskNow \/ CancelAll

JsonRpc ==
  \/ \E t \in Tasks : CallSync(t) \/ \E id \in Slots : CallAsync(t, id)
  \/ Clean
  \/ \E id \in Slots : GetResult(id) \/ Cancel(id) \/ CancelOverflow(id)
  \/ \E l \in Listeners, id \in Slots, s \in Signals : AddListener(l, id, s)

Next == Worker \/ Main \/ JsonRpc \/ \E c \in callbacks : Deliver(c)

Spec == Init /\ [][Next]_vars

\* Threads that can run do run; scripts need not call anything.
FairSpec == Spec /\ WF_vars(Worker) /\ WF_vars(Main)
                 /\ WF_vars(\E c \in callbacks : Deliver(c))

-----------------------------------------------------------------------------
(* Properties.                                                             *)

\* Every variable holds values of its kind.
TypeOK ==
  /\ m_state \in QueueStates
  /\ queue \in Seq(Tasks)
  /\ s_tasks \in [Slots -> Tasks \cup {NoTask}]
  /\ pc \in [Threads -> Executing \cup
               {"none", "take", "waiting", "woken", "idle", "resume", "canceled", "dead"}]
  /\ cur \in [Threads -> Tasks \cup {NoTask}]
  /\ pauseThread \in BOOLEAN
  /\ taskState \in [Tasks -> TaskStates]
  /\ result \in [Tasks -> Results]
  /\ listeners \in [Tasks -> SUBSET Listeners]
  /\ tlc \in [Listeners ->
       [task: Tasks \cup {NoTask}, id: Slots \cup {0},
        signal: Signals \cup {"none"}, param: TaskStates]]
  /\ callbacks \subseteq [listener: Listeners, state: TaskStates]

\* The two threads never execute a task at the same time: a task run by
\* runTaskNow has the connection to itself, although runTaskNow does not
\* check m_state after its wait and skips the pause when m_state is PAUSED.
NoConcurrentJobs == ~(pc["main"] \in Executing /\ pc["worker"] \in Executing)

\* The tasks that have been added and not started, oldest first: the one the
\* worker has removed (it may be asked to pause before it starts it), the queue.
Held == IF pc["worker"] \in {"waiting", "woken", "start"} /\ cur["worker"] # NoTask
        THEN <<cur["worker"]>> ELSE <<>>
Pending == Held \o queue
IsPending(t) == \E i \in 1..Len(Pending) : Pending[i] = t
Running == {cur[p] : p \in {q \in Threads : pc[q] \in Executing \ {"start"}}}

\* A task a script still holds an index for is never forgotten and never
\* queued twice: until it starts it is in the queue, or in the worker's hand.
NoTaskLost ==
  /\ \A id \in Slots :
       ~Free(id) /\ taskState[s_tasks[id]] = "READY" => IsPending(s_tasks[id])
  /\ \A i, j \in 1..Len(Pending) : Pending[i] = Pending[j] => i = j
  /\ \A i \in 1..Len(Pending) : taskState[Pending[i]] = "READY"

\* The queue and its two threads implement an executor that runs one task at a
\* time, the added ones in their order, but for one that a cancel puts at the end
\* until it drops all of them: the worker can run another one before it then.
Executor == INSTANCE SerialExecutor WITH
  pending <- Pending, running <- Running, cancelling <- pc["main"] = "canceled",
  completed <- {t \in Tasks : taskState[t] \in Completed} \ Running
ImplementsExecutor == Executor!Spec

\* runTaskNow returns, because the worker always answers the request to pause, and
\* an added task is eventually run to its end, unless a script drops it.
TasksEnd ==
  /\ pc["main"] # "idle" ~> pc["main"] \in {"idle", "dead"}
  /\ \A t \in Tasks : taskState[t] = "READY" ~>
       taskState[t] \in Completed \/ (taskState[t] = "READY" /\ ~IsPending(t))

-----------------------------------------------------------------------------
(* What a comment of the source says and the code does not do.             *)

\* "Synchronised to prevent m_params being changed by workerThread": a callback
\* for a state is called with that state.
ParamIsTheSignalledState ==
  \A c \in callbacks :
    tlc[c.listener].signal = "allStates" => tlc[c.listener].param = c.state

=============================================================================
