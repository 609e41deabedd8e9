------------------------------ MODULE RMSCache3 ------------------------------
(***************************************************************************)
(* RMSCacheManager3: a key/value store kept in memory and written back to  *)
(* a MIDP RecordStore by a thread.  A key is two consecutive records, its  *)
(* name at an odd index and its data at the next one.  setRecord and       *)
(* deleteRecord change the table and queue an operation per key; the       *)
(* thread takes the queue every FLUSH_DELAY, writes it without holding the *)
(* manager's monitor, and when the manager is not used it drops the table, *)
(* to be read again by the next call, and ends.                            *)
(*                                                                         *)
(* A step is one access to the RecordStore or one critical section.  The   *)
(* application may be killed between any two steps.  What the code does    *)
(* wrong in narrow windows is not excluded: the history variable faults    *)
(* says which of them a behaviour has met (FaultKinds).                    *)
(***************************************************************************)
EXTENDS Integers, Sequences, SequencesExt, FiniteSets, Functions

CONSTANTS
  Keys,          \* the keys, model values
  Values,        \* the data, model values
  None,          \* null data
  EraseAll,      \* ERASE_ALL
  IsMaster,      \* this is CacheManager.s_masterMgr, whose table is kept
  MaxCalls,      \* bound: calls of the application that change something
  MaxRestarts    \* bound: times the application is started again

ASSUME ConstantsAssumption ==
  /\ None \notin Keys \cup Values /\ EraseAll \notin Keys \cup Values
  /\ None # EraseAll
  /\ IsMaster \in BOOLEAN /\ MaxCalls \in Nat /\ MaxRestarts \in Nat

VARIABLES
  rec, nextId,                       \* the RecordStore: records, next record id
  m_recordStore,                     \* the store is open (the field is not null)
  obj,                               \* the Entry objects
  m_entries, m_tableLoaded,          \* the table: the entries in it
  queue,                             \* operations to do: [key, e]
  call, lpc,                         \* the call that holds the monitor; its place in loadEntries
  recordId, maxRecordId, deleted,    \* locals of loadEntries
  flusher, fpc, pendingOp, data, index, \* who holds m_flushLock; its place and locals
  worker, m_quit,                    \* the thread, "off" when m_thread is null
  closing,                           \* "no", "joining", "closed": closeAll
  calls, restarts,                   \* counters for the bounds
  truth, since,                      \* history: the last value of each key, and all since it was saved
  packing, faults                    \* history: a pack is not finished; windows met

disk   == <<rec, nextId>>
table  == <<obj, m_entries, m_tableLoaded, queue>>
loader == <<call, lpc, recordId, maxRecordId, deleted>>
flush  == <<flusher, fpc, pendingOp, data, index>>
thread == <<worker, m_quit, closing>>
counts == <<calls, restarts>>
history == <<truth, since, packing, faults>>
vars == <<rec, nextId, m_recordStore, obj, m_entries, m_tableLoaded, queue,
          call, lpc, recordId, maxRecordId, deleted, flusher, fpc, pendingOp,
          data, index, worker, m_quit, closing, calls, restarts, truth, since,
          packing, faults>>

NoCall == [op |-> "none", key |-> None, data |-> None]
Get == [op |-> "get", key |-> None, data |-> None]

\* What makes this code lose or resurrect data:
\*   replaced   the queued deletion of a stored key gives way to a new entry
\*   late       an operation is queued after the thread's last look at the queue
\*   erased     the table is read while the erasing of the store is pending
\*   overlap    the table is read, or dropped, while a flush is using the store
\*   torn       killed between the two records of a key, or inside a pack
FaultKinds == {"replaced", "late", "erased", "overlap", "torn"}

\* A new manager: the constructor is about to call loadEntries.
Started ==
  /\ m_recordStore = FALSE
  /\ obj = <<>> /\ m_entries = {} /\ m_tableLoaded = FALSE /\ queue = <<>>
  /\ call = Get /\ lpc = "open"
  /\ recordId = 1 /\ maxRecordId = 1 /\ deleted = 0
  /\ flusher = "none" /\ fpc = "idle" /\ pendingOp = <<>>
  /\ data = None /\ index = 0
  /\ worker = "off" /\ m_quit = FALSE /\ closing = "no"
  /\ packing = FALSE

Init ==
  /\ Started
  /\ rec = <<>> /\ nextId = 1
  /\ calls = 0 /\ restarts = 0
  /\ truth = [k \in Keys |-> None] /\ since = [k \in Keys |-> {None}]
  /\ faults = {}

-----------------------------------------------------------------------------
(* Helpers.                                                                *)

MonitorFree == call = NoCall
Added(f, i, x) == [j \in DOMAIN f \cup {i} |-> IF j = i THEN x ELSE f[j]]
KeysOf(q) == {q[i].key : i \in DOMAIN q}
ObjectsOf(q) == {q[i].e : i \in DOMAIN q} \ {0}
\* The objects that are still referred to; the others are collected.
Kept(o, t, q, p) == [i \in t \cup ObjectsOf(q) \cup ObjectsOf(p) |-> o[i]]
NewObject == CHOOSE i \in 1..(Cardinality(DOMAIN obj) + 1) : i \notin DOMAIN obj
\* Mutant: indexes are counted from 0.
EntryFromZero(n, i, d) == [name |-> n, index |-> i - 1, data |-> d]

Entry(n, i, d) == [name |-> n, index |-> i, data |-> d]
findEntry(k) == {e \in m_entries : obj[e].name = k}

\* addAsyncOperation: one operation per key, at the place of the first.
addAsyncOperation(q, k, e) ==
  IF k \in KeysOf(q)
  THEN [i \in DOMAIN q |-> IF q[i].key = k THEN [key |-> k, e |-> e] ELSE q[i]]
  ELSE Append(q, [key |-> k, e |-> e])

\* Mutant: a thread that has ended is not started again.
wakeThreadOnce == worker' = IF worker = "off" /\ obj = <<>> /\ restarts = 0 THEN "head" ELSE worker

\* wakeThread: a thread that is ending still counts as alive.
wakeThread == worker' = IF worker = "off" THEN "head" ELSE worker

\* The thread is alive and will not look at the queue again.
LastLookDone == worker = "ending" \/ (worker = "final" /\ flusher = "worker")
LateFault == IF LastLookDone THEN {"late"} ELSE {}

\* The operation queued for k deletes a record that is, or is being, written.
DropsDeletion(k, e) ==
  \E i \in DOMAIN queue :
    /\ queue[i].key = k /\ queue[i].e # e
    /\ obj[queue[i].e].index > 0 \/ queue[i].e \in ObjectsOf(pendingOp)
ReplacedFault(k, e) == IF DropsDeletion(k, e) THEN {"replaced"} ELSE {}

-----------------------------------------------------------------------------
(* The calls, all synchronized on the manager.                             *)

\* setRecord, once the table is loaded.
setRecord(k, v) ==
  LET found == findEntry(k)
      new   == NewObject
  IN \E e \in IF found = {} THEN {new} ELSE found :
     LET o == IF found = {} THEN Added(obj, new, Entry(k, 0, v))
              ELSE [obj EXCEPT ![e].data = v]
     IN
     /\ m_entries' = m_entries \cup {e}
     /\ queue' = addAsyncOperation(queue, k, e)
     /\ obj' = Kept(o, m_entries', queue', pendingOp)
     /\ wakeThread
     /\ truth' = [truth EXCEPT ![k] = v]
     /\ since' = [since EXCEPT ![k] = @ \cup {v}]
     /\ faults' = faults \cup LateFault \cup ReplacedFault(k, e)

\* deleteRecord: the entry leaves the table, its data marks the deletion.
deleteRecord(k) ==
  LET found == findEntry(k) IN
  IF found = {} THEN UNCHANGED <<obj, m_entries, queue, worker, truth, since, faults>>
  ELSE \E e \in found :
     /\ m_entries' = m_entries \ {e}
     /\ queue' = addAsyncOperation(queue, k, e)
     /\ obj' = Kept([obj EXCEPT ![e].data = None], m_entries', queue', pendingOp)
     /\ wakeThread
     /\ truth' = [truth EXCEPT ![k] = None]
     /\ since' = [since EXCEPT ![k] = @ \cup {None}]
     /\ faults' = faults \cup LateFault \cup ReplacedFault(k, e)

Perform(c) ==
  /\ CASE c.op = "set"    -> setRecord(c.key, c.data)
       [] c.op = "delete" -> deleteRecord(c.key)
       [] OTHER           -> UNCHANGED <<obj, m_entries, queue, worker, truth, since, faults>>
  /\ UNCHANGED <<disk, m_recordStore, m_tableLoaded, flush, m_quit, closing, restarts, packing>>

\* setRecord and deleteRecord by an application thread; getByteRecord and
\* hasRecord matter when they load the table.
Requests ==
  {Get} \cup [op : {"set"}, key : Keys, data : Values]
        \cup [op : {"delete"}, key : Keys, data : {None}]

Invoke ==
  /\ MonitorFree /\ closing = "no" /\ calls < MaxCalls
  /\ \E c \in Requests :
       /\ c = Get => ~m_tableLoaded
       /\ calls' = IF c = Get THEN calls ELSE calls + 1
       /\ IF m_tableLoaded
          THEN Perform(c) /\ UNCHANGED loader
          ELSE /\ call' = c /\ lpc' = "open"
               /\ faults' = faults \cup
                    IF EraseAll \in KeysOf(queue) \cup KeysOf(pendingOp) THEN {"erased"} ELSE {}
               /\ UNCHANGED <<disk, m_recordStore, table, recordId, maxRecordId, deleted,
                              flush, thread, restarts, truth, since, packing>>

\* erase (and deleteRMS), which does not load the table.
erase ==
  /\ MonitorFree /\ closing = "no" /\ calls < MaxCalls
  /\ calls' = calls + 1
  /\ m_entries' = {}
  /\ queue' = addAsyncOperation(<<>>, EraseAll, 0)
  /\ obj' = Kept(obj, {}, <<>>, pendingOp)
  /\ wakeThread
  /\ truth' = [k \in Keys |-> None]
  /\ since' = [k \in Keys |-> since[k] \cup {None}]
  /\ packing' = (packing /\ EraseAll \notin KeysOf(queue))
  /\ faults' = faults \cup LateFault
  /\ UNCHANGED <<disk, m_recordStore, m_tableLoaded, loader, flush, m_quit, closing, restarts>>

-----------------------------------------------------------------------------
(* loadEntries, by the call that holds the monitor.                        *)

\* openStore: another thread may have opened it.
LoadOpen ==
  /\ lpc = "open"
  /\ m_recordStore' = TRUE
  /\ lpc' = "size"
  /\ UNCHANGED <<disk, table, call, recordId, maxRecordId, deleted, flush, thread, counts, history>>

\* getNextRecordID; the call fails when a flush has closed the store meanwhile.
LoadSize ==
  /\ lpc = "size"
  /\ IF m_recordStore
     THEN /\ maxRecordId' = nextId /\ recordId' = 1 /\ deleted' = 0
          /\ m_entries' = {} /\ obj' = Kept(obj, {}, queue, pendingOp)
          /\ lpc' = "read" /\ call' = call
     ELSE /\ call' = NoCall /\ lpc' = "none"
          /\ UNCHANGED <<recordId, maxRecordId, deleted, m_entries, obj>>
  /\ UNCHANGED <<disk, m_recordStore, m_tableLoaded, queue, flush, thread, counts, history>>

\* One pair of records.  An exception skips it: a missing record is counted, a
\* store that has been closed is not.
LoadRead ==
  /\ lpc = "read" /\ recordId < maxRecordId
  /\ IF ~m_recordStore THEN UNCHANGED <<obj, m_entries, deleted>>
     ELSE IF {recordId, recordId + 1} \subseteq DOMAIN rec
     THEN /\ obj' = Added(obj, NewObject, Entry(rec[recordId], recordId, rec[recordId + 1]))
          /\ m_entries' = m_entries \cup {NewObject}
          /\ deleted' = deleted
     ELSE deleted' = deleted + 1 /\ UNCHANGED <<obj, m_entries>>
  /\ recordId' = recordId + 2
  /\ UNCHANGED <<disk, m_recordStore, m_tableLoaded, queue, call, lpc, maxRecordId,
                 flush, thread, counts, history>>

\* Too many records are missing: erase the store and write all entries again.
PackNeeded == deleted > (Cardinality(m_entries) * 3) \div 4

\* All entries after the erasing.  Two entries of one name, which only a replaced
\* deletion leaves behind, get one operation, of either of them.
PackedQueue ==
  LET q            == addAsyncOperation(queue, EraseAll, 0)
      Operation(k) == [key |-> k, e |-> CHOOSE e \in findEntry(k) : TRUE]
      others       == SetToSeq({obj[e].name : e \in m_entries} \ KeysOf(q))
  IN  [i \in DOMAIN q |-> IF findEntry(q[i].key) = {} THEN q[i] ELSE Operation(q[i].key)]
      \o [i \in DOMAIN others |-> Operation(others[i])]

\* Everything is read: pack, close the store, start the thread, and go on with
\* the call.
LoadEnd ==
  /\ lpc = "read" /\ recordId >= maxRecordId
  /\ IF PackNeeded
     THEN /\ queue' = PackedQueue
          /\ obj' = Kept([e \in DOMAIN obj |-> IF e \in m_entries THEN [obj[e] EXCEPT !.index = 0]
                                               ELSE obj[e]], m_entries, queue', pendingOp)
          /\ packing' = TRUE
     ELSE UNCHANGED <<queue, obj, packing>>
  /\ m_tableLoaded' = TRUE
  /\ m_recordStore' = FALSE
  /\ wakeThread
  /\ lpc' = "done" /\ recordId' = 1 /\ maxRecordId' = 1 /\ deleted' = 0
  /\ faults' = faults \cup (IF PackNeeded THEN LateFault ELSE {})
                      \cup (IF fpc \in {"open", "write", "data"} THEN {"overlap"} ELSE {})
  /\ UNCHANGED <<disk, m_entries, call, flush, m_quit, closing, counts, truth, since>>

\* The rest of the call that loaded the table.
Resume ==
  /\ lpc = "done"
  /\ Perform(call)
  /\ call' = NoCall /\ lpc' = "none"
  /\ UNCHANGED <<recordId, maxRecordId, deleted, calls>>

Load == LoadOpen \/ LoadSize \/ LoadRead \/ LoadEnd \/ Resume

-----------------------------------------------------------------------------
(* flushRecords, by the thread or by an application thread.                *)

\* Take m_flushLock, then the queue.
FlushBegin(p) ==
  /\ flusher = "none" /\ MonitorFree
  /\ flusher' = p /\ fpc' = "op"
  /\ pendingOp' = queue /\ queue' = <<>>
  /\ UNCHANGED <<disk, m_recordStore, obj, m_entries, m_tableLoaded, loader,
                 data, index, thread, restarts, history>>

\* CacheManager.flush
AppFlush ==
  /\ closing = "no" /\ calls < MaxCalls
  /\ calls' = calls + 1
  /\ FlushBegin("app")

\* The next operation: close the store to erase it, or open it.  The monitor is
\* not needed: a call may be loading the table from the same store meanwhile.
FlushOp ==
  /\ fpc = "op" /\ pendingOp # <<>>
  /\ IF Head(pendingOp).key = EraseAll
     THEN m_recordStore' = FALSE /\ fpc' = "erase"
     ELSE m_recordStore' = TRUE /\ fpc' = "open"
  /\ faults' = faults \cup IF lpc = "read" /\ ~m_recordStore' THEN {"overlap"} ELSE {}
  /\ UNCHANGED <<disk, table, loader, flusher, pendingOp, data, index, thread, counts,
                 truth, since, packing>>

\* The critical section that reads the fields of the entry.
FlushFields ==
  /\ fpc = "open" /\ MonitorFree
  /\ fpc' = "write"
  /\ LET e == Head(pendingOp).e IN data' = obj[e].data /\ index' = obj[e].index
  /\ UNCHANGED <<disk, m_recordStore, table, loader, flusher, pendingOp, thread, counts, history>>

\* The operation is done, or has failed.
NextOp(o) ==
  /\ pendingOp' = Tail(pendingOp)
  /\ obj' = Kept(o, m_entries, queue, pendingOp')
  /\ fpc' = "op" /\ data' = None /\ index' = 0

\* deleteRecordStore, refused while the store is open.
FlushErase ==
  /\ fpc = "erase"
  /\ IF m_recordStore THEN UNCHANGED disk ELSE rec' = <<>> /\ nextId' = 1
  /\ NextOp(obj)
  /\ faults' = faults \cup IF m_recordStore THEN {"overlap"} ELSE {}
  /\ UNCHANGED <<m_recordStore, m_entries, m_tableLoaded, queue, loader, flusher,
                 thread, counts, truth, since, packing>>

\* The store has been closed by loadEntries: a NullPointerException ends the
\* flush, and the thread if it is the one flushing.
FlushAborts ==
  /\ fpc \in {"write", "data"} /\ ~m_recordStore
  /\ pendingOp' = <<>> /\ obj' = Kept(obj, m_entries, queue, <<>>)
  /\ flusher' = "none" /\ fpc' = "idle" /\ data' = None /\ index' = 0
  /\ worker' = IF flusher = "worker" THEN "ending" ELSE worker
  /\ UNCHANGED <<disk, m_recordStore, m_entries, m_tableLoaded, queue, loader,
                 m_quit, closing, counts, history>>

\* Mutant: the data is looked for at the index of the name.
DataRecordAtName == index

\* The record of the data of the entry at index.
DataRecord == index + 1

\* The first access of a deletion or an addition; the only one of a change.
FlushWrite ==
  /\ fpc = "write" /\ m_recordStore
  /\ CASE data = None /\ index = 0 -> NextOp(obj) /\ UNCHANGED disk
       [] data = None /\ index > 0 ->
            IF index \in DOMAIN rec
            THEN /\ rec' = Restrict(rec, DOMAIN rec \ {index}) /\ nextId' = nextId
                 /\ fpc' = "data" /\ UNCHANGED <<pendingOp, obj, data, index>>
            ELSE NextOp(obj) /\ UNCHANGED disk
       [] data # None /\ index > 0 ->
            /\ NextOp(obj) /\ nextId' = nextId
            /\ rec' = IF DataRecord \in DOMAIN rec THEN [rec EXCEPT ![DataRecord] = data] ELSE rec
       [] OTHER ->
            /\ rec' = Added(rec, nextId, obj[Head(pendingOp).e].name)
            /\ nextId' = nextId + 1 /\ index' = nextId
            /\ fpc' = "data" /\ UNCHANGED <<pendingOp, obj, data>>
  /\ UNCHANGED <<m_recordStore, m_entries, m_tableLoaded, queue, loader, flusher,
                 thread, counts, history>>

\* Mutant: the entry does not learn its index.
FlushDataNoIndex ==
  /\ fpc = "data" /\ m_recordStore
  /\ IF data = None
     THEN rec' = Restrict(rec, DOMAIN rec \ {DataRecord}) /\ nextId' = nextId
     ELSE rec' = Added(rec, nextId, data) /\ nextId' = nextId + 1
  /\ NextOp(obj)
  /\ UNCHANGED <<m_recordStore, m_entries, m_tableLoaded, queue, loader, flusher,
                 thread, counts, history>>

\* The second access.  After an addition the entry gets its index; nobody
\* but the next flush reads it.
FlushData ==
  /\ fpc = "data" /\ m_recordStore
  /\ IF data = None
     THEN /\ rec' = Restrict(rec, DOMAIN rec \ {DataRecord}) /\ nextId' = nextId
          /\ NextOp(obj)
     ELSE /\ rec' = Added(rec, nextId, data) /\ nextId' = nextId + 1
          /\ NextOp([obj EXCEPT ![Head(pendingOp).e].index = index])
  /\ UNCHANGED <<m_recordStore, m_entries, m_tableLoaded, queue, loader, flusher,
                 thread, counts, history>>

\* All operations are done: close the store, release m_flushLock.
FlushEnd ==
  /\ fpc = "op" /\ pendingOp = <<>>
  /\ m_recordStore' = FALSE
  /\ flusher' = "none" /\ fpc' = "idle"
  /\ worker' = IF flusher # "worker" THEN worker
               ELSE IF worker = "flush" THEN "check" ELSE "ending"
  /\ since' = [k \in Keys |-> IF {k, EraseAll} \cap KeysOf(queue) = {}
                              THEN {truth[k]} ELSE since[k]]
  /\ packing' = (packing /\ EraseAll \in KeysOf(queue))
  /\ faults' = faults \cup IF lpc = "read" THEN {"overlap"} ELSE {}
  /\ UNCHANGED <<disk, table, loader, pendingOp, data, index, m_quit, closing, counts, truth>>

Flush == FlushOp \/ FlushFields \/ FlushErase \/ FlushAborts \/ FlushWrite \/ FlushData \/ FlushEnd

-----------------------------------------------------------------------------
(* run, the thread.                                                        *)

WorkerOnly == <<disk, m_recordStore, obj, queue, loader, flush, m_quit, closing, counts>>

\* Mutant: m_quit is not read.
WhileForever ==
  /\ worker = "head"
  /\ worker' = "wait"
  /\ UNCHANGED <<WorkerOnly, m_entries, m_tableLoaded, history>>

\* Mutant: the thread leaves without a last flush.
QuitAtOnce ==
  /\ worker = "head"
  /\ worker' = IF m_quit THEN "ending" ELSE "wait"
  /\ UNCHANGED <<WorkerOnly, m_entries, m_tableLoaded, history>>

WhileNotQuit ==
  /\ worker = "head"
  /\ worker' = IF m_quit THEN "final" ELSE "wait"
  /\ UNCHANGED <<WorkerOnly, m_entries, m_tableLoaded, history>>

\* wait (FLUSH_DELAY), or notified by finalClose
WaitEnds ==
  /\ worker = "wait"
  /\ worker' = "flush"
  /\ UNCHANGED <<WorkerOnly, m_entries, m_tableLoaded, history>>

WorkerFlush ==
  /\ worker \in {"flush", "final"}
  /\ FlushBegin("worker") /\ UNCHANGED calls

\* Mutant: the table is dropped without a look at the queue.
CheckNoQueue ==
  /\ worker = "check" /\ MonitorFree
  /\ m_entries' = {} /\ m_tableLoaded' = FALSE
  /\ obj' = Kept(obj, {}, queue, pendingOp)
  /\ worker' = "final"
  /\ UNCHANGED <<disk, m_recordStore, queue, loader, flush, m_quit, closing, counts, history>>

\* After a flush: the table is dropped when there is nothing to do and the
\* manager has not been used for INACTIVITY_DELAY (a choice of the clock).
Check ==
  /\ worker = "check"
  /\ \/ /\ ~IsMaster /\ MonitorFree /\ queue = <<>>
        /\ m_entries' = {} /\ m_tableLoaded' = FALSE
        /\ obj' = Kept(obj, {}, queue, pendingOp)
        /\ worker' = "final"
        /\ faults' = faults \cup IF pendingOp # <<>> THEN {"overlap"} ELSE {}
     \/ /\ IsMaster \/ MonitorFree
        /\ worker' = "head" /\ UNCHANGED <<obj, m_entries, m_tableLoaded, faults>>
  /\ UNCHANGED <<disk, m_recordStore, queue, loader, flush, m_quit, closing, counts,
                 truth, since, packing>>

\* finally: m_thread = null
ThreadEnds ==
  /\ worker = "ending"
  /\ worker' = "off"
  /\ UNCHANGED <<WorkerOnly, m_entries, m_tableLoaded, history>>

Worker == WhileNotQuit \/ WaitEnds \/ WorkerFlush \/ Check \/ ThreadEnds

-----------------------------------------------------------------------------
(* Exit, kill, start.                                                      *)

\* finalClose, called by closeAll when the application ends.
finalClose ==
  /\ closing = "no" /\ MonitorFree /\ flusher # "app"
  /\ IF worker # "off" THEN m_quit' = TRUE /\ closing' = "joining"
     ELSE m_quit' = m_quit /\ closing' = "closed"
  /\ UNCHANGED <<disk, m_recordStore, table, loader, flush, worker, counts, history>>

\* The join returns.
Joined ==
  /\ closing = "joining" /\ worker = "off"
  /\ closing' = "closed"
  /\ UNCHANGED <<disk, m_recordStore, table, loader, flush, worker, m_quit, counts, history>>

\* What the two records of each key say.
Pairs(k) == {i \in DOMAIN rec : i % 2 = 1 /\ i + 1 \in DOMAIN rec /\ rec[i] = k}
Stored(k) == IF Pairs(k) = {} THEN None ELSE rec[(CHOOSE i \in Pairs(k) : TRUE) + 1]

\* The store has been erased to be packed and is not written again yet.
Repacking == packing /\ EraseAll \notin KeysOf(queue) \cup KeysOf(pendingOp)
\* The name of a key is written, its data is not.
HalfAdded == fpc = "data" /\ data # None

\* The application is killed, or has ended, and is started again: the memory is
\* lost, a new manager loads what is stored.
Start ==
  /\ restarts < MaxRestarts
  /\ restarts' = restarts + 1
  /\ m_recordStore' = FALSE
  /\ obj' = <<>> /\ m_entries' = {} /\ m_tableLoaded' = FALSE /\ queue' = <<>>
  /\ call' = Get /\ lpc' = "open"
  /\ recordId' = 1 /\ maxRecordId' = 1 /\ deleted' = 0
  /\ flusher' = "none" /\ fpc' = "idle" /\ pendingOp' = <<>>
  /\ data' = None /\ index' = 0
  /\ worker' = "off" /\ m_quit' = FALSE /\ closing' = "no"
  /\ packing' = FALSE
  /\ truth' = [k \in Keys |-> Stored(k)]
  /\ since' = [k \in Keys |-> {Stored(k)}]
  /\ faults' = faults \cup IF Repacking \/ HalfAdded THEN {"torn"} ELSE {}
  /\ UNCHANGED <<disk, calls>>

Next == Invoke \/ erase \/ AppFlush \/ Load \/ Flush \/ Worker \/ finalClose \/ Joined \/ Start

Spec == Init /\ [][Next]_vars
\* The threads are scheduled and timed waits end.
FairSpec == Spec /\ WF_vars(Load) /\ WF_vars(Flush) /\ WF_vars(Worker) /\ WF_vars(Joined)
-----------------------------------------------------------------------------
(* Properties.                                                             *)

\* Every variable holds values of its kind, and every object that is referred
\* to exists.
TypeOK ==
  /\ \A i \in DOMAIN rec : i \in 1..(nextId - 1) /\ rec[i] \in Keys \cup Values
  /\ \A e \in DOMAIN obj : /\ obj[e].name \in Keys \cup Values
                           /\ obj[e].index \in Nat
                           /\ obj[e].data \in Keys \cup Values \cup {None}
  /\ m_recordStore \in BOOLEAN /\ m_tableLoaded \in BOOLEAN /\ m_quit \in BOOLEAN
  /\ m_entries \cup ObjectsOf(queue) \cup ObjectsOf(pendingOp) = DOMAIN obj
  /\ KeysOf(queue) \cup KeysOf(pendingOp) \subseteq Keys \cup Values \cup {EraseAll}
  /\ call \in Requests \cup {NoCall} /\ lpc \in {"none", "open", "size", "read", "done"}
  /\ recordId \in Nat /\ maxRecordId \in Nat /\ deleted \in Nat
  /\ flusher \in {"none", "worker", "app"}
  /\ fpc \in {"idle", "op", "erase", "open", "write", "data"}
  /\ data \in Keys \cup Values \cup {None} /\ index \in Nat
  /\ worker \in {"off", "head", "wait", "flush", "check", "final", "ending"}
  /\ closing \in {"no", "joining", "closed"}
  /\ calls \in 0..MaxCalls /\ restarts \in 0..MaxRestarts
  /\ \A k \in Keys : truth[k] \in since[k]
  /\ packing \in BOOLEAN /\ faults \subseteq FaultKinds

Sound == faults = {}
Holds(S, v) == S = IF v = None THEN {} ELSE {v}

\* What a call reads is what was last set, whatever has been written, dropped
\* and read again in between.
ReadsLastWrite ==
  Sound /\ m_tableLoaded /\ lpc \in {"none", "done"} =>
    \A k \in Keys : Holds({obj[e].data : e \in findEntry(k)}, truth[k])

Pending(k) == {k, EraseAll} \cap (KeysOf(queue) \cup KeysOf(pendingOp)) # {}

\* A key with no operation left to do is stored once, with its last value.
SavedUnlessPending ==
  Sound => \A k \in Keys : ~Pending(k) =>
    /\ Holds({rec[i + 1] : i \in Pairs(k)}, truth[k])
    /\ Cardinality(Pairs(k)) <= 1

\* The header of the class: modifications are dumped, deletions too.
ModificationsAreDumped ==
  faults \subseteq {"replaced"} =>
    \A k \in Keys : ~Pending(k) => Holds({rec[i + 1] : i \in Pairs(k)}, truth[k])

\* A kill loses at most what was not saved: it leaves for each key a value it
\* has had since it was last saved.
KillKeepsSaved ==
  Sound /\ ~Repacking => \A k \in Keys : Stored(k) \in since[k]

\* After closeAll nothing is left to write, and everything is stored.
CloseSaves ==
  closing = "closed" /\ Sound => \A k \in Keys : Stored(k) = truth[k] /\ ~Pending(k)

\* A queued operation is done in the end.
EveryOperationDone ==
  \A k \in Keys : Pending(k) ~> (~Pending(k) \/ ~Sound)

\* closeAll returns.
CloseReturns == closing = "joining" ~> closing # "joining"

=============================================================================
