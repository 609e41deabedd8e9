--------------------------- MODULE ScriptCallbacks ---------------------------
(***************************************************************************)
(* Script.addCallback, invokeCallbacks and getWakeupTime, with the pool of *)
(* ScriptCallback objects they share: the list of functions a script asks  *)
(* to be called back, at once (from any thread) or after a delay           *)
(* (setTimeout).                                                           *)
(*                                                                         *)
(* The linked list and the pool are modelled as the heap they are, because *)
(* an object released by invokeCallbacks goes back to the pool while the   *)
(* list may still start with it.  addCallback and invokeCallbacks hold the *)
(* Script's monitor: another thread calls addCallback only when no         *)
(* invokeCallbacks is running, a called function calls it re-entrantly.    *)
(***************************************************************************)
EXTENDS Sequences, FiniteSets, Sleep

CONSTANTS
  MaxCalls,       \* bound: addCallback calls, each of which needs an object
  MaxTime,        \* bound: Context.time
  Delays,         \* the delays given to setTimeout
  MaxReentrant    \* bound: addCallback calls made by one invoked function

ASSUME BoundsAssumption ==
  /\ MaxCalls \in Nat /\ MaxTime \in Nat /\ MaxReentrant \in Nat
  /\ Delays \subseteq Nat \ {0}

Immediate == -1      \* IMMEDIATE_CALLBACK
Null == 0
Cells == 1..MaxCalls \* ScriptCallback objects, numbered as they are created

VARIABLES
  next, fn, time,    \* the fields of the objects; fn identifies the request
  created,           \* how many objects exist
  s_pool,            \* ScriptCallback.s_pool
  m_cbList,          \* Script.m_cbList
  cb,                \* the local cursor of invokeCallbacks
  pc,                \* "idle", "loop", "function", or "hung" in addCallback
  reentrant,         \* addCallback calls made by the running function
  stale,             \* a function has asked for a callback that the walk loses
  now,               \* Context.time
  due,               \* the time given with each request, in request order
  invoked            \* the requests that have been invoked, in order

heap == <<next, fn, time, created, s_pool>>
vars == <<next, fn, time, created, s_pool, m_cbList, cb, pc, reentrant, stale, now, due, invoked>>

Init ==
  /\ next = [c \in Cells |-> Null]
  /\ fn = [c \in Cells |-> 0]
  /\ time = [c \in Cells |-> 0]
  /\ created = 0 /\ s_pool = Null
  /\ m_cbList = Null /\ cb = Null
  /\ pc = "idle" /\ reentrant = 0 /\ stale = FALSE
  /\ now = 0
  /\ due = <<>> /\ invoked = <<>>

-----------------------------------------------------------------------------
\* The object create() returns: the first of the pool, or a new one.
Created == IF s_pool # Null THEN s_pool ELSE created + 1

\* The object reached from c after n steps along m_next.
Reached(nx, c, n) ==
  LET Walk[k \in 0..n] == IF k = 0 THEN c
                          ELSE IF Walk[k - 1] = Null THEN Null ELSE nx[Walk[k - 1]]
  IN  Walk[n]

\* Mutant: a delayed callback is always put last.
InsertsLast(nx, tm, c, t, n) ==
  Reached(nx, c, n) # Null /\ Reached(nx, c, n + 1) = Null

\* The delayed branch of addCallback: after the object at position n.
InsertsAfter(nx, tm, c, t, n) ==
  LET q == Reached(nx, c, n + 1) IN
  /\ Reached(nx, c, n) # Null
  /\ q = Null \/ t <= tm[q]
  /\ \A k \in 1..n : t > tm[Reached(nx, c, k)]

(***************************************************************************)
(* addCallback (method, params, t) by a thread at l.  The search for the   *)
(* position of a delayed callback does not end when the list has become    *)
(* circular and no object of the circle is late enough.                    *)
(***************************************************************************)
AddCallback(t, l) ==
  LET c   == Created
      nx  == [next EXCEPT ![c] = Null]
      tm  == [time EXCEPT ![c] = t]
      pos == {n \in 0..MaxCalls : InsertsAfter(nx, tm, m_cbList, t, n)}
  IN
  /\ Len(due) < MaxCalls
  /\ due' = Append(due, t)
  /\ created' = IF s_pool # Null THEN created ELSE created + 1
  /\ s_pool' = IF s_pool # Null THEN next[s_pool] ELSE Null
  /\ fn' = [fn EXCEPT ![c] = Len(due')]
  /\ time' = tm
  /\ IF t = Immediate \/ m_cbList = Null \/ t < tm[m_cbList]
     THEN /\ next' = [nx EXCEPT ![c] = m_cbList]
          /\ m_cbList' = c
          /\ pc' = l
     ELSE /\ m_cbList' = m_cbList
          /\ IF pos = {} THEN next' = nx /\ pc' = "hung"
             ELSE \E n \in pos :
                    /\ next' = [nx EXCEPT ![c] = Reached(nx, m_cbList, n + 1),
                                          ![Reached(nx, m_cbList, n)] = c]
                    /\ pc' = l

\* Mutant: the delay is taken relative to the wrong origin.
TimeoutsBackwards == {d - now : d \in Delays}

Timeouts == {now + d : d \in Delays}

\* A background thread asks for a callback, or a function called by the scene
\* outside invokeCallbacks sets a timeout.
AddFromOutside ==
  /\ pc = "idle"
  /\ \E t \in {Immediate} \cup Timeouts : AddCallback(t, "idle")
  /\ UNCHANGED <<cb, reentrant, stale, now, invoked>>

\* compose: the list is walked if it is not empty.
InvokeCallbacks ==
  /\ pc = "idle" /\ m_cbList # Null
  /\ cb' = m_cbList
  /\ pc' = "loop"
  /\ UNCHANGED <<heap, m_cbList, reentrant, stale, now, due, invoked>>

\* The callback under the cursor is to be invoked now.
IsDue == IF cb = Null THEN FALSE ELSE time[cb] < now

InvokeNext ==
  /\ pc = "loop" /\ IsDue
  /\ invoked' = Append(invoked, fn[cb])
  /\ pc' = "function" /\ reentrant' = 0
  /\ UNCHANGED <<heap, m_cbList, cb, stale, now, due>>

(***************************************************************************)
(* The invoked function asks for a callback itself.  The walk keeps only a *)
(* timeout asked for by its first function, while the head of m_cbList has *)
(* not been released; anything else it overwrites when it ends.            *)
(***************************************************************************)
AddFromFunction ==
  /\ pc = "function" /\ reentrant < MaxReentrant
  /\ \E t \in {Immediate} \cup Timeouts :
       /\ AddCallback(t, "function")
       /\ stale' = (stale \/ t = Immediate \/ cb # m_cbList)
  /\ reentrant' = reentrant + 1
  /\ UNCHANGED <<cb, now, invoked>>

\* The function returns: step to the next object, release this one.
FunctionReturns ==
  /\ pc = "function"
  /\ cb' = next[cb]
  /\ next' = [next EXCEPT ![cb] = s_pool]
  /\ s_pool' = cb
  /\ pc' = "loop"
  /\ UNCHANGED <<fn, time, created, m_cbList, reentrant, stale, now, due, invoked>>

\* Mutant: the callbacks in the future are dropped.
InvokeEndsDrops ==
  /\ pc = "loop" /\ ~IsDue
  /\ m_cbList' = Null
  /\ cb' = Null /\ pc' = "idle"
  /\ UNCHANGED <<heap, reentrant, stale, now, due, invoked>>

\* End of the list, or the first callback that is still in the future.
InvokeEnds ==
  /\ pc = "loop" /\ ~IsDue
  /\ m_cbList' = cb
  /\ cb' = Null /\ pc' = "idle"
  /\ UNCHANGED <<heap, reentrant, stale, now, due, invoked>>

\* The scene's clock moves between two composes.
Tick ==
  /\ pc = "idle" /\ now < MaxTime
  /\ now' = now + 1
  /\ UNCHANGED <<heap, m_cbList, cb, pc, reentrant, stale, due, invoked>>

Compose == InvokeCallbacks \/ InvokeNext \/ FunctionReturns \/ InvokeEnds
Next == AddFromOutside \/ AddFromFunction \/ Compose \/ Tick

Spec == Init /\ [][Next]_vars
-----------------------------------------------------------------------------
(* Properties.                                                             *)

Requests == 1..Len(due)
IsInvoked(r) == \E i \in 1..Len(invoked) : invoked[i] = r
\* The objects linked from c.
Linked(c) == {Reached(next, c, n) : n \in 0..MaxCalls} \ {Null}
\* The list that invokeCallbacks has still to walk, or will walk next time.
Live == IF pc \in {"loop", "function"} THEN Linked(cb) ELSE Linked(m_cbList)
Waiting == {r \in Requests : ~IsInvoked(r)}

\* Every variable holds values of its kind.
TypeOK ==
  /\ next \in [Cells -> Cells \cup {Null}]
  /\ fn \in [Cells -> 0..MaxCalls]
  /\ time \in [Cells -> {Immediate} \cup Nat]
  /\ created \in 0..MaxCalls
  /\ {s_pool, m_cbList, cb} \subseteq Cells \cup {Null}
  /\ pc \in {"idle", "loop", "function", "hung"}
  /\ reentrant \in 0..MaxReentrant /\ stale \in BOOLEAN
  /\ now \in 0..MaxTime
  /\ due \in Seq({Immediate} \cup Nat) /\ Len(due) <= MaxCalls
  /\ invoked \in Seq(1..MaxCalls)

\* No request is lost: what has not been invoked is in the list.
NothingLost ==
  pc = "idle" => \A r \in Waiting : \E c \in Live : fn[c] = r

\* A callback is invoked once at most, even when functions add callbacks and the
\* objects of the list are reused while it is walked; after its time, and in the
\* order of the times.
InvokedInOrder ==
  [][invoked' # invoked =>
       LET r == invoked'[Len(invoked')]
           d == due[r]
       IN
       /\ r \in Waiting /\ d < now
       /\ ~stale => \A q \in Waiting : d <= due[q]]_vars

-----------------------------------------------------------------------------
\* Script.getWakeupTime
GetWakeupTime(t) ==
  IF m_cbList = Null THEN SLEEP_FOREVER
  ELSE IF time[m_cbList] = Immediate \/ time[m_cbList] < t THEN SLEEP_CANCELED
  ELSE time[m_cbList] - t

=============================================================================
