------------------------------ MODULE FileQueue ------------------------------
(***************************************************************************)
(* FileQueue, the queued half of File, and DataLoader: images and texts    *)
(* asked for by the nodes of the scenes are loaded one at a time by a      *)
(* single thread.  Each scene has a queue of Files; at the end of its      *)
(* compose it hands its next File to the thread when the static            *)
(* s_currentFile is null, and the canvas then answers the DataLoaders      *)
(* whose File has been loaded or has failed.                               *)
(*                                                                         *)
(* The canvas thread and the loading thread share s_currentFile, s_t and   *)
(* s_quit, mostly without a lock: a step is one access to them.  On        *)
(* Android the statics outlive the application, which may be started again *)
(* while a thread of the former session is still loading (MIDlet.java:97). *)
(***************************************************************************)
EXTENDS Integers, Sequences, SequencesExt, FiniteSets

CONSTANTS
  Scenes, Urls,
  MaxRequests,   \* bound: DataLoaders that reach the queue
  MaxWorkers,    \* bound: loading threads created
  MaxSessions,   \* bound: times the application is started
  MaxErrors      \* bound: Errors thrown while loading, spurious wake-ups

ASSUME BoundsAssumption ==
  /\ {MaxRequests, MaxWorkers, MaxSessions, MaxErrors} \subseteq Nat
  /\ MaxWorkers > 0 /\ MaxSessions > 0

Workers == 1..MaxWorkers
Null == 0

VARIABLES
  file,              \* the Files, numbered as created: [url, count, state]
  m_queue,           \* of each scene's FileQueue, linked by m_next
  blacklist,         \* m_blacklist of each scene
  s_currentFile, s_t, s_quit,
  wpc, wfile, waitOn, interrupted, \* of each loading thread
  pc, asked, starting,             \* of the canvas thread: place and locals
  request,           \* the DataLoaders: [scene, url, file, answer]
  sessions, errors,  \* counters for the bounds
  faults             \* history: the windows a behaviour has met

statics == <<s_currentFile, s_t, s_quit>>
workers == <<wpc, wfile, waitOn, interrupted>>
canvas  == <<pc, asked, starting>>
vars == <<file, m_queue, blacklist, s_currentFile, s_t, s_quit, wpc, wfile, waitOn,
          interrupted, pc, asked, starting, request, sessions, errors, faults>>

NoRequest == [scene |-> Null, url |-> Null]
\*   vanished   s_currentFile became null while getFile was reading it
\*   died       the loading thread ended on an Error or a spurious wake-up
\*   restarted  a session began while a thread of the last one was alive
\*   left       the thread was stopped before it took the File it had been given:
\*              s_currentFile stays set, and no later session loads anything
FaultKinds == {"vanished", "died", "restarted", "left"}

Init ==
  /\ file = <<>> /\ m_queue = [s \in Scenes |-> <<>>] /\ blacklist = [s \in Scenes |-> {}]
  /\ s_currentFile = Null /\ s_t = Null /\ s_quit = FALSE
  /\ wpc = [w \in Workers |-> "none"] /\ wfile = [w \in Workers |-> Null]
  /\ waitOn = [w \in Workers |-> Null] /\ interrupted = [w \in Workers |-> FALSE]
  /\ pc = "frame" /\ asked = NoRequest /\ starting = Null
  /\ request = <<>>
  /\ sessions = 1 /\ errors = 0 /\ faults = {}

-----------------------------------------------------------------------------
(* DataLoader and FileQueue.getFile, by the canvas thread.                 *)

\* The new DataLoader is put in s_root with the File it waits for.
Queue(a, f) ==
  /\ request' = Append(request, [scene |-> a.scene, url |-> a.url,
                                 file |-> f, answer |-> "waiting"])
  /\ pc' = "frame" /\ asked' = NoRequest

Matching(s, u) == {i \in DOMAIN m_queue[s] : file[m_queue[s][i]].url = u}

\* findQueue: join a queued File of that url, or add a new one at the end.
FindOrAdd(a) ==
  LET q == m_queue[a.scene]
      M == Matching(a.scene, a.url)
  IN IF M # {}
     THEN \E i \in M :
            /\ file' = [file EXCEPT ![q[i]].count = @ + 1]
            /\ Queue(a, q[i])
            /\ m_queue' = m_queue
     ELSE /\ file' = Append(file, [url |-> a.url, count |-> 1, state |-> "QUEUED"])
          /\ m_queue' = [m_queue EXCEPT ![a.scene] = Append(q, Len(file) + 1)]
          /\ Queue(a, Len(file) + 1)

\* A node asks for a url that is neither local nor blacklisted; getFile looks
\* at s_currentFile.
Request ==
  /\ pc = "frame" /\ Len(request) < MaxRequests
  /\ \E s \in Scenes, u \in Urls :
       LET a == [scene |-> s, url |-> u] IN
       /\ u \notin blacklist[s]
       /\ IF s_currentFile # Null
          THEN /\ pc' = "match" /\ asked' = a
               /\ UNCHANGED <<file, m_queue, request>>
          ELSE FindOrAdd(a)
  /\ UNCHANGED <<blacklist, statics, workers, starting, sessions, errors, faults>>

\* ... and reads it again to compare the urls: a null pointer ends the main loop.
Match ==
  /\ pc = "match"
  /\ IF s_currentFile = Null
     THEN /\ pc' = "failed" /\ asked' = NoRequest
          /\ faults' = faults \cup {"vanished"}
          /\ UNCHANGED <<file, m_queue, request>>
     ELSE /\ faults' = faults
          /\ IF file[s_currentFile].url = asked.url
             THEN pc' = "return" /\ UNCHANGED <<file, m_queue, request, asked>>
             ELSE FindOrAdd(asked)
  /\ UNCHANGED <<blacklist, statics, workers, starting, sessions, errors>>

\* ... and once more to return it: a DataLoader without a File is dropped.
Return ==
  /\ pc = "return"
  /\ Queue(asked, s_currentFile)
  /\ faults' = faults \cup IF s_currentFile = Null THEN {"vanished"} ELSE {}
  /\ UNCHANGED <<file, m_queue, blacklist, statics, workers, starting, sessions, errors>>

-----------------------------------------------------------------------------
(* FileQueue.loadNext and startThread, by the canvas thread.               *)

\* Mutant: only a File wanted by several requests is loaded.
WantedTwice(f) == file[f].state = "QUEUED" /\ file[f].count > 1

\* popQueue: the Files nobody wants any more are skipped.
Wanted(f) == file[f].state = "QUEUED" /\ file[f].count > 0
FirstWanted(q) == SelectInSeq(q, Wanted)

LoadNext(s) ==
  /\ pc = "frame" /\ s_currentFile = Null /\ m_queue[s] # <<>>
  /\ LET q == m_queue[s]
         i == FirstWanted(q)
     IN IF i = 0
        THEN m_queue' = [m_queue EXCEPT ![s] = <<>>] /\ UNCHANGED <<pc, starting>>
        ELSE /\ m_queue' = [m_queue EXCEPT ![s] = SubSeq(q, i + 1, Len(q))]
             /\ starting' = q[i]
             /\ pc' = IF s_t = Null THEN "new" ELSE "wake"
  /\ UNCHANGED <<file, blacklist, statics, workers, asked, request, sessions, errors, faults>>

\* s_t was null: a new thread.
NewThread ==
  /\ pc = "new"
  /\ \E w \in Workers :
       /\ \A v \in Workers : (wpc[v] = "none") = (v >= w)
       /\ s_currentFile' = starting /\ s_quit' = FALSE /\ s_t' = w
       /\ wpc' = [wpc EXCEPT ![w] = "loop"]
  /\ pc' = "frame" /\ starting' = Null
  /\ UNCHANGED <<file, m_queue, blacklist, wfile, waitOn, interrupted, asked, request,
                 sessions, errors, faults>>

\* One thread that waits on the object t goes on.
Notify(t) ==
  LET W == {w \in Workers : wpc[w] = "waiting" /\ waitOn[w] = t} IN
  IF W = {} THEN UNCHANGED <<wpc, waitOn>>
  ELSE \E w \in W : /\ wpc' = [wpc EXCEPT ![w] = "loop"]
                    /\ waitOn' = [waitOn EXCEPT ![w] = Null]

\* s_t was not null: hand the File over and notify.
WakeThread ==
  /\ pc = "wake"
  /\ IF s_t = Null
     THEN pc' = "failed" /\ UNCHANGED <<s_currentFile, wpc, waitOn>>
     ELSE /\ pc' = "frame"
          /\ s_currentFile' = starting
          /\ Notify(s_t)
  /\ starting' = Null
  /\ UNCHANGED <<file, m_queue, blacklist, s_t, s_quit, wfile, interrupted, asked, request,
                 sessions, errors, faults>>

-----------------------------------------------------------------------------
(* DataLoader.check and release, Scene.stop, by the canvas thread.         *)

Listed(r) == request[r].answer \in {"waiting", "left"}   \* in s_root

\* What run does with one DataLoader.
Answer(r) ==
  IF ~Listed(r) THEN request[r].answer
  ELSE IF request[r].file = Null THEN "dropped"
  ELSE CASE file[request[r].file].state = "LOADED" -> "data"
         [] file[request[r].file].state = "ERROR"  -> "error"
         [] OTHER -> request[r].answer

Check ==
  /\ pc = "frame"
  /\ request' = [r \in DOMAIN request |->
       IF Answer(r) = request[r].answer THEN request[r]
       ELSE [request[r] EXCEPT !.answer = Answer(r), !.file = Null]]
  /\ request' # request
  /\ blacklist' = [s \in Scenes |-> blacklist[s] \cup
       {request[r].url : r \in {q \in DOMAIN request :
          request[q].scene = s /\ Listed(q) /\ Answer(q) = "error"}}]
  /\ UNCHANGED <<file, m_queue, statics, workers, canvas, sessions, errors, faults>>

\* Mutant: the count of a File goes below zero.
CancelledBelow(R) ==
  [f \in DOMAIN file |->
     LET n == Cardinality({r \in R : request[r].file = f}) IN
     IF file[f].state # "QUEUED" THEN file[f]
     ELSE [file[f] EXCEPT !.count = @ - 2 * n]]

\* cancelQueue on the Files of the given DataLoaders.
Cancelled(R) ==
  [f \in DOMAIN file |->
     LET n == Cardinality({r \in R : request[r].file = f}) IN
     IF file[f].state # "QUEUED" THEN file[f]
     ELSE [file[f] EXCEPT !.count = IF @ > n THEN @ - n ELSE 0]]

\* An ImageTexture that is stopped or gets another url releases its loader.
Release ==
  /\ pc = "frame"
  /\ \E r \in DOMAIN request :
       /\ request[r].answer = "waiting"
       /\ file' = Cancelled({r})
       /\ request' = [request EXCEPT ![r].answer = "released", ![r].file = Null]
  /\ UNCHANGED <<m_queue, blacklist, statics, workers, canvas, sessions, errors, faults>>

\* The scenes S are stopped: ImageTextures release their loaders, RichTexts
\* keep no reference to theirs (L), and the queue is emptied.
StopScenes(S) ==
  LET R == {r \in DOMAIN request : request[r].answer = "waiting" /\ request[r].scene \in S} IN
  /\ \E L \in SUBSET R :
       /\ file' = Cancelled(R \ L)
       /\ request' = [r \in DOMAIN request |->
            IF r \notin R THEN request[r]
            ELSE IF r \in L THEN [request[r] EXCEPT !.answer = "left"]
            ELSE [request[r] EXCEPT !.answer = "released", !.file = Null]]
  /\ m_queue' = [s \in Scenes |-> IF s \in S THEN <<>> ELSE m_queue[s]]
  /\ blacklist' = [s \in Scenes |-> IF s \in S THEN {} ELSE blacklist[s]]

StopScene ==
  /\ pc = "frame"
  /\ \E s \in Scenes :
       /\ m_queue[s] # <<>> \/ \E r \in DOMAIN request :
            request[r].scene = s /\ request[r].answer = "waiting"
       /\ StopScenes({s})
  /\ UNCHANGED <<statics, workers, canvas, sessions, errors, faults>>

\* Mutant: the thread is neither notified nor interrupted.
ExitSilently ==
  /\ pc \in {"frame", "failed"}
  /\ StopScenes(Scenes)
  /\ pc' = "exited"
  /\ s_quit' = (s_quit \/ s_t # Null) /\ s_t' = Null
  /\ UNCHANGED <<s_currentFile, wpc, wfile, waitOn, interrupted, asked, starting,
                 sessions, errors, faults>>

\* The main loop ends, by itself or by an exception: the scenes are stopped,
\* then MiniPlayer.clean calls stopThread.  One step: s_t changes under the feet of
\* stopThread only if the thread dies meanwhile, and there is nothing to stop then.
Exit ==
  /\ pc \in {"frame", "failed"}
  /\ StopScenes(Scenes)
  /\ pc' = "exited"
  /\ IF s_t = Null THEN UNCHANGED <<s_t, s_quit, wpc, waitOn, interrupted>>
     ELSE /\ s_quit' = TRUE /\ s_t' = Null
          /\ IF wpc[s_t] = "waiting"    \* notified, or interrupted
             THEN /\ wpc' = [wpc EXCEPT ![s_t] = "loop"]
                  /\ waitOn' = [waitOn EXCEPT ![s_t] = Null]
                  /\ interrupted' = interrupted
             ELSE /\ interrupted' = [interrupted EXCEPT ![s_t] = wpc[s_t] # "dead"]
                  /\ Notify(s_t)
  /\ UNCHANGED <<s_currentFile, wfile, asked, starting, sessions, errors, faults>>

\* Android: the application is started again in the same process.
StartAgain ==
  /\ pc = "exited" /\ sessions < MaxSessions
  /\ sessions' = sessions + 1
  /\ pc' = "frame"
  /\ faults' = faults \cup
       IF \E w \in Workers : wpc[w] \notin {"none", "dead"} THEN {"restarted"} ELSE {}
  /\ UNCHANGED <<file, m_queue, blacklist, statics, workers, asked, starting, request, errors>>

Canvas == \/ \E s \in Scenes : LoadNext(s)
          \/ Match \/ Return \/ NewThread \/ WakeThread \/ Check
          \/ (pc = "failed" /\ Exit)

-----------------------------------------------------------------------------
(* The loading thread: run, and File.openAndLoad.                          *)

WorkerFrame == <<m_queue, blacklist, canvas, request, sessions>>
Goto(w, l) == wpc' = [wpc EXCEPT ![w] = l]

\* while (!s_quit), then s_currentFile is dereferenced.
Loop(w) ==
  /\ wpc[w] = "loop"
  /\ IF s_quit THEN Goto(w, "dead") /\ wfile' = wfile
     ELSE IF s_currentFile = Null THEN Goto(w, "dying") /\ wfile' = wfile
     ELSE Goto(w, "open") /\ wfile' = [wfile EXCEPT ![w] = s_currentFile]
  /\ faults' = faults \cup IF s_quit /\ s_currentFile # Null THEN {"left"} ELSE {}
  /\ UNCHANGED <<WorkerFrame, file, statics, waitOn, interrupted, errors>>

\* openAndLoad does nothing when the File is not queued any more.  LOADING
\* stands for OPENING, READY and LOADING, which nobody tells apart.
Open(w) ==
  /\ wpc[w] = "open"
  /\ IF file[wfile[w]].state = "QUEUED"
     THEN Goto(w, "loading") /\ file' = [file EXCEPT ![wfile[w]].state = "LOADING"]
     ELSE Goto(w, "clear") /\ file' = file
  /\ UNCHANGED <<WorkerFrame, statics, wfile, waitOn, interrupted, errors, faults>>

\* All bytes are read, or an exception closes the File.
Loaded(w) ==
  /\ wpc[w] = "loading"
  /\ \E st \in {"LOADED", "ERROR"} : file' = [file EXCEPT ![wfile[w]].state = st]
  /\ Goto(w, "clear")
  /\ UNCHANGED <<WorkerFrame, statics, wfile, waitOn, interrupted, errors, faults>>

\* An Error (no memory for the buffer) is not an Exception: it ends the thread.
Dies(w) ==
  /\ wpc[w] = "loading" /\ errors < MaxErrors
  /\ errors' = errors + 1
  /\ Goto(w, "dying") /\ faults' = faults \cup {"died"}
  /\ UNCHANGED <<WorkerFrame, file, statics, wfile, waitOn, interrupted>>

\* s_currentFile = null; the canvas is woken up.
Clear(w) ==
  /\ wpc[w] = "clear"
  /\ s_currentFile' = Null
  /\ wfile' = [wfile EXCEPT ![w] = Null]
  /\ Goto(w, "lock")
  /\ UNCHANGED <<WorkerFrame, file, s_t, s_quit, waitOn, interrupted, errors, faults>>

\* Mutant: the thread waits without a look at s_currentFile.
LockBlindly(w) ==
  /\ wpc[w] = "lock"
  /\ IF s_t = Null THEN Goto(w, "dying") /\ UNCHANGED <<waitOn, interrupted>>
     ELSE IF interrupted[w]
     THEN /\ Goto(w, "loop") /\ waitOn' = waitOn
          /\ interrupted' = [interrupted EXCEPT ![w] = FALSE]
     ELSE /\ Goto(w, "waiting") /\ interrupted' = interrupted
          /\ waitOn' = [waitOn EXCEPT ![w] = s_t]
  /\ UNCHANGED <<WorkerFrame, file, statics, wfile, errors, faults>>

\* synchronized (s_t): wait on it unless there is a File again.  stopThread may
\* have made s_t null, or a new session changed it.
Lock(w) ==
  /\ wpc[w] = "lock"
  /\ IF s_t = Null THEN Goto(w, "dying") /\ UNCHANGED <<waitOn, interrupted>>
     ELSE IF s_currentFile # Null THEN Goto(w, "loop") /\ UNCHANGED <<waitOn, interrupted>>
     ELSE IF interrupted[w]
     THEN /\ Goto(w, "loop") /\ waitOn' = waitOn
          /\ interrupted' = [interrupted EXCEPT ![w] = FALSE]
     ELSE /\ Goto(w, "waiting") /\ interrupted' = interrupted
          /\ waitOn' = [waitOn EXCEPT ![w] = s_t]
  /\ UNCHANGED <<WorkerFrame, file, statics, wfile, errors, faults>>

SpuriousWakeUp(w) ==
  /\ wpc[w] = "waiting" /\ errors < MaxErrors
  /\ errors' = errors + 1
  /\ Goto(w, "loop") /\ waitOn' = [waitOn EXCEPT ![w] = Null]
  /\ faults' = faults \cup {"died"}
  /\ UNCHANGED <<WorkerFrame, file, statics, wfile, interrupted>>

\* catch Throwable: s_t = null
Dead(w) ==
  /\ wpc[w] = "dying"
  /\ s_t' = Null
  /\ Goto(w, "dead") /\ wfile' = [wfile EXCEPT ![w] = Null]
  /\ UNCHANGED <<WorkerFrame, file, s_currentFile, s_quit, waitOn, interrupted, errors, faults>>

Run(w) == Loop(w) \/ Open(w) \/ Loaded(w) \/ Clear(w) \/ Lock(w) \/ Dead(w)

Next == \/ Canvas \/ Request \/ Release \/ StopScene \/ Exit \/ StartAgain
        \/ \E w \in Workers : Run(w) \/ Dies(w) \/ SpuriousWakeUp(w)

Spec == Init /\ [][Next]_vars
\* Every scene is composed and every loader checked again and again; threads are
\* scheduled and connections answer or fail.
FairSpec == /\ Spec
            /\ WF_vars(Match \/ Return \/ NewThread \/ WakeThread \/ (pc = "failed" /\ Exit))
            /\ \A s \in Scenes : SF_vars(LoadNext(s))
            /\ SF_vars(Check)
            /\ \A w \in Workers : WF_vars(Run(w))
-----------------------------------------------------------------------------
(* Properties.                                                             *)

\* Every variable holds values of its kind.
TypeOK ==
  /\ \A f \in DOMAIN file :
       /\ file[f].url \in Urls /\ file[f].count \in 0..MaxRequests
       /\ file[f].state \in {"QUEUED", "LOADING", "LOADED", "ERROR"}
  /\ \A s \in Scenes : \A i \in DOMAIN m_queue[s] : m_queue[s][i] \in DOMAIN file
  /\ blacklist \in [Scenes -> SUBSET Urls]
  /\ {s_currentFile, starting} \subseteq DOMAIN file \cup {Null}
  /\ s_t \in Workers \cup {Null} /\ s_quit \in BOOLEAN
  /\ \A w \in Workers :
       /\ wpc[w] \in {"none", "loop", "open", "loading", "clear", "lock",
                      "waiting", "dying", "dead"}
       /\ wfile[w] \in DOMAIN file \cup {Null}
       /\ (wpc[w] = "waiting") = (waitOn[w] # Null)
       /\ interrupted[w] \in BOOLEAN
  /\ pc \in {"frame", "match", "return", "new", "wake", "failed", "exited"}
  /\ \A r \in DOMAIN request :
       request[r].answer \in {"waiting", "left", "data", "error", "released", "dropped"}
  /\ faults \subseteq FaultKinds

Loading(w) == wpc[w] = "loading"

\* The comment of the class: no two Files are accessed at the same time.
OneFileAtATime == \A v, w \in Workers : Loading(v) /\ Loading(w) => v = w

\* A File somebody waits for is not dropped: until it is opened it is in the
\* queue with a positive count, or on its way to the thread.
NoWantedFileDropped ==
  \A r \in DOMAIN request :
    LET f == request[r].file IN
    request[r].answer = "waiting" /\ f # Null /\ file[f].state = "QUEUED" =>
      \/ f \in {starting, s_currentFile}
      \/ \E w \in Workers : wfile[w] = f
      \/ file[f].count > 0 /\ \E i \in DOMAIN m_queue[request[r].scene] : m_queue[request[r].scene][i] = f
      \/ "restarted" \in faults \/ pc = "failed"

\* A request is answered in the end, unless its node is stopped or a window of
\* faults was met.
EveryRequestAnswered ==
  \A r \in 1..MaxRequests :
    (r \in DOMAIN request /\ request[r].answer = "waiting")
      ~> (faults # {} \/ (r \in DOMAIN request /\ request[r].answer # "waiting"))

\* After stopThread the thread ends, wherever it was.
ThreadEnds ==
  (pc = "exited") ~> (pc # "exited" \/ "restarted" \in faults \/ \A w \in Workers : wpc[w] \in {"none", "dead"})

=============================================================================
