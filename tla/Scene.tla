--------------------------------- MODULE Scene ---------------------------------
(***************************************************************************)
(* The main scene as the loop of MyCanvas composes it: a Script with its   *)
(* callbacks, and a scene with a TimeSensor in an Inline that a Switch     *)
(* shows or hides. In a frame an event is handled by scripts, the nodes    *)
(* are composed, the Inline first, and then the loop asks the scene how    *)
(* long it may sleep.                                                      *)
(*                                                                         *)
(* now is Context.time, which the loop reads once per frame, and which     *)
(* stands still while it sleeps for ever. That a wake-up can come between  *)
(* the decision and the wait is modelled in CanvasLoop; here they are one  *)
(* step. A unit of time is longer than SLEEP_TRESHOLD.                     *)
(***************************************************************************)
EXTENDS ScriptCallbacks, Inline

CONSTANT Plays   \* the scenes, with the bounds of their runs: [calls, requests, time, url, sensor]

\* A sensor is just decoded when its scene is started for the first time.
ASSUME PlaysAssumption ==
  \A p \in Plays :
    /\ p.calls \in 0 .. MaxCalls /\ p.requests \in Nat
    /\ p.time \in 0 .. MaxTime /\ p.url \in Urls /\ p.sensor \in SensorType
    /\ LET ts == p.sensor IN ts = TimeSensor(ts.startTime, ts.stopTime, ts.loop, ts.cycleInterval)

VARIABLES
  play,         \* which of Plays
  phase,        \* of the loop
  wake,         \* when it wakes up from its sleep
  composeAgain, \* MyCanvas.composeAgain
  event,        \* an event is waiting
  requests      \* bound: the events so far

loop == <<play, phase, wake, composeAgain, event, requests>>
nodes == <<tree, decoders, windows>>
sceneVars == <<vars, nodes, loop>>

Unloaded == [m_state |-> "NONE", read |-> FALSE, thread |-> "none"]

\* The main scene is started; every scene to come holds the sensor of the play.
SceneInit ==
  /\ Init
  /\ play \in Plays
  /\ tree = [ shown |-> TRUE, switched |-> FALSE, chosen |-> TRUE,
              m_url |-> play.url, m_isUpdated |-> TRUE, m_scene |-> None,
              m_initTime |-> 0, m_state |-> "CLOSED", decoder |-> Main, created |-> 0,
              scenes |-> [s \in Scenes |-> [ m_decoder |-> Main, m_node |-> "none",
                           starts |-> 0, registered |-> 0, sensor |-> play.sensor ]] ]
  /\ decoders = [s \in Scenes |-> Unloaded]
  /\ windows = [s \in Scenes |-> {}]
  /\ phase = "frame" /\ wake = SLEEP_CANCELED
  /\ composeAgain = FALSE /\ event = FALSE /\ requests = 0

Ended == {"broken", "left", "full"}

-----------------------------------------------------------------------------
(* What comes from outside.                                                *)

\* addEvent, with its wake-up.
Event ==
  /\ phase \notin Ended /\ ~event /\ requests < play.requests
  /\ event' = TRUE /\ requests' = requests + 1 /\ composeAgain' = TRUE
  /\ UNCHANGED <<vars, nodes, play, phase, wake>>

\* A background thread adds a callback and wakes the canvas up.
Posted ==
  /\ phase \notin Ended /\ pc = "idle" /\ Len(due) < play.calls
  /\ AddCallback(Immediate, "idle")
  /\ composeAgain' = TRUE
  /\ UNCHANGED <<cb, reentrant, stale, now, invoked, nodes, play, phase, wake, event, requests>>

\* The thread of a decoder; at its end it wakes the canvas up.
Thread(d) ==
  /\ Open(d) \/ ReadScene(d) \/ Dies(d) \/ Ends(d)
  /\ composeAgain' = (composeAgain \/ decoders'[d].m_state \in {"LOADED", "ERROR"})
  /\ UNCHANGED <<vars, tree, play, phase, wake, event, requests>>

-----------------------------------------------------------------------------
(* A frame.                                                                *)

\* What the scripts of a scene do for an event. A field that is set asks for
\* another frame.
Changes ==
  LET s == tree.m_scene
      Sense(field, v) == [tree EXCEPT !.scenes[s].sensor = fieldChanged(@, field, v)]
      at == InTime(tree, now)
  IN { [tree EXCEPT !.shown = b, !.switched = TRUE] : b \in BOOLEAN }
     \cup { [tree EXCEPT !.m_url = u, !.m_isUpdated = TRUE] : u \in Urls }
     \cup IF tree.m_state = "READY" /\ tree.chosen
          THEN { Sense("startTime", at + d) : d \in {0, 1} } \cup { Sense("stopTime", at + d) : d \in {0, 1} }
               \cup { Sense("loop", b) : b \in BOOLEAN }
          ELSE {}

\* pickEvent, composeAgain = false, and the event is handled.
Frame ==
  /\ phase = "frame"
  /\ \/ ~event /\ composeAgain' = FALSE /\ tree' = tree
     \/ event /\ composeAgain' = TRUE /\ tree' \in Changes
  /\ event' = FALSE
  /\ phase' = "switch" /\ wake' = SLEEP_CANCELED
  /\ UNCHANGED <<vars, decoders, windows, play, requests>>

\* The bound: a scene would be created.
Full(tr) == tr.chosen /\ tr.m_isUpdated /\ tr.m_url # "empty" /\ tr.created = MaxScenes

\* Switch.compose, and the Inline destroys and creates scenes.
Switch ==
  LET tr == SwitchCompose(tree)
      early == tree.switched /\ tree.shown /\ StartsEarly(tree)
      reloads == tr.chosen /\ tr.m_isUpdated
      news == IF reloads /\ tr.m_url # "empty" THEN {NewScene(tr)} ELSE {}
  IN /\ phase = "switch"
     /\ IF Full(tr) THEN phase' = "full" /\ UNCHANGED nodes
        ELSE /\ phase' = "inline"
             /\ tree' = IF reloads THEN Reload(tr) ELSE tr
             /\ decoders' = [s \in Scenes |-> IF s \in news THEN NewDecoder(tr) ELSE decoders[s]]
             /\ windows' = [s \in Scenes |->
                  windows[s] \cup (IF early /\ s = tree.m_scene THEN {"early"} ELSE {})
                             \cup (IF s \in news /\ IsForeign(tr) THEN {"foreign"} ELSE {})]
     /\ UNCHANGED <<vars, play, wake, composeAgain, event, requests>>

\* The rest of Inline.compose. An exception ends the play.
ComposeInline ==
  LET tr == Ready(tree, now) IN
  /\ phase = "inline"
  /\ IF ~tree.chosen THEN phase' = "script" /\ UNCHANGED <<tree, composeAgain>>
     ELSE IF InlineThrows(tr, now)
     THEN phase' = "broken" /\ tree' = tr /\ UNCHANGED composeAgain
     ELSE /\ phase' = "script"
          /\ tree' = InlineCompose(tr, now)
          /\ composeAgain' = (composeAgain \/ InlineNotifies(tree, tr, now))
  /\ UNCHANGED <<vars, decoders, windows, play, wake, event, requests>>

\* Script.compose: callbacks are invoked if there are any.
Walk ==
  /\ \/ phase = "script" /\ m_cbList = Null /\ phase' = "decide" /\ UNCHANGED vars
     \/ phase = "script" /\ InvokeCallbacks /\ phase' = "walk"
     \/ phase = "walk" /\ (InvokeNext \/ FunctionReturns) /\ phase' = "walk"
     \/ phase = "walk" /\ Len(due) < play.calls /\ AddFromFunction /\ phase' = "walk"
     \/ phase = "walk" /\ InvokeEnds /\ phase' = "decide"
  /\ UNCHANGED <<nodes, play, wake, composeAgain, event, requests>>

\* A function called by the scene, but not by invokeCallbacks, sets a timeout.
SetTimeout ==
  /\ phase = "script" /\ Len(due) < play.calls
  /\ \E t \in Timeouts : AddCallback(t, "idle")
  /\ UNCHANGED <<cb, reentrant, stale, now, invoked, nodes, loop>>

\* The event makes a script leave the scene, which is stopped and destroyed; a play
\* that ends with an exception stops its scene.
LeaveScene ==
  /\ phase = "broken" \/ (phase = "decide" /\ requests > 0)
  /\ tree' = IF phase = "broken" THEN SwitchStop(tree) ELSE InlineDestroy(SwitchStop(tree))
  /\ phase' = "left"
  /\ UNCHANGED <<vars, decoders, windows, play, wake, composeAgain, event, requests>>

-----------------------------------------------------------------------------
(* Sleep.                                                                  *)

\* Scene.getWakeupTime of the main scene: a hidden Inline is not asked.
WakeupTime(t) ==
  Earliest({GetWakeupTime(t)} \cup
           (IF tree.chosen THEN {InlineWakeup(tree, t, FALSE)} ELSE {}))

\* The loop reads the clock and decides.
Decide ==
  /\ phase = "decide"
  /\ \E t \in {now, now + 1} :
       LET d == IF composeAgain \/ event THEN SLEEP_CANCELED ELSE Duration(WakeupTime(t), t)
       IN /\ t <= play.time
          /\ now' = t
          /\ IF d > 0 THEN /\ phase' = "asleep"
                           /\ wake' = IF d = SLEEP_FOREVER THEN SLEEP_FOREVER ELSE t + d
             ELSE phase' = "frame" /\ wake' = SLEEP_CANCELED
  /\ UNCHANGED <<heap, m_cbList, cb, pc, reentrant, stale, due, invoked, nodes,
                 play, composeAgain, event, requests>>

\* Woken up, at any time until then, or it is time.
WakeUp ==
  /\ phase = "asleep"
  /\ IF wake = SLEEP_FOREVER THEN composeAgain /\ now' = now
     ELSE /\ now' \in now .. wake
          /\ composeAgain \/ now' = wake
          /\ now' <= play.time
  /\ phase' = "frame"
  /\ UNCHANGED <<heap, m_cbList, cb, pc, reentrant, stale, due, invoked, nodes,
                 play, wake, composeAgain, event, requests>>

-----------------------------------------------------------------------------

Step == Frame \/ Switch \/ ComposeInline \/ Walk \/ Decide \/ WakeUp

SceneNext ==
  \/ Step \/ Event \/ Posted \/ SetTimeout \/ LeaveScene
  \/ \E d \in Scenes : Thread(d)

SceneSpec == SceneInit /\ [][SceneNext]_sceneVars

\* The loop and the threads are scheduled, called functions return, and the clock
\* moves between frames. Nobody has to send an event or to ask for a callback.
SceneFairSpec ==
  /\ SceneSpec
  /\ WF_sceneVars(Step)
  /\ SF_sceneVars(Decide /\ now' > now)
  /\ \A d \in Scenes : WF_sceneVars(Thread(d))
-----------------------------------------------------------------------------
(* Properties                                                              *)

\* The variables of the scene, of its nodes and of the loop have their types.
SceneTypeOK ==
  /\ TypeOK
  /\ tree \in TreeType
  /\ decoders \in [Scenes -> DecoderType]
  /\ windows \in [Scenes -> SUBSET {"early", "dead", "foreign"}]
  /\ play \in Plays /\ requests \in 0 .. play.requests
  /\ phase \in {"frame", "switch", "inline", "script", "walk", "decide", "asleep"} \cup Ended
  /\ wake \in Nat \cup {SLEEP_CANCELED}
  /\ composeAgain \in BOOLEAN /\ event \in BOOLEAN

\* The scene of the Inline is shown and composed.
Running(s) == tree.chosen /\ tree.m_scene = s /\ tree.m_state = "READY"

\* A scene is started exactly while it is shown and ready, once, and its sensors are
\* registered once: whatever is hidden, shown again, loaded, replaced or left, in any
\* order (Scene.start and stop, Inline and Switch). The code's window: an Inline that
\* is shown again while its scene is read starts it (Inline.java:98), and starts it
\* again when it has been read.
StartedAsShown ==
  \A s \in Scenes : "early" \in windows[s] \/
    LET scene == tree.scenes[s] IN
    /\ scene.registered = scene.starts
    /\ scene.starts = IF Running(s) THEN 1 ELSE 0

\* The canvas does not sleep past what has to be done: nothing has been changed, no
\* scene is waited for, no sensor runs, and it wakes up for the next callback and the
\* next start of a sensor, whose times are those of two scenes (getWakeupTime of
\* Script, TimeSensor, Inline and Scene, getSleepDuration).
SleepsUntilNeeded ==
  phase = "asleep" /\ ~composeAgain =>
    /\ ~event /\ ~tree.switched
    /\ tree.chosen => ~tree.m_isUpdated /\ tree.m_state \notin {"LOADING", "ERROR"}
    /\ ~stale => \A r \in Waiting : wake <= due[r]
    /\ \A s \in Scenes : Running(s) =>
         LET ts == tree.scenes[s].sensor IN
         /\ ~ts.m_started /\ ~ts.isActive
         /\ \A u \in now .. play.time : isActivable(ts, InTime(tree, u)) => u >= wake

\* A requested callback is invoked, once its time is within the clock's bound, unless
\* it is one the walk loses, or the scene is left.
EveryRequestInvoked ==
  \A r \in 1 .. MaxCalls :
    (r \in Requests /\ due[r] < play.time) ~> (stale \/ IsInvoked(r) \/ phase \in Ended)

\* The decoder of the scene could not read it.
Unreadable(s) == tree.scenes[s].m_decoder = s /\ decoders[s].m_state = "ERROR"

\* An Inline that is shown does not load for ever: its scene gets ready, or is closed
\* when its decoder has failed (Inline.compose, Decoder). An embedded scene is ready at
\* once and never closed, unless it is looked for in a decoder that another scene has
\* left in the context (Inline.java:114): it is then loaded, or not, like a remote
\* one. The code's window: the thread of a connection that gives nothing dies
\* (Decoder.java:79), for both.
InlineSettles ==
  \A s \in Scenes :
    (tree.m_scene = s /\ tree.m_state = "LOADING") ~>
      \/ tree.m_scene # s \/ ~tree.chosen \/ phase \in Ended
      \/ tree.m_state = "READY"
      \/ tree.m_state = "CLOSED" /\ Unreadable(s)
           /\ (tree.m_url = "remote" \/ tree.m_isUpdated \/ "foreign" \in windows[s])
      \/ "dead" \in windows[s]

\* An exception of the sensor has ended the play: a cycle of zero.
Divided == phase \in {"broken", "left"} /\ play.sensor.cycleInterval = 0

\* A sensor whose start is to come is started, also when the canvas sleeps until
\* then, and one that runs is told to have ended once its cycle or its stop time is
\* over, unless the scene is hidden, replaced or left or its fields are set to
\* another time (TimeSensor.activate, and its delayed end). The times are those
\* within the clock's bound.
SensorsInTime ==
  \A s \in Scenes :
    LET ts == tree.scenes[s].sensor
        starts == isActivable(ts, ts.m_startTime) /\ ts.m_startTime <= InTime(tree, play.time)
        ends == isDesactivable(Restarted(ts), InTime(tree, play.time))
    IN /\ (Running(s) /\ phase = "decide" /\ ~ts.m_started /\ starts
             /\ InTime(tree, now) < ts.m_startTime)
            ~> (ts.isActive \/ ~starts \/ ~Running(s) \/ phase \in {"left", "full"} \/ Divided)
       /\ (Running(s) /\ ts.isActive /\ ends)
            ~> (~ts.isActive \/ ~ends \/ ~Running(s) \/ phase \in {"left", "full"} \/ Divided)

===============================================================================
