--------------------------------- MODULE Inline --------------------------------
(***************************************************************************)
(* A scene inside a scene: Inline, shown or hidden by a Switch, loads the  *)
(* scene of its url, starts it, composes it in its own time and destroys   *)
(* it when the url changes. A remote scene is read by a thread (Decoder);  *)
(* one embedded in the file of its parent is found in the decoder that the *)
(* Context names.                                                          *)
(*                                                                         *)
(* A loaded scene holds a TimeSensor, whose registrations in the scene are *)
(* counted; that its nodes are started and stopped is counted too. What    *)
(* the methods change is one record, tree; they are operators on it. Only  *)
(* the threads run beside the main loop, and they share the state of their *)
(* decoder and what has been read of the file.                             *)
(***************************************************************************)
EXTENDS TimeSensor

CONSTANT MaxScenes   \* bound: scenes that are created

ASSUME InlineAssumption == MaxScenes \in Nat \ {0}

Scenes == 1 .. MaxScenes
None == 0      \* no scene
Main == 0      \* the decoder of the main scene; one s that a thread reads has decoder s
Urls == {"empty", "embedded", "remote"}

VARIABLES
  tree,      \* the nodes, see TreeType
  decoders,  \* of the scenes that threads read: [m_state, read, thread]
  windows    \* history, per scene: "early" it was started before it was loaded,
             \* "dead" the thread that reads it has died, "foreign" it was looked for
             \* in the decoder of another scene

SensorType == [
  startTime : Int, stopTime : Int, loop : BOOLEAN, cycleInterval : Nat, m_startTime : Int,
  m_restartTime : Int, m_baseTime : Nat, m_started : BOOLEAN, m_lastFrac : Int,
  isActive : BOOLEAN ]

TreeType == [
  \* Switch: whichChoice, m_isUpdated, and whether m_node is the Inline
  shown : BOOLEAN, switched : BOOLEAN, chosen : BOOLEAN,
  \* Inline
  m_url : Urls, m_isUpdated : BOOLEAN, m_scene : Scenes \cup {None}, m_initTime : Nat,
  m_state : {"CLOSED", "ERROR", "LOADING", "READY"},
  \* Context.decoder
  decoder : Scenes \cup {Main},
  created : 0 .. MaxScenes,
  \* Scene: m_node, the number of its starts less that of its stops, and the
  \* sensor with the number of times it is in m_timeSensors
  scenes : [Scenes -> [ m_decoder : Scenes \cup {Main}, m_node : {"none", "decoded", "destroyed"},
                        starts : 0 .. 2, registered : 0 .. 2, sensor : SensorType ]] ]

DecoderType == [ m_state : {"NONE", "OPENING", "LOADING", "LOADED", "ERROR"},
                 read : BOOLEAN, thread : {"none", "open", "read"} ]

-----------------------------------------------------------------------------
(* Scene                                                                   *)

\* The decoder of the scene has its data.
HasData(tr, s) ==
  LET d == tr.scenes[s].m_decoder IN d = Main \/ decoders[d].read

\* The state of the scene is that of its decoder.
StateOf(tr, s) ==
  LET d == tr.scenes[s].m_decoder IN IF d = Main THEN "LOADED" ELSE decoders[d].m_state

\* Scene.start: the data is decoded the first time only.
SceneStart(tr, s) ==
  IF tr.scenes[s].m_node = "decoded" \/ HasData(tr, s)
  THEN [tr EXCEPT !.scenes[s].m_node = "decoded", !.scenes[s].starts = @ + 1,
                  !.scenes[s].registered = @ + 1, !.scenes[s].sensor = start(@)]
  ELSE tr

\* Scene.stop: the sensor takes one registration away.
SceneStop(tr, s) ==
  [tr EXCEPT !.scenes[s].starts = IF @ = 0 THEN 0 ELSE @ - 1,
             !.scenes[s].registered = IF @ = 0 THEN 0 ELSE @ - 1]

\* activateActivables: in one frame the sensor is activated as often as it is
\* registered.
Activated(ts, t, n) ==
  IF n = 0 THEN ts ELSE IF n = 1 THEN activate(ts, t) ELSE activate(activate(ts, t), t)

SceneThrows(tr, s, t) ==
  /\ tr.scenes[s].registered > 0
  /\ Throws(tr.scenes[s].sensor, t)

SceneNotifies(tr, s, t) ==
  tr.scenes[s].registered > 0 /\ Notifies(tr.scenes[s].sensor, t)

\* Scene.innerCompose
InnerCompose(tr, s, t) ==
  [tr EXCEPT !.scenes[s].sensor = Activated(@, t, tr.scenes[s].registered)]

\* Scene.getWakeupTime
SceneWakeup(tr, s, t, listened) ==
  IF tr.scenes[s].registered > 0 THEN TimeSensorWakeup(tr.scenes[s].sensor, t, listened)
  ELSE SLEEP_FOREVER

-----------------------------------------------------------------------------
(* Inline and Switch                                                       *)

\* Started while its scene is being loaded, or has failed to.
StartsEarly(tr) ==
  tr.m_scene # None /\ tr.m_state # "READY" /\ HasData(tr, tr.m_scene)

\* Inline.start: with the decoder and the time of the parent.
InlineStart(tr) ==
  IF tr.m_scene = None THEN [tr EXCEPT !.m_isUpdated = TRUE] ELSE SceneStart(tr, tr.m_scene)

\* Mutant: a hidden scene is not stopped.
InlineStopLeaves(tr) ==
  IF tr.m_scene = None THEN tr
  ELSE [tr EXCEPT !.decoder = tr.scenes[tr.m_scene].m_decoder]

\* Inline.stop leaves the decoder of its scene in the context.
InlineStop(tr) ==
  IF tr.m_scene = None THEN tr
  ELSE SceneStop([tr EXCEPT !.decoder = tr.scenes[tr.m_scene].m_decoder], tr.m_scene)

\* Inline.destroy: stop, destroy, and the decoder again as it was.
InlineDestroy(tr) ==
  IF tr.m_scene = None THEN tr
  ELSE [SceneStop(tr, tr.m_scene) EXCEPT !.scenes[tr.m_scene].m_node = "destroyed",
                                         !.m_scene = None]

\* checkForNodeToStart, also when the choice is set again to what it was.
SwitchCompose(tr) ==
  LET stopped == IF tr.chosen THEN InlineStop(tr) ELSE tr
      chosen == [stopped EXCEPT !.chosen = tr.shown, !.switched = FALSE]
  IN IF ~tr.switched THEN tr ELSE IF tr.shown THEN InlineStart(chosen) ELSE chosen

\* The scene that is created next.
NewScene(tr) == tr.created + 1

\* An embedded scene is only found in the decoder of its parent, not in one that a
\* scene of another url has left in the context.
IsForeign(tr) == tr.m_url = "embedded" /\ tr.decoder # Main

\* Inline.compose, when the url has changed: the scene before is destroyed and a
\* scene is created.
Reload(tr) ==
  LET gone == [InlineDestroy(tr) EXCEPT !.m_isUpdated = FALSE]
  IN IF tr.m_url = "empty" THEN [gone EXCEPT !.m_state = "CLOSED"]
     ELSE [gone EXCEPT !.m_state = "LOADING",
                       !.m_scene = NewScene(tr), !.created = NewScene(tr),
                       !.scenes[NewScene(tr)].m_decoder =
                          IF tr.m_url = "embedded" /\ ~IsForeign(tr) THEN Main ELSE NewScene(tr)]

\* The decoder of a new scene: that of a remote one starts its thread. The name of an
\* embedded one is put behind the baseName of a foreign decoder, which is that of a
\* remote scene: it is looked for on the network, and read by a thread as well.
NewDecoder(tr) ==
  IF tr.m_url = "remote" \/ IsForeign(tr)
  THEN [m_state |-> "OPENING", read |-> FALSE, thread |-> "open"]
  ELSE [m_state |-> "NONE", read |-> FALSE, thread |-> "none"]

\* Inline.compose, the cases of m_state before READY. The scene is started in its
\* own time and with its own decoder.
Ready(tr, t) ==
  CASE tr.m_state = "ERROR" -> [tr EXCEPT !.m_state = "CLOSED"]
    [] tr.m_state = "LOADING" /\ StateOf(tr, tr.m_scene) = "LOADED" ->
         SceneStart([tr EXCEPT !.m_initTime = t, !.m_state = "READY"], tr.m_scene)
    [] tr.m_state = "LOADING" /\ StateOf(tr, tr.m_scene) = "ERROR" -> [tr EXCEPT !.m_state = "ERROR"]
    [] OTHER -> tr

\* The time of the inlined scene.
InTime(tr, t) == t - tr.m_initTime

\* ... and the case READY, for a scene that has been made ready.
InlineThrows(tr, t) ==
  tr.m_state = "READY" /\ SceneThrows(tr, tr.m_scene, InTime(tr, t))
InlineCompose(tr, t) ==
  IF tr.m_state = "READY" THEN InnerCompose(tr, tr.m_scene, InTime(tr, t)) ELSE tr

\* Mutant: no other frame is asked for while a scene is loaded.
InlineNotifiesReady(before, tr, t) ==
  tr.m_state = "READY" /\ SceneNotifies(tr, tr.m_scene, InTime(tr, t))

\* The Inline, or its scene, wants another frame.
InlineNotifies(before, tr, t) ==
  \/ before.m_state = "LOADING" /\ tr.m_state # "READY"
  \/ tr.m_state = "READY" /\ SceneNotifies(tr, tr.m_scene, InTime(tr, t))

\* Mutant: the scene is asked in the time of its parent.
InlineWakeupOuter(tr, t, listened) ==
  IF tr.m_scene = None THEN SLEEP_FOREVER
  ELSE InParent(SceneWakeup(tr, tr.m_scene, t, listened), tr.m_initTime)

\* Inline.getWakeupTime
InlineWakeup(tr, t, listened) ==
  IF tr.m_scene = None THEN SLEEP_FOREVER
  ELSE InParent(SceneWakeup(tr, tr.m_scene, InTime(tr, t), listened), tr.m_initTime)

\* Switch.stop
SwitchStop(tr) == IF tr.chosen THEN [InlineStop(tr) EXCEPT !.chosen = FALSE] ELSE tr

-----------------------------------------------------------------------------
(* The thread of a Decoder.                                                *)

Met(s, w) == windows' = [windows EXCEPT ![s] = @ \cup {w}]

Open(d) ==
  /\ decoders[d].thread = "open"
  /\ decoders' = [decoders EXCEPT ![d].m_state = "LOADING", ![d].thread = "read"]
  /\ UNCHANGED windows

ReadScene(d) ==
  /\ decoders[d].thread = "read" /\ ~decoders[d].read
  /\ decoders' = [decoders EXCEPT ![d].read = TRUE]
  /\ UNCHANGED windows

\* A connection that gives nothing: readAllBytes returns null, and new File (null)
\* throws. The state stays LOADING.
Dies(d) ==
  /\ decoders[d].thread = "read" /\ ~decoders[d].read
  /\ decoders' = [decoders EXCEPT ![d].thread = "none"]
  /\ Met(d, "dead")

\* The end of the file, or something that cannot be read.
Ends(d) ==
  /\ decoders[d].thread = "read"
  /\ \E st \in {"LOADED", "ERROR"} :
       /\ st = "LOADED" => decoders[d].read
       /\ decoders' = [decoders EXCEPT ![d].m_state = st, ![d].thread = "none"]
  /\ UNCHANGED windows

===============================================================================
