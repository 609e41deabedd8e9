------------------------------- MODULE MediaNode -------------------------------
(***************************************************************************)
(* The nodes that use media, composed by the main loop: MediaNode opens    *)
(* and closes a medium by the time of the scene, and MediaControl has it   *)
(* sought and paused. After every frame the loop asks MediaNode how long   *)
(* it may sleep; it wakes up at that time, for an input of the user, or    *)
(* when a medium changes.                                                  *)
(*                                                                         *)
(* Time is the time of the scene: it stands still while the loop sleeps    *)
(* for ever. A unit of it is longer than SLEEP_TRESHOLD.                   *)
(***************************************************************************)
EXTENDS MediaObject

CONSTANTS
  MaxTime,     \* bound on the time
  MaxRequests, \* bound on what scripts ask for
  StartTimes, StopTimes, \* of the scene
  Requests     \* what scripts may ask for

ASSUME NodeAssumption ==
  /\ MaxTime \in Nat /\ MaxRequests \in Nat
  /\ StartTimes \subseteq 0 .. MaxTime /\ StopTimes \subseteq -1 .. MaxTime
  /\ Requests \subseteq {"stop", "play", "reload", "find", "seek", "pause", "resume"}

FOREVER == MaxTime + 1
CANCELED == -1

VARIABLES
  now, t, wake,   \* the clock, as the loop has read it (c.time), and the wake-up
  m_media, m_startTime, m_restartTime, m_stopTime, m_urlChanged, \* of MediaNode
  control,     \* MediaControl: [loadable, urlChanged, seek, pause]
  request, requests \* m_event: the user makes a script ask for something; the bound

node    == <<m_media, m_startTime, m_restartTime, m_stopTime, m_urlChanged>>
clocks  == <<now, t, wake>>
inputs  == <<request, requests>>
vars == <<mediaVars, now, t, wake, m_media, m_startTime, m_restartTime, m_stopTime,
          m_urlChanged, control, request, requests>>

\* A scene that has been started; its scripts may have asked for a pause already.
Init ==
  /\ MediaInit
  /\ now = 0 /\ t = 0 /\ wake = CANCELED
  /\ m_media = 0 /\ m_urlChanged = TRUE
  /\ m_startTime \in StartTimes /\ m_restartTime = m_startTime
  /\ m_stopTime \in StopTimes
  /\ control \in [loadable : {0}, urlChanged : {TRUE}, seek : {FALSE}, pause : {"same", "pause"}]
  /\ request = FALSE /\ requests = 0

-----------------------------------------------------------------------------
(* Time and inputs.                                                        *)

Tick ==
  /\ now < MaxTime
  /\ ~(asleep /\ wake = FOREVER)
  /\ now' = now + 1
  /\ UNCHANGED <<mediaVars, t, wake, node, control, inputs>>

\* An event of the user.
Request ==
  /\ requests < MaxRequests /\ requests' = requests + 1
  /\ ~request /\ request' = TRUE
  /\ at[Loop] \notin {"left", "broken"}
  /\ WakeUp
  /\ UNCHANGED <<objects, actors, history, clocks, node, control>>

\* The script sets a field: fieldChanged of the nodes.
FieldChanged(r, v) ==
  /\ m_stopTime' = IF r = "stop" THEN v ELSE m_stopTime
  /\ m_startTime' = IF r = "play" /\ m_media = 0 THEN v ELSE m_startTime
  /\ m_restartTime' = IF r = "play" THEN v ELSE m_restartTime
  /\ m_urlChanged' = (m_urlChanged \/ r = "reload")
  /\ control' = [ control EXCEPT !.urlChanged = @ \/ r = "find",
                                 !.seek = @ \/ r = "seek",
                                 !.pause = IF r \in {"pause", "resume"} THEN r ELSE @ ]

\* The start of a frame: the event is picked, and its script comes first.
Frame ==
  /\ at[Loop] = "frame"
  /\ composeAgain' = FALSE
  /\ request' = FALSE
  /\ wake' = CANCELED
  /\ \/ ~request /\ UNCHANGED <<node, control>>
     \/ /\ request
        /\ \E r \in Requests, v \in 0 .. MaxTime :
             (r \in {"stop", "play"} \/ v = 0) /\ FieldChanged(r, v)
        /\ UNCHANGED m_media
  /\ Goto(Loop, "compose")
  /\ UNCHANGED <<objects, why, msg, work, asleep, history, now, t,  requests>>

-----------------------------------------------------------------------------
(* The nodes are composed.                                                 *)

\* A new medium may be opened: it is after the start, and before the stop or there
\* is none after the start.
Due == /\ t >= m_startTime
       /\ t < m_stopTime \/ m_startTime >= m_stopTime \/ m_restartTime >= m_stopTime

\* Mutant: a medium is only replaced when its url changes.
NeverOver == FALSE

\* The stop time of the medium has come.
Over == t >= m_stopTime /\ m_stopTime > m_startTime

\* MediaControl.compose. The only medium it can find is the one of the node: the
\* control have been removed. It keeps the one it has found. What it is asked
\* before it has one is done when it has; a seek comes before a pause.
Control(found, started) ==
  LET seeks == control.seek /\ found # 0
      pauses == control.pause # "same" /\ found # 0
  IN /\ control' = [ control EXCEPT !.urlChanged = FALSE, !.loadable = found,
                                    !.seek = @ /\ ~seeks ]
     /\ work' = IF seeks \/ pauses THEN found ELSE 0
     /\ at' = [started EXCEPT ![Loop] = IF seeks THEN "seek" ELSE IF pauses THEN "sought"
                                        ELSE "decide"]

\* The bound: another medium would be opened.
Full ==
  /\ m_urlChanged \/ m_media = 0
  /\ Due
  /\ \A m \in Media : media[m].state # "NONE"

\* MediaNode.compose, with closeMedia and openMedia: closing a medium is only a
\* message, and a new object is opened with a thread of its own.
Compose ==
  LET kept == IF m_urlChanged THEN 0 ELSE m_media
      opens == kept = 0 /\ Due
      closes == m_media # 0 /\ (m_urlChanged \/ Over)
      new == CHOOSE m \in Media : media[m].state = "NONE"
      after == IF closes THEN close(m_media, media) ELSE media
  IN /\ at[Loop] = "compose"
     /\ ~Full
     /\ m_urlChanged' = FALSE
     /\ closed' = IF closes THEN closed \cup {m_media} ELSE closed
     /\ \/ /\ opens
           /\ m_media' = new
           /\ m_startTime' = m_restartTime
           /\ media' = opened(new, after)
        \/ /\ ~opens
           /\ m_media' = IF closes THEN 0 ELSE m_media
           /\ media' = after
           /\ UNCHANGED m_startTime
     /\ Control(IF control.urlChanged THEN m_media' ELSE control.loadable,
                IF opens THEN [at EXCEPT ![new] = "test"] ELSE at)
     /\ UNCHANGED <<player, why, msg, canvas, incidents, windows, clocks, m_restartTime,
                    m_stopTime, inputs>>

ControlPause ==
  /\ at[Loop] = "sought"
  /\ IF control.pause = "same"
     THEN /\ Goto(Loop, "decide")
          /\ UNCHANGED <<control, objects, why, msg, work, canvas, history>>
     ELSE /\ control' = [control EXCEPT !.pause = "same"]
          /\ setPause(control.pause = "pause")
  /\ UNCHANGED <<clocks, node, inputs>>

\* The scene is left, by what the user asked for or by an exception:
\* MediaNode.stop.
Leave ==
  /\ at[Loop] = "broken" \/ (at[Loop] = "decide" /\ requests > 0)
  /\ media' = IF m_media = 0 THEN media ELSE close(m_media, media)
  /\ closed' = closed \cup ({m_media} \ {0})
  /\ m_media' = 0 /\ work' = 0
  /\ Goto(Loop, "left")
  /\ UNCHANGED <<player, why, msg, canvas, incidents, windows, clocks, m_startTime,
                 m_restartTime, m_stopTime, m_urlChanged, control, inputs>>

-----------------------------------------------------------------------------
(* Sleep.                                                                  *)

\* Mutant: a stop time is waited for, even one that is over.
getWakeupTimeOver(clock) ==
  CASE m_media # 0 -> m_stopTime
    [] m_media = 0 /\ clock < m_startTime -> m_startTime
    [] m_media = 0 /\ clock >= m_startTime -> CANCELED

\* MediaNode.getWakeupTime.
getWakeupTime(clock) ==
  CASE m_media # 0 -> IF clock < m_stopTime /\ m_stopTime > 0 THEN m_stopTime ELSE FOREVER
    [] m_media = 0 /\ clock < m_startTime -> m_startTime
    [] m_media = 0 /\ clock >= m_startTime ->
         IF clock < m_stopTime \/ m_startTime >= m_stopTime \/ m_restartTime >= m_stopTime
         THEN CANCELED ELSE FOREVER

\* The loop reads the clock and decides. A stop time between the two readings of
\* the clock is over for the decision and was not yet for the frame.
Decide ==
  LET until == getWakeupTime(now)
  IN /\ at[Loop] = "decide"
     /\ t' = now /\ work' = 0
     /\ IF composeAgain \/ request \/ until = CANCELED
        THEN wake' = CANCELED /\ Goto(Loop, "frame")
        ELSE wake' = until /\ Goto(Loop, "wait")
     /\ windows' = IF m_media # 0 /\ t < m_stopTime /\ m_stopTime <= now
                   THEN Met(m_media, {"passed"}) ELSE windows
     /\ UNCHANGED <<objects, why, msg, canvas, incidents, closed, now, node, control,
                    inputs>>

Wait ==
  /\ at[Loop] = "wait"
  /\ asleep' = TRUE
  /\ Goto(Loop, "asleep")
  /\ UNCHANGED <<objects, why, msg, work, composeAgain, history, clocks, node, control, inputs>>

\* Woken up, or it is time.
Resume ==
  /\ at[Loop] = "asleep"
  /\ ~asleep \/ (wake # FOREVER /\ now >= wake)
  /\ asleep' = FALSE
  /\ t' = now
  /\ Goto(Loop, "frame")
  /\ UNCHANGED <<objects, why, msg, work, composeAgain, history, now, wake, node,
                 control, inputs>>

-----------------------------------------------------------------------------

Step ==
  \/ Frame \/ Leave \/ Compose \/ ControlPause \/ Decide \/ Wait \/ Resume
  \/ Called /\ UNCHANGED <<clocks, node, control, inputs>>

Threaded(m) == Thread(m) /\ UNCHANGED <<clocks, node, control, inputs>>
Delivered(m) == Deliver(m) /\ UNCHANGED <<clocks, node, control, inputs>>
Unasked(m) == Incident(m) /\ UNCHANGED <<clocks, node, control, inputs>>

Next ==
  \/ Step \/ Tick \/ Request
  \/ \E m \in Media : Threaded(m) \/ Delivered(m) \/ Unasked(m)

Spec == Init /\ [][Next]_vars

\* Threads are scheduled, events are told and time passes; nobody has to ask for
\* anything, and players may play on without an incident.
FairSpec ==
  /\ Spec
  /\ WF_vars(Step) /\ WF_vars(Tick)
  /\ \A m \in Media : WF_vars(Threaded(m)) /\ WF_vars(Delivered(m))

-----------------------------------------------------------------------------
(* Properties                                                              *)

ControlFields == [ loadable : Media \cup {0}, urlChanged : BOOLEAN, seek : BOOLEAN,
                   pause : {"same", "pause", "resume"} ]

TypeOK ==
  /\ MediaTypeOK
  /\ now \in 0 .. MaxTime /\ t \in 0 .. now
  /\ wake \in {CANCELED} \cup 1 .. FOREVER
  /\ m_media \in Media \cup {0} /\ m_urlChanged \in BOOLEAN
  /\ {m_startTime, m_restartTime} \subseteq 0 .. MaxTime /\ m_stopTime \in -1 .. MaxTime
  /\ control \in ControlFields
  /\ request \in BOOLEAN /\ requests \in 0 .. MaxRequests

\* The main loop has not ended, is not stopped by the bound, and is not in a
\* seek: whether that ends is the matter of SeekEnds.
Composing ==
  /\ at[Loop] \notin {"left", "broken", "untilStopped", "untilPlaying"}
  /\ ~(at[Loop] = "compose" /\ Full)

\* A medium with a stop time after its start is closed once the time is over: the
\* main loop does not sleep through it (getWakeupTime), unless the time came
\* between the frame and the decision to sleep (the code's window at
\* MediaNode.java:149).
StopsInTime ==
  (m_media # 0 /\ now >= m_stopTime /\ m_stopTime > m_startTime) ~>
    \/ m_media = 0 \/ m_stopTime > now \/ m_startTime >= m_stopTime
    \/ "passed" \in windows[m_media]
    \/ ~Composing

===============================================================================
