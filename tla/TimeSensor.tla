------------------------------ MODULE TimeSensor -------------------------------
(***************************************************************************)
(* TimeSensor: a timer that a scene registers, activates in every frame    *)
(* and asks how long the canvas may sleep. A sensor is a record; its       *)
(* methods are operators that give the record after the call. What the     *)
(* scene sees of it is isActive, whose changes are routed to other nodes.  *)
(* The fields and their copies in the object are one, but for the start    *)
(* time.                                                                   *)
(***************************************************************************)
EXTENDS Sleep

\* Just decoded, with the fields of the scene.
TimeSensor(startTime, stopTime, loop, cycleInterval) ==
  [ startTime |-> startTime, stopTime |-> stopTime, loop |-> loop,
    cycleInterval |-> cycleInterval,
    m_startTime |-> 0, m_restartTime |-> 0, m_baseTime |-> 0,
    m_started |-> FALSE, m_lastFrac |-> 0, isActive |-> FALSE ]

\* fieldChanged: while the sensor runs, a start time is only remembered.
fieldChanged(ts, field, v) ==
  CASE field = "startTime" /\ ~ts.m_started -> [ts EXCEPT !.startTime = v, !.m_startTime = v]
    [] field = "startTime" /\ ts.m_started  -> [ts EXCEPT !.startTime = v, !.m_restartTime = v]
    [] field # "startTime"                  -> [ts EXCEPT ![field] = v]

start(ts) == [fieldChanged(ts, "startTime", ts.startTime) EXCEPT !.m_restartTime = -1]

\* There is a stop time for the current start, and it is over.
IsOver(ts, t) == t >= ts.stopTime /\ ts.stopTime > ts.m_startTime

isActivable(ts, t) ==
  /\ t >= ts.m_startTime
  /\ ~IsOver(ts, t)
  /\ ts.loop \/ t - ts.m_startTime < ts.cycleInterval

isDesactivable(ts, t) ==
  \/ IsOver(ts, t)
  \/ ~ts.loop /\ t - ts.m_startTime >= ts.cycleInterval

\* The time within the cycle, for the fraction of it.
getFraction(ts, t) == (t - ts.m_baseTime) % ts.cycleInterval

\* A start time set while the sensor ran, and equal to its stop time, restarts it.
Restarted(ts) == IF ts.m_restartTime = ts.stopTime
                 THEN [ts EXCEPT !.m_startTime = ts.stopTime] ELSE ts

\* Mutant: the end of the timer is not told in the next frame.
activateUntold(ts, t) ==
  LET r == Restarted(ts) IN
  CASE ts.m_started /\ isDesactivable(r, t)  -> [r EXCEPT !.m_started = FALSE, !.m_lastFrac = 0]
    [] ts.m_started /\ ~isDesactivable(r, t) -> [r EXCEPT !.m_lastFrac = getFraction(r, t)]
    [] ~ts.m_started /\ ts.m_lastFrac < 0    -> [ts EXCEPT !.isActive = FALSE, !.m_lastFrac = 0]
    [] ~ts.m_started /\ ts.m_lastFrac >= 0 ->
         IF isActivable(ts, t)
         THEN [ts EXCEPT !.m_started = TRUE, !.m_baseTime = t, !.m_lastFrac = 0, !.isActive = TRUE]
         ELSE ts

\* activate: the end is only told in the next frame (m_lastFrac < 0).
activate(ts, t) ==
  LET r == Restarted(ts) IN
  CASE ts.m_started /\ isDesactivable(r, t)  -> [r EXCEPT !.m_started = FALSE, !.m_lastFrac = -1]
    [] ts.m_started /\ ~isDesactivable(r, t) -> [r EXCEPT !.m_lastFrac = getFraction(r, t)]
    [] ~ts.m_started /\ ts.m_lastFrac < 0    -> [ts EXCEPT !.isActive = FALSE, !.m_lastFrac = 0]
    [] ~ts.m_started /\ ts.m_lastFrac >= 0 ->
         IF isActivable(ts, t)
         THEN [ts EXCEPT !.m_started = TRUE, !.m_baseTime = t, !.m_lastFrac = 0, !.isActive = TRUE]
         ELSE ts

\* The division of getFraction by an empty cycle throws.
Throws(ts, t) ==
  /\ ts.cycleInterval = 0
  /\ IF ts.m_started THEN ~isDesactivable(Restarted(ts), t)
                     ELSE ts.m_lastFrac >= 0 /\ isActivable(ts, t)

\* activate changes fields, and so asks for another frame.
Notifies(ts, t) == ts.m_started \/ ts.m_lastFrac < 0 \/ isActivable(ts, t)

\* getWakeupTime; listened: the fraction has observers. A running sensor has asked
\* for another frame, and is not asked how long to sleep.
TimeSensorWakeup(ts, t, listened) ==
  CASE ts.m_started /\ listened -> SLEEP_CANCELED
    [] ts.m_started /\ ~listened /\ ts.stopTime > ts.m_startTime ->
         IF t >= ts.stopTime THEN SLEEP_CANCELED
         ELSE IF ts.loop \/ ts.stopTime <= ts.m_startTime + ts.cycleInterval THEN ts.stopTime
         ELSE ts.m_startTime + ts.cycleInterval
    [] ts.m_started /\ ~listened /\ ts.stopTime <= ts.m_startTime ->
         IF ts.loop THEN t + ts.cycleInterval - ((t - ts.m_startTime) % ts.cycleInterval)
         ELSE IF t - ts.m_startTime >= ts.cycleInterval THEN SLEEP_CANCELED
         ELSE ts.m_startTime + ts.cycleInterval
    [] ~ts.m_started ->
         IF isActivable(ts, t) THEN SLEEP_CANCELED
         ELSE IF ts.m_startTime > t /\ isActivable(ts, ts.m_startTime) THEN ts.m_startTime
         ELSE SLEEP_FOREVER

===============================================================================
