------------------------------ MODULE MediaObject ------------------------------
(***************************************************************************)
(* MediaObject: one medium, played by a player of the platform. A thread   *)
(* of its own takes the player through its states: it picks a message from *)
(* a slot, posts the next one, does what the message says and checks the   *)
(* state that was reached. The main loop opens and closes the medium and   *)
(* has it paused, sought and restarted; the platform tells its events from *)
(* threads of its own. They share the slot, m_state and m_player; only the *)
(* slot and m_state are accessed under a lock, each access on its own.     *)
(*                                                                         *)
(* Media are numbered in the order they are made. A medium has one thread  *)
(* and at most one player: it is not opened again for a rotation, which is *)
(* left out as are the size of a video, the controls of a player, volume,  *)
(* recording and snapshots.                                                *)
(***************************************************************************)
EXTENDS Integers, Sequences

CONSTANTS
  MaxOpens,      \* bound on the media opened
  MaxIncidents,  \* bound on what a player does unasked
  IsVideo        \* m_type is VIDEO

ASSUME MediaAssumption ==
  /\ MaxOpens \in Nat \ {0} /\ MaxIncidents \in Nat /\ IsVideo \in BOOLEAN

Media == 1 .. MaxOpens

\* Who acts: the main loop, and for every medium its thread, which has the number
\* of the medium, and the thread that tells the events of its player.
Loop == 0
Deliverer(m) == MaxOpens + m
Actors == 0 .. 2 * MaxOpens

VARIABLES
  media,        \* the fields of a MediaObject
  player,       \* the players of the platform
  at, why,      \* of an actor: its place, and why it closes the player
  msg,          \* of a thread: the message it handles
  work,         \* the medium the main loop handles
  composeAgain, asleep, \* of the main loop: asked to compose, and waiting
  incidents,    \* counter for the bound
  closed,       \* history: the media that were closed
  windows       \* history: of a medium, what a behaviour has met

objects  == <<media, player>>
actors   == <<at, why, msg, work>>
canvas   == <<composeAgain, asleep>>
history  == <<incidents, closed, windows>>
mediaVars == <<media, player, at, why, msg, work, composeAgain, asleep, incidents,
               closed, windows>>

\*   overwritten  a close was replaced in the slot by the next message
\*   ended        the player came to its end or failed
\*   paused       paused, or resumed, at least once
\*   unchecked    sought while the thread has not yet checked its start
\*   passed       the stop time came between a frame and the decision to sleep
WindowKinds ==
  { "overwritten", "ended", "paused", "unchecked", "passed" }

\* m_player is null or the player of the medium.
NewMedium == [ state |-> "NONE", message |-> "IDLE", running |-> FALSE, player |-> FALSE,
               bPaused |-> FALSE, bSeekMode |-> FALSE ]
NewPlayer == [ state |-> "NONE", listened |-> FALSE, events |-> <<>> ]

MediaInit ==
  /\ media = [m \in Media |-> NewMedium]
  /\ player = [m \in Media |-> NewPlayer]
  /\ at = [a \in Actors |-> IF a = Loop THEN "frame" ELSE "idle"]
  /\ why = [a \in Actors |-> "none"]
  /\ msg = [m \in Media |-> "IDLE"]
  /\ work = 0
  /\ composeAgain = TRUE /\ asleep = FALSE
  /\ incidents = 0 /\ closed = {} /\ windows = [m \in Media |-> {}]

MediumOf(a) ==
  IF a = Loop THEN work ELSE IF a \in Media THEN a ELSE a - MaxOpens

Goto(a, place) == at' = [at EXCEPT ![a] = place]

\* The same medium in a state, and what a behaviour has met.
InState(m, state) == [media EXCEPT ![m].state = state]
Met(m, kinds) == [windows EXCEPT ![m] = @ \cup kinds]

-----------------------------------------------------------------------------
(* The player of the platform.                                             *)

Rank == [ NONE |-> 0, UNREALIZED |-> 1, REALIZED |-> 2, PREFETCHED |-> 3, STARTED |-> 4,
          CLOSED |-> 0 ]

Usable(m) == media[m].player /\ Rank[player[m].state] > 0

\* realize, prefetch and start take a player that is behind to a state, the
\* states in between included, and leave one that is there or further.
Reach(m, state) ==
  LET forward == Rank[player[m].state] < Rank[state]
  IN IF ~forward THEN player
     ELSE [ player EXCEPT ![m].state = state,
                          ![m].events = IF state = "STARTED" THEN Append(@, "STARTED") ELSE @ ]

\* A player that is stopped, or was not started at all.
Stopped(m, state) ==
  IF player[m].state # "STARTED" THEN player
  ELSE [player EXCEPT ![m].state = state, ![m].events = Append(@, "STOPPED")]

\* What a player does unasked: it comes to its end, waits for data, or fails.
Incident(m) ==
  /\ incidents < MaxIncidents /\ incidents' = incidents + 1
  /\ player[m].state = "STARTED"
  /\ \/ /\ player' = [player EXCEPT ![m].state = "PREFETCHED",
                                    ![m].events = Append(@, "END_OF_MEDIA")]
        /\ windows' = Met(m, {"ended"})
     \/ /\ player' = [player EXCEPT ![m].events =
                        @ \o << "BUFFERING_STARTED", "BUFFERING_STOPPED" >>]
        /\ UNCHANGED windows
     \/ /\ \E state \in {"STARTED", "CLOSED"} :
             player' = [player EXCEPT ![m].state = state, ![m].events = Append(@, "ERROR")]
        /\ windows' = Met(m, {"ended"})
  /\ UNCHANGED <<media, actors, canvas, closed>>

-----------------------------------------------------------------------------
(* closePlayer, by any actor.                                              *)

\* MiniPlayer.wakeUpCanvas. It is missed between the decision of the loop to sleep
\* and its wait (see CanvasLoop).
WakeUp == composeAgain' = TRUE /\ asleep' = FALSE

\* Mutant: an exception ends the thread, and the player is left to itself.
ClosePlayerUncaught(a, m, reason) ==
  /\ media' = [media EXCEPT ![m].running = FALSE]
  /\ at' = [at EXCEPT ![a] = IF reason = "catch" THEN "ended" ELSE "stop"]
  /\ why' = [why EXCEPT ![a] = IF reason = "catch" THEN "none" ELSE reason]

\* The first step, with what the actor did before: m_running = false ends the
\* thread, if it comes to its test before the medium is opened again.
ClosePlayer(a, m, reason) ==
  /\ media' = [media EXCEPT ![m].running = FALSE]
  /\ at' = [at EXCEPT ![a] = "stop"]
  /\ why' = [why EXCEPT ![a] = reason]

\* After the sleep: stop and deallocate the player. One that is closed already
\* is only forgotten.
Stop(a) ==
  LET m == MediumOf(a)
  IN /\ at[a] = "stop"
     /\ \/ /\ ~media[m].player
           /\ Goto(a, "closed")
           /\ UNCHANGED <<media, player, canvas>>
        \/ /\ media[m].player /\ player[m].state = "CLOSED"
           /\ media' = [media EXCEPT ![m].player = FALSE, ![m].state = "STOPPED"]
           /\ IF IsVideo THEN WakeUp ELSE UNCHANGED canvas
           /\ Goto(a, "closed")
           /\ UNCHANGED player
        \/ /\ media[m].player /\ player[m].state # "CLOSED"
           /\ media' = IF player[m].state = "STARTED" THEN InState(m, "STOPPED") ELSE media
           /\ player' = Stopped(m, "REALIZED")
           /\ Goto(a, "release")
           /\ UNCHANGED canvas
     /\ UNCHANGED <<why, msg, work, history>>

\* Another actor may have closed or forgotten the player meanwhile: the exception
\* is caught.
Release(a) ==
  LET m == MediumOf(a)
  IN /\ at[a] = "release"
     /\ \/ /\ Usable(m)
           /\ player' = [player EXCEPT ![m] = [NewPlayer EXCEPT !.state = "CLOSED"]]
           /\ media' = [media EXCEPT ![m].player = FALSE, ![m].state = "STOPPED"]
        \/ ~Usable(m) /\ media' = InState(m, "ERROR") /\ UNCHANGED player
     /\ IF IsVideo THEN WakeUp ELSE UNCHANGED canvas
     /\ Goto(a, "closed")
     /\ UNCHANGED <<why, msg, work, history>>

-----------------------------------------------------------------------------
(* The thread: run.                                                        *)

\* The message that is posted while one is handled.
NextMessage == [ CREATE |-> "REALIZE", REALIZE |-> "PREFETCH", PREFETCH |-> "START",
                 START |-> "IDLE", CLOSE |-> "IDLE" ]

\* The state a message takes the player to.
Aim == [REALIZE |-> "REALIZED", PREFETCH |-> "PREFETCHED", START |-> "STARTED"]

\* while (m_running). The rounds that find no message are left out.
Test(m) ==
  /\ at[m] = "test"
  /\ \/ ~media[m].running /\ Goto(m, "ended")
     \/ media[m].running /\ media[m].message # "IDLE" /\ Goto(m, "pick")
  /\ UNCHANGED <<objects, why, msg, work, canvas, history>>

pickMessage(m) ==
  /\ at[m] = "pick"
  /\ msg' = [msg EXCEPT ![m] = media[m].message]
  /\ media' = [media EXCEPT ![m].message = "IDLE"]
  /\ Goto(m, "post")
  /\ UNCHANGED <<player, why, work, canvas, history>>

\* postMessage of the next message, over whatever is in the slot.
postMessage(m) ==
  /\ at[m] = "post"
  /\ windows' = IF media[m].message = "CLOSE" THEN Met(m, {"overwritten"}) ELSE windows
  /\ \/ /\ msg[m] = "CLOSE"
        /\ media' = [media EXCEPT ![m].message = "IDLE", ![m].running = FALSE]
        /\ at' = [at EXCEPT ![m] = "stop"] /\ why' = [why EXCEPT ![m] = "close"]
     \/ /\ msg[m] # "CLOSE"
        /\ media' = [media EXCEPT ![m].message = NextMessage[msg[m]]]
        /\ Goto(m, "act")
        /\ UNCHANGED why
  /\ UNCHANGED <<player, msg, work, canvas, incidents, closed>>

\* The message is handled.
Handled(m, place) == Goto(m, place) /\ msg' = [msg EXCEPT ![m] = "IDLE"]

\* createPlayer: a player with this object as its listener, an error, or nothing
\* at all when an external program was tried.
createPlayer(m) ==
  /\ at[m] = "act" /\ msg[m] = "CREATE"
  /\ \/ /\ player' = [player EXCEPT ![m].state = "UNREALIZED", ![m].listened = TRUE]
        /\ media' = [media EXCEPT ![m].player = TRUE]
        /\ Handled(m, "test")
     \/ /\ \E state \in {"ERROR", media[m].state} :
             media' = [media EXCEPT ![m].state = state, ![m].running = FALSE]
        /\ Handled(m, "ended")
        /\ UNCHANGED player
  /\ UNCHANGED <<why, work, canvas, history>>

\* realize, prefetch or start, which may throw.
Advance(m) ==
  /\ at[m] = "act" /\ msg[m] \in DOMAIN Aim
  /\ \/ /\ Usable(m)
        /\ player' = Reach(m, Aim[msg[m]])
        /\ Goto(m, "check")
        /\ UNCHANGED <<media, why>>
     \/ ClosePlayer(m, m, "catch") /\ UNCHANGED player
  /\ UNCHANGED <<msg, work, canvas, history>>

\* checkState: another actor may have changed the state, or closed the player.
checkState(m) ==
  /\ at[m] = "check"
  /\ \/ /\ media[m].player /\ player[m].state = Aim[msg[m]]
        /\ Handled(m, "test") /\ UNCHANGED <<media, why>>
     \/ /\ media[m].player /\ player[m].state # Aim[msg[m]]
        /\ ClosePlayer(m, m, "check") /\ UNCHANGED msg
     \/ ~media[m].player /\ ClosePlayer(m, m, "catch") /\ UNCHANGED msg
  /\ UNCHANGED <<player, work, canvas, history>>

\* What follows closePlayer in the thread: MSG_CLOSE, checkState, or the end by
\* an exception. The state is set after the wake-up.
CloseDone(m) ==
  /\ at[m] = "closed"
  /\ media' = IF why[m] = "close" THEN [media EXCEPT ![m].running = FALSE]
              ELSE InState(m, "ERROR")
  /\ Handled(m, IF why[m] = "catch" THEN "ended" ELSE "test")
  /\ why' = [why EXCEPT ![m] = "none"]
  /\ UNCHANGED <<player, work, canvas, history>>

Thread(m) ==
  \/ Test(m) \/ pickMessage(m) \/ postMessage(m) \/ createPlayer(m) \/ Advance(m)
  \/ checkState(m) \/ Stop(m) \/ Release(m) \/ CloseDone(m)

-----------------------------------------------------------------------------
(* The events of a player: playerUpdate.                                   *)

\* Mutant: a player that stops is paused, whoever stopped it.
UpdatePaused(m, event) ==
  CASE event \in {"STARTED", "BUFFERING_STOPPED"} -> "PLAYING"
    [] event = "END_OF_MEDIA" -> "EOM"
    [] event = "BUFFERING_STARTED" -> "BUFFERING"
    [] event = "STOPPED" -> "PAUSED"

\* The state an event puts the medium in.
Update(m, event) ==
  CASE event \in {"STARTED", "BUFFERING_STOPPED"} -> "PLAYING"
    [] event = "END_OF_MEDIA" -> "EOM"
    [] event = "BUFFERING_STARTED" -> "BUFFERING"
    [] event = "STOPPED" -> IF media[m].bPaused THEN "PAUSED" ELSE "STOPPED"

playerUpdate(m) ==
  LET a == Deliverer(m)
      event == Head(player[m].events)
  IN /\ at[a] = "idle" /\ player[m].listened /\ player[m].events # <<>>
     /\ player' = [player EXCEPT ![m].events = Tail(@)]
     /\ \/ /\ event # "ERROR"
           /\ media' = InState(m, Update(m, event))
           /\ WakeUp
           /\ UNCHANGED <<at, why>>
        \/ /\ event = "ERROR"
           /\ ClosePlayer(a, m, "event")
           /\ UNCHANGED canvas
     /\ UNCHANGED <<msg, work, history>>

\* After closePlayer, the error and the wake-up.
ErrorUpdated(m) ==
  LET a == Deliverer(m)
  IN /\ at[a] = "closed"
     /\ media' = InState(m, "ERROR")
     /\ WakeUp
     /\ at' = [at EXCEPT ![a] = "idle"] /\ why' = [why EXCEPT ![a] = "none"]
     /\ UNCHANGED <<player, msg, work, history>>

Deliver(m) == playerUpdate(m) \/ Stop(Deliverer(m)) \/ Release(Deliverer(m)) \/ ErrorUpdated(m)

-----------------------------------------------------------------------------
(* What the main loop does with a medium.                                  *)

\* Nobody works on a medium: its thread has ended or was not started, and nobody
\* is closing it.
Quiet(m) ==
  /\ at[m] \in {"idle", "ended"}
  /\ \A a \in Actors : at[a] \in {"stop", "release", "closed"} => MediumOf(a) # m

\* The medium of a node: open of a new object, which has no player to close.
opened(m, mm) == [mm EXCEPT ![m].state = "OPENING", ![m].running = TRUE, ![m].message = "CREATE"]

\* Mutant: a message that waits in the slot is not replaced.
closeIfIdle(m, mm) == [mm EXCEPT ![m].message = IF @ = "IDLE" THEN "CLOSE" ELSE @]

\* close: only a message.
close(m, mm) == [mm EXCEPT ![m].message = "CLOSE"]

\* setPause: stop or start the player, then say so; exceptions are caught.
setPause(pause) ==
  /\ windows' = Met(work, {"paused"})
  /\ \/ /\ Usable(work)
        /\ player' = IF pause THEN Stopped(work, "PREFETCHED") ELSE Reach(work, "STARTED")
        /\ Goto(Loop, IF pause THEN "pausing" ELSE "resuming")
     \/ Goto(Loop, "decide") /\ UNCHANGED player
  /\ UNCHANGED <<media, why, msg, work, canvas, incidents, closed>>

PauseDone ==
  /\ at[Loop] \in {"pausing", "resuming"}
  /\ media' = [media EXCEPT ![work].bPaused = (at[Loop] = "pausing")]
  /\ Goto(Loop, "decide")
  /\ UNCHANGED <<player, why, msg, work, canvas, history>>

\* MediaControl has a medium that is at its end started again: start. An exception
\* closes the player.
Restart ==
  /\ at[Loop] = "seek" /\ media[work].state = "EOM"
  /\ \/ /\ Usable(work)
        /\ player' = Reach(work, "STARTED")
        /\ Goto(Loop, "restarted") /\ UNCHANGED <<media, why>>
     \/ ~media[work].player /\ Goto(Loop, "sought") /\ UNCHANGED <<media, player, why>>
     \/ media[work].player /\ ClosePlayer(Loop, work, "start") /\ UNCHANGED player
  /\ UNCHANGED <<msg, work, canvas, history>>

Restarted ==
  /\ \/ at[Loop] = "restarted" /\ media' = InState(work, "PLAYING")
     \/ at[Loop] = "closed" /\ why[Loop] = "start" /\ media' = InState(work, "ERROR")
  /\ at' = [at EXCEPT ![Loop] = "sought"] /\ why' = [why EXCEPT ![Loop] = "none"]
  /\ UNCHANGED <<player, msg, work, canvas, history>>

-----------------------------------------------------------------------------
(* setMediaTimePos. The loop waits, with short sleeps, for the state that  *)
(* the events of the player will bring.                                    *)

Unchecked(m) == at[m] \notin {"test", "ended"}

Seek ==
  LET m == media[work]
      seeks == m.player /\ ~m.bSeekMode /\ (m.state = "PLAYING" \/ m.bPaused)
  IN /\ at[Loop] = "seek"
     /\ m.state # "EOM"
     /\ media' = IF seeks THEN [media EXCEPT ![work].bSeekMode = TRUE] ELSE media
     /\ windows' = IF seeks /\ Unchecked(work) THEN Met(work, {"unchecked"}) ELSE windows
     /\ Goto(Loop, IF ~seeks THEN "sought" ELSE IF m.state = "PLAYING" THEN "seekStop"
                   ELSE "seekStart")
     /\ UNCHANGED <<player, why, msg, work, canvas, incidents, closed>>

\* m_player.stop () of a player that is closed, or null, throws what only the main
\* loop catches: it leaves the scene.
StopFor(from, mm, to) ==
  /\ at[Loop] = from
  /\ \/ /\ Usable(work)
        /\ player' = Stopped(work, "PREFETCHED")
        /\ media' = mm
        /\ Goto(Loop, to)
     \/ ~Usable(work) /\ Goto(Loop, "broken") /\ UNCHANGED objects
  /\ UNCHANGED <<why, msg, work, canvas, history>>

SeekStop == StopFor("seekStop", media, "untilStopped")

UntilStopped ==
  /\ at[Loop] = "untilStopped" /\ media[work].state = "STOPPED"
  /\ Goto(Loop, "position")
  /\ UNCHANGED <<objects, why, msg, work, canvas, history>>

\* setMediaTime and start: a MediaException is caught and leaves m_bSeekMode.
StartFor(from, mm, to) ==
  /\ at[Loop] = from
  /\ \/ /\ Usable(work)
        /\ \/ player' = Reach(work, "STARTED") /\ media' = mm /\ Goto(Loop, to)
           \/ Goto(Loop, "sought") /\ UNCHANGED objects
     \/ ~Usable(work) /\ Goto(Loop, "broken") /\ UNCHANGED objects
  /\ UNCHANGED <<why, msg, work, canvas, history>>

SoughtMode == [media EXCEPT ![work].bSeekMode = FALSE]

Position == StartFor("position", SoughtMode, "sought")

\* The seek of a paused medium: it is started, and stopped once it plays.
SeekStart == StartFor("seekStart", media, "untilPlaying")

UntilPlaying ==
  /\ at[Loop] = "untilPlaying" /\ media[work].state = "PLAYING"
  /\ Goto(Loop, "stopAgain")
  /\ UNCHANGED <<objects, why, msg, work, canvas, history>>

StopAgain == StopFor("stopAgain", SoughtMode, "sought")

setMediaTimePos ==
  Seek \/ SeekStop \/ UntilStopped \/ Position \/ SeekStart \/ UntilPlaying \/ StopAgain

\* The steps of the main loop in a call of a medium.
Called ==
  \/ Stop(Loop) \/ Release(Loop) \/ PauseDone \/ Restart \/ Restarted
  \/ setMediaTimePos

-----------------------------------------------------------------------------
(* Properties                                                              *)

Places ==
  { "frame", "compose", "decide", "wait", "asleep",
    "left", "broken", "idle", "test", "pick", "post", "act", "check", "stop",
    "release", "closed", "ended", "pausing", "resuming", "restarted",
    "seek", "seekStop", "untilStopped", "position", "seekStart", "untilPlaying",
    "stopAgain", "sought" }

States ==
  {"NONE", "OPENING", "PLAYING", "BUFFERING", "PAUSED", "STOPPED", "EOM", "ERROR"}
Messages == {"IDLE", "CREATE", "REALIZE", "PREFETCH", "START", "CLOSE"}
Events == {"STARTED", "STOPPED", "END_OF_MEDIA", "BUFFERING_STARTED", "BUFFERING_STOPPED", "ERROR"}
Reasons == {"none", "close", "check", "catch", "event", "start"}

MediumFields == [ state : States, message : Messages, running : BOOLEAN,
                  player : BOOLEAN, bPaused : BOOLEAN, bSeekMode : BOOLEAN ]
PlayerFields == [state : DOMAIN Rank, listened : BOOLEAN, events : Seq(Events)]

MediaTypeOK ==
  /\ media \in [Media -> MediumFields] /\ player \in [Media -> PlayerFields]
  /\ at \in [Actors -> Places] /\ why \in [Actors -> Reasons]
  /\ msg \in [Media -> Messages]
  /\ work \in Media \cup {0}
  /\ composeAgain \in BOOLEAN /\ asleep \in BOOLEAN
  /\ windows \in [Media -> SUBSET WindowKinds]

PlayerGone(m) == player[m].state \in {"NONE", "CLOSED"}

\* A medium whose thread has ended, by a close or by any error, leaves no player
\* behind that still plays or holds the resources of the platform, whoever
\* closed it and however the closers met (run, checkState, closePlayer).
NoPlayerLeft ==
  \A m \in Media : Quiet(m) => PlayerGone(m)

\* A medium that is closed comes to its end: its threads end and its player is
\* closed, whatever the thread was doing, unless the close was overwritten in the
\* slot (the code's window at MediaObject.java:842).
ClosedMediaEnds ==
  \A m \in Media :
    m \in closed ~> \/ Quiet(m) /\ PlayerGone(m)
                    \/ "overwritten" \in windows[m]

\* The main loop gets out of the seek of a medium (its waits have no timeout),
\* unless the medium ends or fails meanwhile, has been paused or is still being
\* checked by its thread after it started.
SeekEnds ==
  at[Loop] \in {"untilStopped", "untilPlaying"} ~>
    \/ at[Loop] \notin {"untilStopped", "untilPlaying"}
    \/ windows[work] \cap {"ended", "paused", "unchecked"} # {}
===============================================================================
