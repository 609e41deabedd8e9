------------------------------ MODULE MediaProofs ------------------------------
(***************************************************************************)
(* No player is left behind, for any number of media. A player that is not *)
(* closed is m_player of its medium (Live), and when the thread may end,   *)
(* because m_running is false, somebody is still on the way to close it    *)
(* (closePlayer in its first two steps). For that the thread must not have *)
(* m_running cleared before it makes the player: a medium whose CREATE is  *)
(* not handled yet has no player, and only those who have a player, or the *)
(* thread itself, clear m_running.                                         *)
(***************************************************************************)
EXTENDS MediaNode, SequenceTheorems, TLAPS

Calling ==
  { "stop", "release", "closed", "pausing", "resuming", "restarted", "seek", "seekStop",
    "untilStopped", "position", "seekStart", "untilPlaying", "stopAgain", "sought" }
LoopPlaces == {"frame", "compose", "decide", "wait", "asleep", "left", "broken"} \cup Calling
ThreadPlaces ==
  {"idle", "test", "pick", "post", "act", "check", "stop", "release", "closed", "ended"}
EventPlaces == {"idle", "stop", "release", "closed"}

\* Actors keep to their places, and a call of the loop is of a medium.
PlacesOK ==
  /\ at[Loop] \in LoopPlaces
  /\ at[Loop] \in Calling => work # 0
  /\ \A m \in Media : at[m] \in ThreadPlaces /\ at[Deliverer(m)] \in EventPlaces

\* What a node refers to has been opened.
Opened(x) == x # 0 => at[x] # "idle"
NodesOK == Opened(work) /\ Opened(m_media) /\ Opened(control.loadable)

\* A medium that was not opened, and only such a one, is as it was made.
NewOK(m) ==
  /\ at[m] = "idle" =>
       /\ media[m].message = "IDLE" /\ ~media[m].player /\ msg[m] = "IDLE"
       /\ player[m].state = "NONE" /\ ~player[m].listened /\ at[Deliverer(m)] = "idle"
  /\ media[m].state = "NONE" => at[m] = "idle"

\* The message of a thread between its steps.
MessageOK(m) ==
  /\ media[m].message = "CREATE" => at[m] \in {"test", "pick"}
  /\ msg[m] = "CREATE" => at[m] \in {"post", "act"}
  /\ at[m] = "pick" => media[m].message # "IDLE"
  /\ at[m] = "post" => msg[m] # "IDLE"

\* A medium whose player is still to be made.
Before(m) == media[m].message = "CREATE" \/ msg[m] = "CREATE"
BeforeOK(m) ==
  Before(m) => /\ media[m].running /\ ~media[m].player /\ player[m].state = "NONE"
               /\ ~player[m].listened

\* Somebody will close the player: he is in the first two steps of closePlayer.
InClose(a) == at[a] \in {"stop", "release"}
ClosedBySomebody(m) ==
  InClose(m) \/ InClose(Deliverer(m)) \/ (InClose(Loop) /\ work = m)

LiveOK(m) ==
  /\ ~PlayerGone(m) => media[m].player /\ (media[m].running \/ ClosedBySomebody(m))
  /\ at[m] \in {"stop", "release", "closed", "ended"} => ~media[m].running

MediumOK(m) == NewOK(m) /\ MessageOK(m) /\ BeforeOK(m) /\ LiveOK(m)

IInv == TypeOK /\ PlacesOK /\ NodesOK /\ \A m \in Media : MediumOK(m)

-----------------------------------------------------------------------------
\* Who acts.
LEMMA ActorFacts ==
  /\ Loop \in Actors /\ MediumOf(Loop) = work /\ 0 \notin Media
  /\ \A m \in Media :
       /\ m \in Actors /\ Deliverer(m) \in Actors
       /\ m # Loop /\ Deliverer(m) # Loop /\ Deliverer(m) \notin Media
       /\ MediumOf(m) = m /\ MediumOf(Deliverer(m)) = m
       /\ \A n \in Media : Deliverer(m) # n /\ (Deliverer(m) = Deliverer(n) => m = n)
  BY MediaAssumption DEF Actors, Media, Loop, Deliverer, MediumOf

\* The fields of a medium and of a player, when some are set.
LEMMA MediumSet ==
  ASSUME NEW f \in [Media -> MediumFields], NEW m \in Media
  PROVE  /\ \A s \in States : [f EXCEPT ![m].state = s] \in [Media -> MediumFields]
         /\ \A e \in Messages : [f EXCEPT ![m].message = e] \in [Media -> MediumFields]
         /\ \A b \in BOOLEAN :
              /\ [f EXCEPT ![m].running = b] \in [Media -> MediumFields]
              /\ [f EXCEPT ![m].player = b] \in [Media -> MediumFields]
              /\ [f EXCEPT ![m].bPaused = b] \in [Media -> MediumFields]
              /\ [f EXCEPT ![m].bSeekMode = b] \in [Media -> MediumFields]
              /\ \A s \in States :
                   /\ [f EXCEPT ![m].state = s, ![m].running = b] \in [Media -> MediumFields]
                   /\ [f EXCEPT ![m].player = b, ![m].state = s] \in [Media -> MediumFields]
              /\ \A e \in Messages :
                   [f EXCEPT ![m].message = e, ![m].running = b] \in [Media -> MediumFields]
  <1>1. ASSUME NEW s \in States
        PROVE  [f EXCEPT ![m].state = s] \in [Media -> MediumFields]
    BY <1>1, Zenon DEF MediumFields
  <1>2. ASSUME NEW e \in Messages
        PROVE  [f EXCEPT ![m].message = e] \in [Media -> MediumFields]
    BY <1>2, Zenon DEF MediumFields
  <1>3. ASSUME NEW b \in BOOLEAN
        PROVE  /\ [f EXCEPT ![m].running = b] \in [Media -> MediumFields]
               /\ [f EXCEPT ![m].player = b] \in [Media -> MediumFields]
               /\ [f EXCEPT ![m].bPaused = b] \in [Media -> MediumFields]
               /\ [f EXCEPT ![m].bSeekMode = b] \in [Media -> MediumFields]
    BY <1>3, Zenon DEF MediumFields
  <1>4. ASSUME NEW b \in BOOLEAN, NEW s \in States
        PROVE  [f EXCEPT ![m].state = s, ![m].running = b] \in [Media -> MediumFields]
    BY <1>4, Zenon DEF MediumFields
  <1>5. ASSUME NEW b \in BOOLEAN, NEW s \in States
        PROVE  [f EXCEPT ![m].player = b, ![m].state = s] \in [Media -> MediumFields]
    BY <1>5, Zenon DEF MediumFields
  <1>6. ASSUME NEW b \in BOOLEAN, NEW e \in Messages
        PROVE  [f EXCEPT ![m].message = e, ![m].running = b] \in [Media -> MediumFields]
    BY <1>6, Zenon DEF MediumFields
  <1> QED
    BY <1>1, <1>2, <1>3, <1>4, <1>5, <1>6, Zenon

\* And the fields of a player.
LEMMA PlayerSet ==
  ASSUME NEW m \in Media, NEW s \in DOMAIN Rank, NEW e \in Events,
         player \in [Media -> PlayerFields]
  PROVE  /\ [player EXCEPT ![m].state = s] \in [Media -> PlayerFields]
         /\ [player EXCEPT ![m].events = Append(@, e)] \in [Media -> PlayerFields]
         /\ [player EXCEPT ![m].state = s, ![m].events = Append(@, e)]
              \in [Media -> PlayerFields]
         /\ [player EXCEPT ![m].state = s, ![m].listened = TRUE] \in [Media -> PlayerFields]
  <1>1. Append(player[m].events, e) \in Seq(Events)
    BY DEF PlayerFields
  <1>2. /\ [player EXCEPT ![m].state = s] \in [Media -> PlayerFields]
        /\ [player EXCEPT ![m].events = Append(@, e)] \in [Media -> PlayerFields]
    BY <1>1, Zenon DEF PlayerFields
  <1>3. [player EXCEPT ![m].state = s, ![m].events = Append(@, e)] \in [Media -> PlayerFields]
    BY <1>1, Zenon DEF PlayerFields
  <1>4. [player EXCEPT ![m].state = s, ![m].listened = TRUE] \in [Media -> PlayerFields]
    BY Zenon DEF PlayerFields
  <1> QED
    BY <1>2, <1>3, <1>4

\* A player that is stopped or taken further: only its state and its events change,
\* and one that is gone stays so.
LEMMA PlayerMoved ==
  ASSUME NEW m \in Media, NEW s, player \in [Media -> PlayerFields], NEW p,
         \/ p = Stopped(m, s) /\ s \in {"PREFETCHED", "REALIZED"}
         \/ p = Reach(m, s) /\ s \in {"REALIZED", "PREFETCHED", "STARTED"}
  PROVE  /\ p \in [Media -> PlayerFields]
         /\ \A n \in Media : n # m => p[n] = player[n]
         /\ p[m].listened <=> player[m].listened
  <1>1. /\ {"REALIZED", "PREFETCHED", "STARTED"} \subseteq DOMAIN Rank
        /\ {"STARTED", "STOPPED"} \subseteq Events
    BY DEF Rank, Events
  <1>2. p \in [Media -> PlayerFields]
    <2>1. CASE p = player
      BY <2>1
    <2>2. CASE p = Stopped(m, s) /\ s \in {"PREFETCHED", "REALIZED"}
      BY <1>1, <2>2, PlayerSet, Zenon DEF Stopped
    <2>3. CASE p = Reach(m, s) /\ s \in {"REALIZED", "PREFETCHED", "STARTED"}
      <3>1. CASE s = "STARTED"
        BY <1>1, <2>3, <3>1, PlayerSet, Zenon DEF Reach
      <3>2. CASE s # "STARTED"
        <4>1. [player EXCEPT ![m].state = s, ![m].events = player[m].events]
                \in [Media -> PlayerFields]
          BY <1>1, <2>3, Zenon DEF PlayerFields
        <4> QED
          BY <2>3, <3>2, <4>1, Zenon DEF Reach
      <3> QED
        BY <3>1, <3>2
    <2> QED
      BY <2>2, <2>3
  <1>3. \A n \in Media : n # m => p[n] = player[n]
    BY DEF Stopped, Reach, PlayerFields
  <1>4. p[m].listened <=> player[m].listened
    BY DEF Stopped, Reach, PlayerFields
  <1> QED
    BY <1>2, <1>3, <1>4

\* A medium that a step does not touch; the loop does not leave the closing of its
\* player.
Same(m) ==
  /\ media'[m] = media[m] /\ player'[m] = player[m] /\ msg'[m] = msg[m]
  /\ at'[m] = at[m] /\ at'[Deliverer(m)] = at[Deliverer(m)]
  /\ InClose(Loop) /\ work = m => at'[Loop] = at[Loop] /\ work' = m

\* A medium that a step does not touch.
LEMMA Untouched ==
  ASSUME NEW m \in Media, IInv, Same(m)
  PROVE  MediumOK(m)'
  BY DEF IInv, Same, MediumOK, NewOK, MessageOK, Before, BeforeOK, LiveOK, PlayerGone,
         ClosedBySomebody, InClose

\* The first states.
LEMMA InitInv == Init => IInv
  <1> SUFFICES ASSUME Init PROVE IInv
    OBVIOUS
  <1> USE MediaAssumption, NodeAssumption, ActorFacts
  <1>1. MediaTypeOK
    <2>1. NewMedium \in MediumFields
      BY Zenon DEF NewMedium, MediumFields, States, Messages
    <2>2. NewPlayer \in PlayerFields
      <3>1. <<>> \in Seq(Events) /\ "NONE" \in DOMAIN Rank
        BY DEF Rank
      <3> QED
        BY <3>1, Zenon DEF NewPlayer, PlayerFields
    <2> QED
      BY <2>1, <2>2 DEF Init, MediaInit, MediaTypeOK, Messages, Reasons, Places
  <1>2. TypeOK
    <2>1. control \in ControlFields
      BY Zenon DEF Init, ControlFields
    <2>2. /\ now \in 0 .. MaxTime /\ t \in 0 .. now
          /\ wake \in {CANCELED} \cup 1 .. FOREVER
      BY DEF Init, CANCELED, FOREVER
    <2>3. /\ m_media \in Media \cup {0} /\ m_urlChanged \in BOOLEAN
          /\ {m_startTime, m_restartTime} \subseteq 0 .. MaxTime /\ m_stopTime \in -1 .. MaxTime
      BY DEF Init
    <2>4. requests \in 0 .. MaxRequests
      BY DEF Init
    <2> QED
      BY <1>1, <2>1, <2>2, <2>3, <2>4 DEF Init, TypeOK
  <1>3. PlacesOK /\ NodesOK
    BY DEF Init, MediaInit, PlacesOK, NodesOK, Opened, LoopPlaces, ThreadPlaces,
        EventPlaces, Calling
  <1>4. ASSUME NEW m \in Media PROVE MediumOK(m)
    BY <1>4
    DEF Init, MediaInit, MediumOK, NewOK, MessageOK, Before, BeforeOK, LiveOK, PlayerGone,
           NewMedium, NewPlayer
  <1> QED
    BY <1>2, <1>3, <1>4 DEF IInv

\* A step of a medium leaves the types of the nodes and of the clock.
LEMMA OtherTypes ==
  ASSUME TypeOK, UNCHANGED <<clocks, node, control, inputs>>, MediaTypeOK'
  PROVE  TypeOK'
  BY DEF TypeOK, clocks, node, inputs

\* What IInv says of the types of the media and the places.
LEMMA Typed ==
  ASSUME IInv
  PROVE  /\ media \in [Media -> MediumFields] /\ player \in [Media -> PlayerFields]
         /\ at \in [Actors -> Places] /\ why \in [Actors -> Reasons]
         /\ msg \in [Media -> Messages] /\ work \in Media \cup {0}
         /\ composeAgain \in BOOLEAN /\ asleep \in BOOLEAN
         /\ windows \in [Media -> SUBSET WindowKinds]
         /\ m_media \in Media \cup {0} /\ control.loadable \in Media \cup {0}
         /\ at[Loop] \in LoopPlaces
         /\ \A m \in Media : at[m] \in ThreadPlaces /\ at[Deliverer(m)] \in EventPlaces
         /\ \A m \in Media : /\ media[m].state \in States /\ media[m].message \in Messages
                             /\ player[m].state \in DOMAIN Rank /\ msg[m] \in Messages
  <1>1. /\ media \in [Media -> MediumFields] /\ player \in [Media -> PlayerFields]
        /\ at \in [Actors -> Places] /\ why \in [Actors -> Reasons]
        /\ msg \in [Media -> Messages] /\ work \in Media \cup {0}
        /\ composeAgain \in BOOLEAN /\ asleep \in BOOLEAN
        /\ windows \in [Media -> SUBSET WindowKinds]
        /\ m_media \in Media \cup {0} /\ control.loadable \in Media \cup {0}
    BY DEF IInv, TypeOK, MediaTypeOK, ControlFields
  <1>2. /\ at[Loop] \in LoopPlaces
        /\ \A m \in Media : at[m] \in ThreadPlaces /\ at[Deliverer(m)] \in EventPlaces
    BY DEF IInv, PlacesOK
  <1> QED
    BY <1>1, <1>2, Zenon DEF MediumFields, PlayerFields

\* A player that can be used is not gone.
LEMMA UsableNotGone ==
  ASSUME NEW m \in Media, Usable(m)
  PROVE  media[m].player /\ ~PlayerGone(m)
  BY DEF Usable, PlayerGone, Rank

-----------------------------------------------------------------------------
(* The steps of a thread.                                                   *)

\* The test of the loop.
LEMMA TestStep ==
  ASSUME IInv, NEW x \in Media, Test(x),
         UNCHANGED <<clocks, node, control, inputs>>
  PROVE  IInv'
  <1>1. MediaTypeOK'
    <2>1. media' \in [Media -> MediumFields]
      BY Typed DEF Test, objects
    <2>2. player' \in [Media -> PlayerFields]
      BY Typed DEF Test, objects
    <2>3. /\ at' \in [Actors -> Places] /\ why' \in [Actors -> Reasons]
          /\ msg' \in [Media -> Messages] /\ work' \in Media \cup {0}
      BY Typed, ActorFacts DEF Test, Goto, actors, Places, Reasons, Messages
    <2>4. /\ composeAgain' \in BOOLEAN /\ asleep' \in BOOLEAN
          /\ windows' \in [Media -> SUBSET WindowKinds]
      BY Typed DEF Test, canvas, history
    <2> QED
      BY <2>1, <2>2, <2>3, <2>4 DEF MediaTypeOK
  <1>2. PlacesOK' /\ NodesOK'
    BY Typed, ActorFacts
       DEF IInv, PlacesOK, NodesOK, Opened, LoopPlaces, ThreadPlaces, EventPlaces, Calling,
           Test, Goto, actors, node
  <1>3. ASSUME NEW m \in Media PROVE MediumOK(m)'
    <2>1. CASE m # x
      <3>1. Same(m)
        BY <1>3, <2>1, Typed, ActorFacts DEF Same, Test, Goto, objects, actors
      <3> QED
        BY <1>3, <3>1, Untouched
    <2>2. CASE m = x
      <3>1. MediumOK(m)
        BY <1>3 DEF IInv
      <3>2. /\ work' = work /\ at'[Loop] = at[Loop] /\ at'[Deliverer(m)] = at[Deliverer(m)]
            /\ media'[m] = media[m] /\ player'[m] = player[m] /\ msg'[m] = msg[m]
            /\ at[m] = "test"
            /\ \/ ~media[m].running /\ at'[m] = "ended"
               \/ at'[m] = "pick" /\ media[m].message # "IDLE"
        BY <1>3, <2>2, Typed, ActorFacts
        DEF Test, Goto, objects, actors, MediumFields, PlayerFields, ThreadPlaces
      <3> QED
        BY <1>3, <3>1, <3>2, ActorFacts
        DEF MediumOK, NewOK, MessageOK, Before, BeforeOK, LiveOK, PlayerGone,
             ClosedBySomebody, InClose
    <2> QED
      BY <2>1, <2>2
  <1> QED
    BY <1>1, <1>2, <1>3, OtherTypes DEF IInv

\* The message is picked.
LEMMA PickStep ==
  ASSUME IInv, NEW x \in Media, pickMessage(x),
         UNCHANGED <<clocks, node, control, inputs>>
  PROVE  IInv'
  <1>1. MediaTypeOK'
    <2>1. media' \in [Media -> MediumFields]
      <3>1. media' = [media EXCEPT ![x].message = "IDLE"]
        BY DEF pickMessage
      <3> QED
        BY <3>1, Typed, MediumSet, Zenon DEF Messages, States
    <2>2. player' \in [Media -> PlayerFields]
      BY Typed DEF pickMessage, objects
    <2>3. /\ at' \in [Actors -> Places] /\ why' \in [Actors -> Reasons]
          /\ msg' \in [Media -> Messages] /\ work' \in Media \cup {0}
      BY Typed, ActorFacts DEF pickMessage, Goto, actors, Places, Reasons, Messages
    <2>4. /\ composeAgain' \in BOOLEAN /\ asleep' \in BOOLEAN
          /\ windows' \in [Media -> SUBSET WindowKinds]
      BY Typed DEF pickMessage, canvas, history
    <2> QED
      BY <2>1, <2>2, <2>3, <2>4 DEF MediaTypeOK
  <1>2. PlacesOK' /\ NodesOK'
    BY Typed, ActorFacts
       DEF IInv, PlacesOK, NodesOK, Opened, LoopPlaces, ThreadPlaces, EventPlaces, Calling,
           pickMessage, Goto, actors, node
  <1>3. ASSUME NEW m \in Media PROVE MediumOK(m)'
    <2>1. CASE m # x
      <3>1. Same(m)
        BY <1>3, <2>1, Typed, ActorFacts DEF Same, pickMessage, Goto, objects, actors
      <3> QED
        BY <1>3, <3>1, Untouched
    <2>2. CASE m = x
      <3>1. MediumOK(m)
        BY <1>3 DEF IInv
      <3>2. /\ work' = work /\ at'[Loop] = at[Loop] /\ at'[Deliverer(m)] = at[Deliverer(m)]
            /\ media'[m].state = media[m].state /\ media'[m].running = media[m].running
            /\ media'[m].player = media[m].player /\ player'[m] = player[m]
            /\ at[m] = "pick" /\ at'[m] = "post"
            /\ msg'[m] = media[m].message /\ media'[m].message = "IDLE"
        BY <1>3, <2>2, Typed, ActorFacts
        DEF pickMessage, Goto, objects, actors, MediumFields, PlayerFields, ThreadPlaces
      <3> QED
        BY <1>3, <3>1, <3>2, ActorFacts
        DEF MediumOK, NewOK, MessageOK, Before, BeforeOK, LiveOK, PlayerGone,
             ClosedBySomebody, InClose
    <2> QED
      BY <2>1, <2>2
  <1> QED
    BY <1>1, <1>2, <1>3, OtherTypes DEF IInv

\* The next message is posted.
LEMMA PostStep ==
  ASSUME IInv, NEW x \in Media, postMessage(x),
         UNCHANGED <<clocks, node, control, inputs>>
  PROVE  IInv'
  <1>0. /\ msg[x] \in Messages /\ msg[x] # "IDLE"
        /\ msg[x] # "CLOSE" => NextMessage[msg[x]] # "CREATE"
    <2>1. msg[x] \in Messages /\ msg[x] # "IDLE"
      BY Typed DEF IInv, MediumOK, MessageOK, postMessage
    <2> QED
      BY <2>1 DEF NextMessage, Messages
  <1>1. MediaTypeOK'
    <2>1. media' \in [Media -> MediumFields]
      <3>1. CASE msg[x] = "CLOSE"
        <4>1. media' = [media EXCEPT ![x].message = "IDLE", ![x].running = FALSE]
          BY <3>1 DEF postMessage
        <4> QED
          BY <4>1, Typed, MediumSet, Zenon DEF Messages, States
      <3>2. CASE msg[x] # "CLOSE"
        <4>1. media' = [media EXCEPT ![x].message = NextMessage[msg[x]]]
          BY <3>2 DEF postMessage
        <4>2. NextMessage[msg[x]] \in Messages
          BY <1>0, <3>2 DEF NextMessage, Messages
        <4> QED
          BY <4>1, <4>2, Typed, MediumSet, Zenon DEF States
      <3> QED
        BY <3>1, <3>2
    <2>2. player' \in [Media -> PlayerFields]
      BY Typed DEF postMessage, objects
    <2>3. /\ at' \in [Actors -> Places] /\ why' \in [Actors -> Reasons]
          /\ msg' \in [Media -> Messages] /\ work' \in Media \cup {0}
      BY <1>0, Typed, ActorFacts DEF postMessage, Goto, actors, Places, Reasons, Messages
    <2>4. /\ composeAgain' \in BOOLEAN /\ asleep' \in BOOLEAN
          /\ windows' \in [Media -> SUBSET WindowKinds]
      <3>1. windows' = windows \/ windows' = [windows EXCEPT ![x] = @ \cup {"overwritten"}]
        BY DEF postMessage, Met
      <3>2. windows' \in [Media -> SUBSET WindowKinds]
        BY <3>1, Typed, Zenon DEF WindowKinds
      <3> QED
        BY <3>2, Typed DEF postMessage, canvas
    <2> QED
      BY <2>1, <2>2, <2>3, <2>4 DEF MediaTypeOK
  <1>2. PlacesOK' /\ NodesOK'
    BY <1>0, Typed, ActorFacts
       DEF IInv, PlacesOK, NodesOK, Opened, LoopPlaces, ThreadPlaces, EventPlaces, Calling,
           postMessage, Goto, actors, node
  <1>3. ASSUME NEW m \in Media PROVE MediumOK(m)'
    <2>1. CASE m # x
      <3>1. Same(m)
        BY <1>0, <1>3, <2>1, Typed, ActorFacts DEF Same, postMessage, Goto, objects, actors
      <3> QED
        BY <1>3, <3>1, Untouched
    <2>2. CASE m = x
      <3>1. MediumOK(m)
        BY <1>3 DEF IInv
      <3>2. /\ work' = work /\ at'[Loop] = at[Loop] /\ at'[Deliverer(m)] = at[Deliverer(m)]
            /\ media'[m].state = media[m].state /\ media'[m].player = media[m].player
            /\ player'[m] = player[m] /\ msg'[m] = msg[m] /\ at[m] = "post"
            /\ \/ /\ msg[m] = "CLOSE" /\ at'[m] = "stop"
                  /\ media'[m].message = "IDLE" /\ ~media'[m].running
               \/ /\ msg[m] # "CLOSE" /\ at'[m] = "act"
                  /\ media'[m].message # "CREATE" /\ media'[m].running = media[m].running
        BY <1>0, <1>3, <2>2, Typed, ActorFacts
        DEF postMessage, Goto, objects, actors, MediumFields, PlayerFields, ThreadPlaces
      <3> QED
        BY <1>3, <3>1, <3>2, ActorFacts
        DEF MediumOK, NewOK, MessageOK, Before, BeforeOK, LiveOK, PlayerGone,
             ClosedBySomebody, InClose
    <2> QED
      BY <2>1, <2>2
  <1> QED
    BY <1>1, <1>2, <1>3, OtherTypes DEF IInv

\* The player is made, or not.
LEMMA CreateStep ==
  ASSUME IInv, NEW x \in Media, createPlayer(x),
         UNCHANGED <<clocks, node, control, inputs>>
  PROVE  IInv'
  <1>0. /\ at' = [at EXCEPT ![x] = "test"] \/ at' = [at EXCEPT ![x] = "ended"]
        /\ msg' = [msg EXCEPT ![x] = "IDLE"]
    BY DEF createPlayer, Handled, Goto
  <1>1. MediaTypeOK'
    <2>1. media' \in [Media -> MediumFields]
      <3>1. CASE media' = [media EXCEPT ![x].player = TRUE]
        BY <3>1, Typed, MediumSet, Zenon DEF Messages, States
      <3>2. ASSUME NEW s \in States, media' = [media EXCEPT ![x].state = s, ![x].running = FALSE]
            PROVE  media' \in [Media -> MediumFields]
        BY <3>2, Typed, MediumSet, Zenon DEF Messages
      <3> QED
        BY <3>1, <3>2, Typed DEF createPlayer, States
    <2>2. player' \in [Media -> PlayerFields]
      <3>1. "UNREALIZED" \in DOMAIN Rank /\ "ERROR" \in Events
        BY DEF Rank, Events
      <3>2. [player EXCEPT ![x].state = "UNREALIZED", ![x].listened = TRUE]
              \in [Media -> PlayerFields]
        BY <3>1, Typed, PlayerSet, Zenon
      <3> QED
        BY <3>2, Typed DEF createPlayer
    <2>3. /\ at' \in [Actors -> Places] /\ why' \in [Actors -> Reasons]
          /\ msg' \in [Media -> Messages] /\ work' \in Media \cup {0}
      BY <1>0, Typed, ActorFacts
      DEF createPlayer, Handled, Goto, actors, Places, Reasons, Messages
    <2>4. /\ composeAgain' \in BOOLEAN /\ asleep' \in BOOLEAN
          /\ windows' \in [Media -> SUBSET WindowKinds]
      BY <1>0, Typed DEF createPlayer, Handled, canvas, history
    <2> QED
      BY <2>1, <2>2, <2>3, <2>4 DEF MediaTypeOK
  <1>2. PlacesOK' /\ NodesOK'
    BY SMTT(30), <1>0, Typed, ActorFacts
       DEF IInv, PlacesOK, NodesOK, Opened, LoopPlaces, ThreadPlaces, EventPlaces, Calling,
           createPlayer, Handled, Goto, actors, node
  <1>3. ASSUME NEW m \in Media PROVE MediumOK(m)'
    <2>1. CASE m # x
      <3>1. Same(m)
        BY <1>0, <1>3, <2>1, Typed, ActorFacts
        DEF Same, createPlayer, Handled, Goto, objects, actors
      <3> QED
        BY <1>3, <3>1, Untouched
    <2>2. CASE m = x
      <3>1. MediumOK(m)
        BY <1>3 DEF IInv
      <3>2. /\ work' = work /\ at'[Loop] = at[Loop] /\ at'[Deliverer(m)] = at[Deliverer(m)]
            /\ media'[m].message = media[m].message /\ msg'[m] = "IDLE"
            /\ at[m] = "act" /\ msg[m] = "CREATE"
            /\ \/ /\ at'[m] = "test" /\ media'[m].player /\ media'[m].running = media[m].running
                  /\ media'[m].state = media[m].state
               \/ /\ at'[m] = "ended" /\ ~media'[m].running /\ media'[m].player = media[m].player
                  /\ player'[m] = player[m] /\ media'[m].state \in {"ERROR", media[m].state}
        BY <1>0, <1>3, <2>2, Typed, ActorFacts
        DEF createPlayer, Handled, Goto, objects, actors, MediumFields, PlayerFields,
            ThreadPlaces
      <3> QED
        BY <1>3, <3>1, <3>2, ActorFacts
        DEF MediumOK, NewOK, MessageOK, Before, BeforeOK, LiveOK, PlayerGone,
             ClosedBySomebody, InClose
    <2> QED
      BY <2>1, <2>2
  <1> QED
    BY <1>1, <1>2, <1>3, OtherTypes DEF IInv

\* The player is realized, prefetched or started, or that fails.
LEMMA AdvanceStep ==
  ASSUME IInv, NEW x \in Media, Advance(x),
         UNCHANGED <<clocks, node, control, inputs>>
  PROVE  IInv'
  <1>0. /\ player' \in [Media -> PlayerFields]
        /\ \A n \in Media : n # x => player'[n] = player[n]
        /\ player'[x] # player[x] => ~PlayerGone(x)
        /\ player'[x].listened <=> player[x].listened
    <2>1. \/ player' = player
          \/ Usable(x) /\ player' = Reach(x, Aim[msg[x]])
      BY DEF Advance
    <2>2. Aim[msg[x]] \in {"REALIZED", "PREFETCHED", "STARTED"}
      BY DEF Advance, Aim
    <2> QED
      BY <2>1, <2>2, Typed, PlayerMoved, UsableNotGone
  <1>1. MediaTypeOK'
    <2>1. media' \in [Media -> MediumFields]
      <3>1. CASE media' = media
        BY <3>1, Typed
      <3>2. CASE media' = [media EXCEPT ![x].running = FALSE]
        BY <3>2, Typed, MediumSet, Zenon
      <3> QED
        BY <3>1, <3>2 DEF Advance, ClosePlayer
    <2>2. player' \in [Media -> PlayerFields]
      BY <1>0
    <2>3. /\ at' \in [Actors -> Places] /\ why' \in [Actors -> Reasons]
          /\ msg' \in [Media -> Messages] /\ work' \in Media \cup {0}
      BY <1>0, Typed, ActorFacts
      DEF Advance, ClosePlayer, Aim, Goto, actors, Places, Reasons, Messages
    <2>4. /\ composeAgain' \in BOOLEAN /\ asleep' \in BOOLEAN
          /\ windows' \in [Media -> SUBSET WindowKinds]
      BY <1>0, Typed DEF Advance, ClosePlayer, Aim, canvas, history
    <2> QED
      BY <2>1, <2>2, <2>3, <2>4 DEF MediaTypeOK
  <1>2. PlacesOK' /\ NodesOK'
    BY <1>0, Typed, ActorFacts
       DEF IInv, PlacesOK, NodesOK, Opened, LoopPlaces, ThreadPlaces, EventPlaces, Calling,
           Advance, ClosePlayer, Aim, Goto, actors, node
  <1>3. ASSUME NEW m \in Media PROVE MediumOK(m)'
    <2>1. CASE m # x
      <3>1. Same(m)
        BY <1>0, <1>3, <2>1, Typed, ActorFacts
        DEF Same, Advance, ClosePlayer, Aim, Goto, objects, actors
      <3> QED
        BY <1>3, <3>1, Untouched
    <2>2. CASE m = x
      <3>1. MediumOK(m)
        BY <1>3 DEF IInv
      <3>2. /\ work' = work /\ at'[Loop] = at[Loop] /\ at'[Deliverer(m)] = at[Deliverer(m)]
            /\ media'[m].message = media[m].message /\ msg'[m] = msg[m]
            /\ media'[m].state = media[m].state /\ media'[m].player = media[m].player
            /\ player'[m].state = player[m].state \/ ~PlayerGone(m)
            /\ player'[m].listened <=> player[m].listened
            /\ at[m] = "act" /\ msg[m] # "CREATE"
            /\ \/ at'[m] = "check" /\ media'[m].running = media[m].running
               \/ at'[m] = "stop" /\ ~media'[m].running
        BY <1>0, <1>3, <2>2, Typed, ActorFacts
        DEF Advance, ClosePlayer, Aim, Goto, objects, actors, MediumFields, PlayerFields,
            ThreadPlaces
      <3> QED
        BY <1>3, <3>1, <3>2, ActorFacts
        DEF MediumOK, NewOK, MessageOK, Before, BeforeOK, LiveOK, PlayerGone,
             ClosedBySomebody, InClose
    <2> QED
      BY <2>1, <2>2
  <1> QED
    BY <1>1, <1>2, <1>3, OtherTypes DEF IInv

\* The state that was reached is checked.
LEMMA CheckStep ==
  ASSUME IInv, NEW x \in Media, checkState(x),
         UNCHANGED <<clocks, node, control, inputs>>
  PROVE  IInv'
  <1>1. MediaTypeOK'
    <2>1. media' \in [Media -> MediumFields]
      <3>1. CASE media' = media
        BY <3>1, Typed
      <3>2. CASE media' = [media EXCEPT ![x].running = FALSE]
        BY <3>2, Typed, MediumSet, Zenon
      <3> QED
        BY <3>1, <3>2 DEF checkState, ClosePlayer
    <2>2. player' \in [Media -> PlayerFields]
      BY Typed DEF checkState, objects
    <2>3. /\ at' \in [Actors -> Places] /\ why' \in [Actors -> Reasons]
          /\ msg' \in [Media -> Messages] /\ work' \in Media \cup {0}
      BY Typed, ActorFacts
      DEF checkState, ClosePlayer, Handled, Goto, actors, Places, Reasons, Messages
    <2>4. /\ composeAgain' \in BOOLEAN /\ asleep' \in BOOLEAN
          /\ windows' \in [Media -> SUBSET WindowKinds]
      BY Typed DEF checkState, ClosePlayer, Handled, canvas, history
    <2> QED
      BY <2>1, <2>2, <2>3, <2>4 DEF MediaTypeOK
  <1>2. PlacesOK' /\ NodesOK'
    BY Typed, ActorFacts
       DEF IInv, PlacesOK, NodesOK, Opened, LoopPlaces, ThreadPlaces, EventPlaces, Calling,
           checkState, ClosePlayer, Handled, Goto, actors, node
  <1>3. ASSUME NEW m \in Media PROVE MediumOK(m)'
    <2>1. CASE m # x
      <3>1. Same(m)
        BY <1>3, <2>1, Typed, ActorFacts
        DEF Same, checkState, ClosePlayer, Handled, Goto, objects, actors
      <3> QED
        BY <1>3, <3>1, Untouched
    <2>2. CASE m = x
      <3>1. MediumOK(m)
        BY <1>3 DEF IInv
      <3>2. /\ work' = work /\ at'[Loop] = at[Loop] /\ at'[Deliverer(m)] = at[Deliverer(m)]
            /\ media'[m].message = media[m].message /\ player'[m] = player[m]
            /\ media'[m].state = media[m].state /\ media'[m].player = media[m].player
            /\ at[m] = "check"
            /\ \/ at'[m] = "test" /\ media'[m].running = media[m].running /\ msg'[m] = "IDLE"
               \/ at'[m] = "stop" /\ ~media'[m].running /\ msg'[m] = msg[m]
        BY <1>3, <2>2, Typed, ActorFacts
        DEF checkState, ClosePlayer, Handled, Goto, objects, actors, MediumFields,
            PlayerFields, ThreadPlaces
      <3> QED
        BY <1>3, <3>1, <3>2, ActorFacts
        DEF MediumOK, NewOK, MessageOK, Before, BeforeOK, LiveOK, PlayerGone,
             ClosedBySomebody, InClose
    <2> QED
      BY <2>1, <2>2
  <1> QED
    BY <1>1, <1>2, <1>3, OtherTypes DEF IInv

\* The thread has closed the player.
LEMMA CloseDoneStep ==
  ASSUME IInv, NEW x \in Media, CloseDone(x),
         UNCHANGED <<clocks, node, control, inputs>>
  PROVE  IInv'
  <1>1. MediaTypeOK'
    <2>1. media' \in [Media -> MediumFields]
      <3>1. CASE media' = [media EXCEPT ![x].running = FALSE]
        BY <3>1, Typed, MediumSet, Zenon
      <3>2. CASE media' = [media EXCEPT ![x].state = "ERROR"]
        BY <3>2, Typed, MediumSet, Zenon DEF States
      <3> QED
        BY <3>1, <3>2 DEF CloseDone, InState
    <2>2. player' \in [Media -> PlayerFields]
      BY Typed DEF CloseDone, objects
    <2>3. /\ at' \in [Actors -> Places] /\ why' \in [Actors -> Reasons]
          /\ msg' \in [Media -> Messages] /\ work' \in Media \cup {0}
      BY Typed, ActorFacts
      DEF CloseDone, Handled, InState, Goto, actors, Places, Reasons, Messages
    <2>4. /\ composeAgain' \in BOOLEAN /\ asleep' \in BOOLEAN
          /\ windows' \in [Media -> SUBSET WindowKinds]
      BY Typed DEF CloseDone, Handled, InState, canvas, history
    <2> QED
      BY <2>1, <2>2, <2>3, <2>4 DEF MediaTypeOK
  <1>2. PlacesOK' /\ NodesOK'
    BY Typed, ActorFacts
       DEF IInv, PlacesOK, NodesOK, Opened, LoopPlaces, ThreadPlaces, EventPlaces, Calling,
           CloseDone, Handled, InState, Goto, actors, node
  <1>3. ASSUME NEW m \in Media PROVE MediumOK(m)'
    <2>1. CASE m # x
      <3>1. Same(m)
        BY <1>3, <2>1, Typed, ActorFacts
        DEF Same, CloseDone, Handled, InState, Goto, objects, actors
      <3> QED
        BY <1>3, <3>1, Untouched
    <2>2. CASE m = x
      <3>1. MediumOK(m)
        BY <1>3 DEF IInv
      <3>2. /\ work' = work /\ at'[Loop] = at[Loop] /\ at'[Deliverer(m)] = at[Deliverer(m)]
            /\ media'[m].message = media[m].message /\ player'[m] = player[m]
            /\ media'[m].state \in {"ERROR", media[m].state} /\ media'[m].player = media[m].player
            /\ at[m] = "closed" /\ at'[m] \in {"test", "ended"} /\ msg'[m] = "IDLE"
            /\ media'[m].running \in {FALSE, media[m].running}
        BY <1>3, <2>2, Typed, ActorFacts
        DEF CloseDone, Handled, InState, Goto, objects, actors, MediumFields,
            PlayerFields, ThreadPlaces
      <3> QED
        BY <1>3, <3>1, <3>2, ActorFacts
        DEF MediumOK, NewOK, MessageOK, Before, BeforeOK, LiveOK, PlayerGone,
             ClosedBySomebody, InClose
    <2> QED
      BY <2>1, <2>2
  <1> QED
    BY <1>1, <1>2, <1>3, OtherTypes DEF IInv

-----------------------------------------------------------------------------
(* closePlayer, and the events of a player.                                *)

\* The player is stopped.
LEMMA StopStep ==
  ASSUME IInv, NEW x \in Media, NEW a \in {x, Deliverer(x), Loop}, a = Loop => work = x,
         Stop(a),
         UNCHANGED <<clocks, node, control, inputs>>
  PROVE  IInv'
  <1>0. /\ a \in Actors /\ MediumOf(a) = x /\ at[x] # "idle" /\ InClose(a)
        /\ at[a] \in {"stop", "release"}
        /\ \A m \in Media : m # x => m # a /\ Deliverer(m) # a
        /\ a = Loop => work # 0
    <2>1. /\ MediumOf(a) = x /\ a \in Actors
          /\ \A m \in Media : m # x => m # a /\ Deliverer(m) # a
      BY ActorFacts
    <2>2. at[a] \in {"stop", "release"} /\ InClose(a)
      BY DEF Stop, Release, InClose
    <2>3. at[x] # "idle"
      BY <2>2, ActorFacts DEF IInv, MediumOK, NewOK, NodesOK, Opened
    <2> QED
      BY <2>1, <2>2, <2>3, ActorFacts
  <1>p. /\ player' \in [Media -> PlayerFields]
        /\ \A n \in Media : n # x => player'[n] = player[n]
        /\ player'[x].listened <=> player[x].listened
        /\ player'[x].state \in {player[x].state, "REALIZED"}
        /\ player'[x].state # player[x].state => player[x].state = "STARTED"
    <2>1. player' = player \/ player' = Stopped(x, "REALIZED")
      BY <1>0 DEF Stop
    <2>2. player'[x].state = player[x].state
          \/ (player[x].state = "STARTED" /\ player'[x].state = "REALIZED")
      BY <2>1, Typed DEF Stopped, PlayerFields
    <2> QED
      BY <2>1, <2>2, Typed, PlayerMoved
  <1>1. MediaTypeOK'
    <2>1. media' \in [Media -> MediumFields]
      <3>1. CASE media' = media
        BY <3>1, Typed
      <3>2. CASE media' = [media EXCEPT ![x].player = FALSE, ![x].state = "STOPPED"]
        BY <3>2, Typed, MediumSet, Zenon DEF States
      <3>3. CASE media' = [media EXCEPT ![x].state = "STOPPED"]
        BY <3>3, Typed, MediumSet, Zenon DEF States
      <3> QED
        BY <1>0, <3>1, <3>2, <3>3 DEF Stop, InState
    <2>2. player' \in [Media -> PlayerFields]
      BY <1>p
    <2>3. /\ at' \in [Actors -> Places] /\ why' \in [Actors -> Reasons]
          /\ msg' \in [Media -> Messages] /\ work' \in Media \cup {0}
      BY <1>0, <1>p, Typed, ActorFacts
      DEF Stop, InState, WakeUp, Goto, actors, Places, Reasons, Messages
    <2>4. /\ composeAgain' \in BOOLEAN /\ asleep' \in BOOLEAN
          /\ windows' \in [Media -> SUBSET WindowKinds]
      BY <1>0, <1>p, Typed DEF Stop, InState, WakeUp, canvas, history
    <2> QED
      BY <2>1, <2>2, <2>3, <2>4 DEF MediaTypeOK
  <1>2. PlacesOK' /\ NodesOK'
    BY <1>0, <1>p, Typed, ActorFacts
       DEF IInv, PlacesOK, NodesOK, Opened, LoopPlaces, ThreadPlaces, EventPlaces, Calling,
           Stop, InState, WakeUp, Goto, actors, node
  <1>3. ASSUME NEW m \in Media PROVE MediumOK(m)'
    <2>1. CASE m # x
      <3>1. Same(m)
        BY <1>0, <1>p, <1>3, <2>1, Typed, ActorFacts
        DEF Same, Stop, InState, WakeUp, Goto, objects, actors
      <3> QED
        BY <1>3, <3>1, Untouched
    <2>2. CASE m = x
      <3>1. MediumOK(m)
        BY <1>3 DEF IInv
      <3>2. /\ msg'[m] = msg[m] /\ work' = work /\ media'[m].message = media[m].message
            /\ media'[m].running = media[m].running /\ at[m] # "idle"
            /\ media'[m].state \in {media[m].state, "STOPPED", "ERROR"}
            /\ at'[m] \in {at[m], "release", "closed"}
            /\ at'[m] # at[m] => at[m] \in {"stop", "release"}
            /\ player'[m].listened <=> player[m].listened
            /\ player'[m].state = "NONE" <=> player[m].state = "NONE"
            /\ \/ PlayerGone(m)' /\ (media'[m].player => media[m].player)
               \/ /\ ~PlayerGone(m) /\ media'[m].player = media[m].player
                  /\ ClosedBySomebody(m)'
          <4>1. /\ msg'[m] = msg[m] /\ work' = work /\ media'[m].message = media[m].message
                /\ media'[m].running = media[m].running
                /\ media'[m].state \in {media[m].state, "STOPPED", "ERROR"}
            BY <1>0, <1>3, <2>2, Typed DEF Stop, InState, MediumFields
          <4>2. /\ at'[m] \in {at[m], "release", "closed"}
                /\ at'[m] # at[m] => at[m] \in {"stop", "release"}
                /\ at[m] # "idle"
            BY <1>0, <1>3, <2>2, Typed, ActorFacts DEF Stop, Goto
          <4>3. CASE ~media[m].player
            <5>1. media' = media /\ player' = player
              BY <1>0, <2>2, <4>3 DEF Stop
            <5> QED
              BY <1>p, <2>2, <3>1, <4>1, <4>2, <4>3, <5>1 DEF MediumOK, LiveOK, PlayerGone
          <4>4. CASE media[m].player /\ player[m].state = "CLOSED"
            <5>1. media'[m].player = FALSE /\ player' = player
              BY <1>0, <1>3, <2>2, <4>4, Typed DEF Stop, MediumFields
            <5> QED
              BY <1>p, <2>2, <4>1, <4>2, <4>4, <5>1 DEF PlayerGone
          <4>5. CASE media[m].player /\ player[m].state # "CLOSED"
            <5>0. at'[a] = "release"
              BY <1>0, <1>3, <2>2, <4>5, Typed DEF Stop, Goto
            <5>1. media'[m].player = media[m].player
              BY <1>0, <1>3, <2>2, <4>5, Typed DEF Stop, InState, MediumFields
            <5>2. ClosedBySomebody(m)'
              BY <1>0, <2>2, <4>1, <5>0, ActorFacts DEF ClosedBySomebody, InClose
            <5>3. PlayerGone(m)' \/ ~PlayerGone(m)
              BY <1>p, <2>2 DEF PlayerGone
            <5>4. player'[m].state = "NONE" <=> player[m].state = "NONE"
              BY <1>p, <2>2
            <5> QED
              BY <1>p, <2>2, <4>1, <4>2, <5>1, <5>2, <5>3, <5>4
          <4> QED
            BY <4>3, <4>4, <4>5
      <3> QED
        BY <1>3, <3>1, <3>2, ActorFacts
        DEF MediumOK, NewOK, MessageOK, Before, BeforeOK, LiveOK, PlayerGone,
             ClosedBySomebody, InClose
    <2> QED
      BY <2>1, <2>2
  <1> QED
    BY <1>1, <1>2, <1>3, OtherTypes DEF IInv

\* The player is closed.
LEMMA ReleaseStep ==
  ASSUME IInv, NEW x \in Media, NEW a \in {x, Deliverer(x), Loop}, a = Loop => work = x,
         Release(a),
         UNCHANGED <<clocks, node, control, inputs>>
  PROVE  IInv'
  <1>0. /\ a \in Actors /\ MediumOf(a) = x /\ at[x] # "idle" /\ InClose(a)
        /\ at[a] \in {"stop", "release"}
        /\ \A m \in Media : m # x => m # a /\ Deliverer(m) # a
        /\ a = Loop => work # 0
    <2>1. /\ MediumOf(a) = x /\ a \in Actors
          /\ \A m \in Media : m # x => m # a /\ Deliverer(m) # a
      BY ActorFacts
    <2>2. at[a] \in {"stop", "release"} /\ InClose(a)
      BY DEF Stop, Release, InClose
    <2>3. at[x] # "idle"
      BY <2>2, ActorFacts DEF IInv, MediumOK, NewOK, NodesOK, Opened
    <2> QED
      BY <2>1, <2>2, <2>3, ActorFacts
  <1>1. MediaTypeOK'
    <2>1. media' \in [Media -> MediumFields]
      <3>1. CASE media' = [media EXCEPT ![x].player = FALSE, ![x].state = "STOPPED"]
        BY <3>1, Typed, MediumSet, Zenon DEF States
      <3>2. CASE media' = [media EXCEPT ![x].state = "ERROR"]
        BY <3>2, Typed, MediumSet, Zenon DEF States
      <3> QED
        BY <1>0, <3>1, <3>2 DEF Release, InState
    <2>2. player' \in [Media -> PlayerFields]
      <3>1. [NewPlayer EXCEPT !.state = "CLOSED"] \in PlayerFields
        <4>1. <<>> \in Seq(Events) /\ "CLOSED" \in DOMAIN Rank
          BY DEF Rank
        <4> QED
          BY <4>1, Zenon DEF NewPlayer, PlayerFields
      <3> QED
        BY <1>0, <3>1, Typed DEF Release
    <2>3. /\ at' \in [Actors -> Places] /\ why' \in [Actors -> Reasons]
          /\ msg' \in [Media -> Messages] /\ work' \in Media \cup {0}
      BY <1>0, Typed, ActorFacts
      DEF Release, InState, WakeUp, Goto, actors, Places, Reasons, Messages
    <2>4. /\ composeAgain' \in BOOLEAN /\ asleep' \in BOOLEAN
          /\ windows' \in [Media -> SUBSET WindowKinds]
      BY <1>0, Typed DEF Release, InState, WakeUp, canvas, history
    <2> QED
      BY <2>1, <2>2, <2>3, <2>4 DEF MediaTypeOK
  <1>2. PlacesOK' /\ NodesOK'
    BY <1>0, Typed, ActorFacts
       DEF IInv, PlacesOK, NodesOK, Opened, LoopPlaces, ThreadPlaces, EventPlaces, Calling,
           Release, InState, WakeUp, Goto, actors, node
  <1>3. ASSUME NEW m \in Media PROVE MediumOK(m)'
    <2>1. CASE m # x
      <3>1. Same(m)
        BY <1>0, <1>3, <2>1, Typed, ActorFacts
        DEF Same, Release, InState, WakeUp, Goto, objects, actors
      <3> QED
        BY <1>3, <3>1, Untouched
    <2>2. CASE m = x
      <3>1. MediumOK(m)
        BY <1>3 DEF IInv
      <3>2. /\ msg'[m] = msg[m] /\ work' = work /\ media'[m].message = media[m].message
            /\ media'[m].running = media[m].running /\ at[m] # "idle"
            /\ media'[m].state \in {media[m].state, "STOPPED", "ERROR"}
            /\ at'[m] \in {at[m], "release", "closed"}
            /\ at'[m] # at[m] => at[m] \in {"stop", "release"}
            /\ PlayerGone(m)' /\ (media'[m].player => media[m].player)
            /\ player'[m].listened => player[m].listened
            /\ \/ player'[m] = player[m]
               \/ media[m].player /\ ~PlayerGone(m)
          <4>1. /\ msg'[m] = msg[m] /\ work' = work /\ media'[m].message = media[m].message
                /\ media'[m].running = media[m].running
                /\ media'[m].state \in {media[m].state, "STOPPED", "ERROR"}
                /\ (media'[m].player => media[m].player)
            BY <1>0, <1>3, <2>2, Typed DEF Release, InState, MediumFields
          <4>2. /\ at'[m] \in {at[m], "release", "closed"}
                /\ at'[m] # at[m] => at[m] \in {"stop", "release"}
                /\ at[m] # "idle"
            BY <1>0, <1>3, <2>2, Typed, ActorFacts DEF Release, Goto
          <4>3. CASE Usable(m)
            <5>1. player'[m] = [NewPlayer EXCEPT !.state = "CLOSED"]
              BY <1>0, <1>3, <2>2, <4>3, Typed DEF Release
            <5>2. PlayerGone(m)' /\ ~player'[m].listened
              BY <5>1 DEF NewPlayer, PlayerGone
            <5> QED
              BY <1>3, <4>1, <4>2, <4>3, <5>2, UsableNotGone
          <4>4. CASE ~Usable(m)
            <5>1. player' = player
              BY <1>0, <1>3, <2>2, <4>4 DEF Release
            <5>2. PlayerGone(m)
              BY <1>3, <3>1, <4>4, Typed DEF MediumOK, LiveOK, PlayerGone, Usable, Rank
            <5> QED
              BY <4>1, <4>2, <5>1, <5>2 DEF PlayerGone
          <4> QED
            BY <4>3, <4>4
      <3> QED
        BY <1>3, <3>1, <3>2, ActorFacts
        DEF MediumOK, NewOK, MessageOK, Before, BeforeOK, LiveOK, PlayerGone,
             ClosedBySomebody, InClose
    <2> QED
      BY <2>1, <2>2
  <1> QED
    BY <1>1, <1>2, <1>3, OtherTypes DEF IInv

\* An event of the player is told.
LEMMA UpdateStep ==
  ASSUME IInv, NEW x \in Media, playerUpdate(x),
         UNCHANGED <<clocks, node, control, inputs>>
  PROVE  IInv'
  <1>0. /\ Tail(player[x].events) \in Seq(Events)
        /\ player[x].listened /\ at[Deliverer(x)] = "idle"
        /\ \/ /\ media' = [media EXCEPT ![x].state = Update(x, Head(player[x].events))]
              /\ Update(x, Head(player[x].events)) \in States \ {"NONE"}
              /\ at' = at /\ why' = why /\ WakeUp
           \/ /\ media' = [media EXCEPT ![x].running = FALSE]
              /\ at' = [at EXCEPT ![Deliverer(x)] = "stop"]
              /\ why' = [why EXCEPT ![Deliverer(x)] = "event"]
              /\ UNCHANGED canvas
        /\ player' = [player EXCEPT ![x].events = Tail(@)]
        /\ UNCHANGED <<msg, work, history>>
    <2>1. player[x].events \in Seq(Events) /\ player[x].events # <<>>
      BY Typed DEF PlayerFields, playerUpdate
    <2>2. Head(player[x].events) \in Events /\ Tail(player[x].events) \in Seq(Events)
      BY <2>1, HeadTailProperties
    <2>3. Head(player[x].events) # "ERROR" =>
            Update(x, Head(player[x].events)) \in States \ {"NONE"}
      BY <2>2 DEF Events, Update, States
    <2> QED
      BY <2>2, <2>3 DEF playerUpdate, InState, ClosePlayer
  <1>1. MediaTypeOK'
    <2>1. media' \in [Media -> MediumFields]
      <3>1. CASE media' = [media EXCEPT ![x].running = FALSE]
        BY <3>1, Typed, MediumSet, Zenon
      <3>2. ASSUME NEW s \in States, media' = [media EXCEPT ![x].state = s]
            PROVE  media' \in [Media -> MediumFields]
        BY <3>2, Typed, MediumSet, Zenon
      <3> QED
        BY <1>0, <3>1, <3>2
    <2>2. player' \in [Media -> PlayerFields]
      <3>1. ASSUME NEW e \in Seq(Events)
            PROVE  [player EXCEPT ![x].events = e] \in [Media -> PlayerFields]
        <4>1. player \in [Media -> PlayerFields]
          BY Typed
        <4> QED
          BY <4>1, <3>1, Zenon DEF PlayerFields
      <3> QED
        BY <1>0, <3>1, Typed, Zenon
    <2>3. /\ at' \in [Actors -> Places] /\ why' \in [Actors -> Reasons]
          /\ msg' \in [Media -> Messages] /\ work' \in Media \cup {0}
      BY SMTT(30), <1>0, Typed, ActorFacts
      DEF playerUpdate, WakeUp, Goto, actors, Places, Reasons, Messages
    <2>4. /\ composeAgain' \in BOOLEAN /\ asleep' \in BOOLEAN
          /\ windows' \in [Media -> SUBSET WindowKinds]
      BY <1>0, Typed DEF playerUpdate, WakeUp, canvas, history
    <2> QED
      BY <2>1, <2>2, <2>3, <2>4 DEF MediaTypeOK
  <1>2. PlacesOK' /\ NodesOK'
    BY <1>0, Typed, ActorFacts
       DEF IInv, PlacesOK, NodesOK, Opened, LoopPlaces, ThreadPlaces, EventPlaces, Calling,
           playerUpdate, WakeUp, Goto, actors, node
  <1>3. ASSUME NEW m \in Media PROVE MediumOK(m)'
    <2>1. CASE m # x
      <3>1. Same(m)
        BY <1>0, <1>3, <2>1, Typed, ActorFacts
        DEF Same, playerUpdate, WakeUp, Goto, objects, actors
      <3> QED
        BY <1>3, <3>1, Untouched
    <2>2. CASE m = x
      <3>1. MediumOK(m)
        BY <1>3 DEF IInv
      <3>2. /\ work' = work /\ at'[Loop] = at[Loop] /\ at'[m] = at[m] /\ msg'[m] = msg[m]
            /\ media'[m].message = media[m].message /\ media'[m].player = media[m].player
            /\ player'[m].state = player[m].state /\ (player'[m].listened <=> player[m].listened)
            /\ player[m].listened /\ at[Deliverer(m)] = "idle"
            /\ \/ /\ at'[Deliverer(m)] = "idle" /\ media'[m].running = media[m].running
                  /\ media'[m].state # "NONE"
               \/ /\ at'[Deliverer(m)] = "stop" /\ ~media'[m].running
                  /\ media'[m].state = media[m].state
        BY <1>0, <1>3, <2>2, Typed, ActorFacts
        DEF playerUpdate, WakeUp, Goto, objects, actors, MediumFields, PlayerFields,
            ThreadPlaces
      <3> QED
        BY <1>3, <3>1, <3>2, ActorFacts
        DEF MediumOK, NewOK, MessageOK, Before, BeforeOK, LiveOK, PlayerGone,
             ClosedBySomebody, InClose
    <2> QED
      BY <2>1, <2>2
  <1> QED
    BY <1>1, <1>2, <1>3, OtherTypes DEF IInv

\* The error of a player has been told.
LEMMA ErrorStep ==
  ASSUME IInv, NEW x \in Media, ErrorUpdated(x),
         UNCHANGED <<clocks, node, control, inputs>>
  PROVE  IInv'
  <1>1. MediaTypeOK'
    <2>1. media' \in [Media -> MediumFields]
      <3>1. media' = [media EXCEPT ![x].state = "ERROR"]
        BY DEF ErrorUpdated, InState
      <3> QED
        BY <3>1, Typed, MediumSet, Zenon DEF States
    <2>2. player' \in [Media -> PlayerFields]
      BY Typed DEF ErrorUpdated, objects
    <2>3. /\ at' \in [Actors -> Places] /\ why' \in [Actors -> Reasons]
          /\ msg' \in [Media -> Messages] /\ work' \in Media \cup {0}
      BY Typed, ActorFacts
      DEF ErrorUpdated, WakeUp, InState, Goto, actors, Places, Reasons, Messages
    <2>4. /\ composeAgain' \in BOOLEAN /\ asleep' \in BOOLEAN
          /\ windows' \in [Media -> SUBSET WindowKinds]
      BY Typed DEF ErrorUpdated, WakeUp, InState, canvas, history
    <2> QED
      BY <2>1, <2>2, <2>3, <2>4 DEF MediaTypeOK
  <1>2. PlacesOK' /\ NodesOK'
    BY Typed, ActorFacts
       DEF IInv, PlacesOK, NodesOK, Opened, LoopPlaces, ThreadPlaces, EventPlaces, Calling,
           ErrorUpdated, WakeUp, InState, Goto, actors, node
  <1>3. ASSUME NEW m \in Media PROVE MediumOK(m)'
    <2>1. CASE m # x
      <3>1. Same(m)
        BY <1>3, <2>1, Typed, ActorFacts
        DEF Same, ErrorUpdated, WakeUp, InState, Goto, objects, actors
      <3> QED
        BY <1>3, <3>1, Untouched
    <2>2. CASE m = x
      <3>1. MediumOK(m)
        BY <1>3 DEF IInv
      <3>2. /\ work' = work /\ at'[Loop] = at[Loop] /\ at'[m] = at[m] /\ msg'[m] = msg[m]
            /\ media'[m].message = media[m].message /\ media'[m].player = media[m].player
            /\ player'[m] = player[m] /\ media'[m].running = media[m].running
            /\ at[Deliverer(m)] = "closed" /\ at'[Deliverer(m)] = "idle" /\ media'[m].state # "NONE"
        BY <1>3, <2>2, Typed, ActorFacts
        DEF ErrorUpdated, WakeUp, InState, Goto, objects, actors, MediumFields,
            PlayerFields, ThreadPlaces
      <3> QED
        BY <1>3, <3>1, <3>2, ActorFacts
        DEF MediumOK, NewOK, MessageOK, Before, BeforeOK, LiveOK, PlayerGone,
             ClosedBySomebody, InClose
    <2> QED
      BY <2>1, <2>2
  <1> QED
    BY <1>1, <1>2, <1>3, OtherTypes DEF IInv

\* A player does something unasked.
LEMMA IncidentStep ==
  ASSUME IInv, NEW x \in Media, Incident(x),
         UNCHANGED <<clocks, node, control, inputs>>
  PROVE  IInv'
  <1>1. MediaTypeOK'
    <2>1. media' \in [Media -> MediumFields]
      BY Typed DEF Incident, objects
    <2>2. player' \in [Media -> PlayerFields]
      <3>1. /\ {"END_OF_MEDIA", "ERROR"} \subseteq Events
            /\ {"PREFETCHED", "STARTED", "CLOSED"} \subseteq DOMAIN Rank
            /\ << "BUFFERING_STARTED", "BUFFERING_STOPPED" >> \in Seq(Events)
        BY DEF Events, Rank
      <3>2. CASE player' = [player EXCEPT ![x].events =
                             @ \o << "BUFFERING_STARTED", "BUFFERING_STOPPED" >>]
        <4>1. player[x].events \o << "BUFFERING_STARTED", "BUFFERING_STOPPED" >> \in Seq(Events)
          BY <3>1, Typed, ConcatProperties DEF PlayerFields
        <4> QED
          BY <3>2, <4>1, Typed, Zenon DEF PlayerFields
      <3>3. ASSUME NEW s \in DOMAIN Rank, NEW e \in Events,
                   player' = [player EXCEPT ![x].state = s, ![x].events = Append(@, e)]
            PROVE  player' \in [Media -> PlayerFields]
        BY <3>3, Typed, PlayerSet, Zenon
      <3> QED
        BY <3>1, <3>2, <3>3 DEF Incident
    <2>3. /\ at' \in [Actors -> Places] /\ why' \in [Actors -> Reasons]
          /\ msg' \in [Media -> Messages] /\ work' \in Media \cup {0}
      BY Typed, ActorFacts DEF Incident, Goto, actors, Places, Reasons, Messages
    <2>4. /\ composeAgain' \in BOOLEAN /\ asleep' \in BOOLEAN
          /\ windows' \in [Media -> SUBSET WindowKinds]
      <3>1. windows' = windows \/ windows' = [windows EXCEPT ![x] = @ \cup {"ended"}]
        BY DEF Incident, Met
      <3>2. windows' \in [Media -> SUBSET WindowKinds]
        BY <3>1, Typed, Zenon DEF WindowKinds
      <3> QED
        BY <3>2, Typed DEF Incident, canvas
    <2> QED
      BY <2>1, <2>2, <2>3, <2>4 DEF MediaTypeOK
  <1>2. PlacesOK' /\ NodesOK'
    BY Typed, ActorFacts
       DEF IInv, PlacesOK, NodesOK, Opened, LoopPlaces, ThreadPlaces, EventPlaces, Calling,
           Incident, Goto, actors, node
  <1>3. ASSUME NEW m \in Media PROVE MediumOK(m)'
    <2>1. CASE m # x
      <3>1. Same(m)
        BY <1>3, <2>1, Typed, ActorFacts DEF Same, Incident, Goto, objects, actors
      <3> QED
        BY <1>3, <3>1, Untouched
    <2>2. CASE m = x
      <3>1. MediumOK(m)
        BY <1>3 DEF IInv
      <3>2. /\ UNCHANGED <<media, at, msg, work>>
            /\ ~PlayerGone(m) /\ player[m].state # "NONE" /\ player'[m].state # "NONE"
            /\ player'[m].listened <=> player[m].listened
          <4>1. UNCHANGED <<media, at, msg, work>> /\ player[m].state = "STARTED"
            BY <2>2 DEF Incident, actors
          <4>2. player'[m].state \in {"PREFETCHED", "STARTED", "CLOSED"}
            BY <1>3, <2>2, Typed DEF Incident, PlayerFields
          <4>3. player'[m].listened <=> player[m].listened
            BY <1>3, <2>2, Typed DEF Incident, PlayerFields
          <4> QED
            BY <4>1, <4>2, <4>3 DEF PlayerGone
      <3> QED
        BY <1>3, <3>1, <3>2, ActorFacts
        DEF MediumOK, NewOK, MessageOK, Before, BeforeOK, LiveOK, PlayerGone,
             ClosedBySomebody, InClose
    <2> QED
      BY <2>1, <2>2
  <1> QED
    BY <1>1, <1>2, <1>3, OtherTypes DEF IInv

-----------------------------------------------------------------------------
(* The main loop in a call of a medium.                                    *)

\* What such a step does to the player: nothing, or it moves one that can be used.
MovesPlayer ==
  /\ player' \in [Media -> PlayerFields]
  /\ \A m \in Media : m # work => player'[m] = player[m]
  /\ player'[work].state = player[work].state \/ ~PlayerGone(work)
  /\ player'[work].listened <=> player[work].listened

\* What it does to the medium: it sets the state or a flag, or clears m_running.
SetsMedium ==
  /\ media' \in [Media -> MediumFields]
  /\ \A m \in Media : m # work => media'[m] = media[m]
  /\ media'[work].message = media[work].message
  /\ media'[work].player = media[work].player
  /\ media'[work].state # media[work].state => media'[work].state # "NONE"

\* The loop goes to a place, and if it clears m_running, to the closing of the
\* player.
Calls(p) ==
  /\ at[Loop] \in Calling \ {"stop", "release"}
  /\ at' = [at EXCEPT ![Loop] = p]
  /\ why' \in [Actors -> Reasons] /\ windows' \in [Media -> SUBSET WindowKinds]
  /\ UNCHANGED <<msg, work, canvas>>
  /\ SetsMedium /\ MovesPlayer
  /\ \/ media'[work].running = media[work].running
     \/ media[work].player /\ ~media'[work].running /\ p = "stop"

\* The medium of a call has been opened.
LEMMA Working ==
  ASSUME IInv, at[Loop] \in Calling
  PROVE  work \in Media /\ at[work] # "idle" /\ media[work].state # "NONE"
  <1>1. work \in Media /\ at[work] # "idle"
    BY Typed DEF IInv, PlacesOK, NodesOK, Opened
  <1> QED
    BY <1>1 DEF IInv, MediumOK, NewOK

\* Such a step keeps the invariant of the media.
LEMMA CallsKeep ==
  ASSUME IInv, NEW p \in LoopPlaces, Calls(p), UNCHANGED <<m_media, control.loadable>>
  PROVE  MediaTypeOK' /\ PlacesOK' /\ NodesOK' /\ \A m \in Media : MediumOK(m)'
  <1>1. work \in Media /\ at[work] # "idle" /\ media[work].state # "NONE"
    BY Working DEF Calls
  <1>2. MediaTypeOK'
    <2>1. at' \in [Actors -> Places]
      BY Typed, ActorFacts DEF Calls, LoopPlaces, Calling, Places
    <2> QED
      BY <2>1, Typed DEF Calls, SetsMedium, MovesPlayer, MediaTypeOK, canvas
  <1>3. PlacesOK' /\ NodesOK'
    BY <1>1, Typed, ActorFacts DEF Calls, IInv, PlacesOK, NodesOK, Opened
  <1>4. ASSUME NEW m \in Media PROVE MediumOK(m)'
    <2>1. CASE m # work
      <3>1. Same(m)
        BY <1>4, <2>1, Typed, ActorFacts DEF Same, Calls, SetsMedium, MovesPlayer, InClose
      <3> QED
        BY <1>4, <3>1, Untouched
    <2>2. CASE m = work
      <3>1. MediumOK(m)
        BY <1>4 DEF IInv
      <3>2. /\ at'[m] = at[m] /\ at'[Deliverer(m)] = at[Deliverer(m)] /\ msg'[m] = msg[m]
            /\ at'[Loop] = p /\ work' = work
        BY <1>4, Typed, ActorFacts DEF Calls
      <3>3. /\ at[m] # "idle" /\ media'[m].state # "NONE"
            /\ media'[m].message = media[m].message /\ media'[m].player = media[m].player
            /\ player'[m].state = player[m].state \/ ~PlayerGone(m)
            /\ player'[m].listened <=> player[m].listened
        BY <1>1, <2>2 DEF Calls, SetsMedium, MovesPlayer
      <3>4. NewOK(m)' /\ MessageOK(m)'
        BY <3>1, <3>2, <3>3 DEF MediumOK, NewOK, MessageOK
      <3>5. /\ media'[m].running => media[m].running
            /\ ~media[m].player => media'[m].running = media[m].running
            /\ media'[m].running \/ ClosedBySomebody(m)' \/
                 ~(media[m].running \/ ClosedBySomebody(m))
        <4>1. CASE media'[m].running = media[m].running
          BY <2>2, <3>2, <4>1 DEF Calls, ClosedBySomebody, InClose
        <4>2. CASE media[m].player /\ ~media'[m].running /\ p = "stop"
          BY <2>2, <3>2, <4>2 DEF ClosedBySomebody, InClose
        <4> QED
          BY <2>2, <4>1, <4>2 DEF Calls
      <3>6. LiveOK(m)'
        BY <3>1, <3>2, <3>3, <3>5 DEF MediumOK, LiveOK, PlayerGone
      <3>7. BeforeOK(m)'
        <4>1. CASE Before(m)
          <5>1. ~media[m].player /\ PlayerGone(m) /\ ~player[m].listened /\ media[m].running
            BY <3>1, <4>1 DEF MediumOK, BeforeOK, PlayerGone
          <5> QED
            BY <2>2, <3>1, <3>2, <3>3, <3>5, <4>1, <5>1 DEF MediumOK, BeforeOK, Before
        <4>2. CASE ~Before(m)
          BY <3>2, <3>3, <4>2 DEF BeforeOK, Before
        <4> QED
          BY <4>1, <4>2
      <3> QED
        BY <3>4, <3>6, <3>7 DEF MediumOK
    <2> QED
      BY <2>1, <2>2
  <1> QED
    BY <1>2, <1>3, <1>4

\* A flag or the state of the medium of the call is set.
LEMMA SetsOne ==
  ASSUME IInv, work \in Media,
         \/ media' = media
         \/ \E b \in BOOLEAN : \/ media' = [media EXCEPT ![work].bPaused = b]
                               \/ media' = [media EXCEPT ![work].bSeekMode = b]
         \/ \E s \in States \ {"NONE"} : media' = [media EXCEPT ![work].state = s]
  PROVE  SetsMedium /\ media'[work].running = media[work].running
  <1>1. CASE media' = media
    BY <1>1, Typed DEF SetsMedium
  <1>2. ASSUME NEW b \in BOOLEAN,
               \/ media' = [media EXCEPT ![work].bPaused = b]
               \/ media' = [media EXCEPT ![work].bSeekMode = b]
        PROVE  SetsMedium /\ media'[work].running = media[work].running
    <2>1. media' \in [Media -> MediumFields]
      <3>1. CASE media' = [media EXCEPT ![work].bPaused = b]
        BY <3>1, Typed, MediumSet, Zenon
      <3>2. CASE media' = [media EXCEPT ![work].bSeekMode = b]
        BY <3>2, Typed, MediumSet, Zenon
      <3> QED
        BY <1>2, <3>1, <3>2
    <2> QED
      BY <1>2, <2>1, Typed DEF SetsMedium, MediumFields
  <1>3. ASSUME NEW s \in States \ {"NONE"}, media' = [media EXCEPT ![work].state = s]
        PROVE  SetsMedium /\ media'[work].running = media[work].running
    <2>1. media' \in [Media -> MediumFields]
      BY <1>3, Typed, MediumSet, Zenon
    <2> QED
      BY <1>3, <2>1, Typed DEF SetsMedium, MediumFields
  <1> QED
    BY <1>1, <1>2, <1>3

\* The player of the call is stopped or started.
LEMMA MovesOne ==
  ASSUME IInv, work \in Media,
         \/ player' = player
         \/ /\ Usable(work)
            /\ player' = Stopped(work, "PREFETCHED") \/ player' = Reach(work, "STARTED")
  PROVE  MovesPlayer
  BY ZenonT(60), Typed, PlayerMoved, UsableNotGone DEF MovesPlayer

\* The pause is over.
LEMMA PauseDoneCalls ==
  ASSUME IInv, PauseDone
  PROVE  \E p \in LoopPlaces : Calls(p)
  <1>1. at[Loop] \in Calling \ {"stop", "release"}
    BY DEF PauseDone, Calling
  <1>2. work \in Media
    BY <1>1, Working
  <1>3. SetsMedium /\ media'[work].running = media[work].running
    BY <1>2, SetsOne DEF PauseDone, States, objects
  <1>4. MovesPlayer
    BY <1>2, MovesOne DEF PauseDone, objects
  <1>5. /\ why' \in [Actors -> Reasons] /\ windows' \in [Media -> SUBSET WindowKinds]
        /\ UNCHANGED <<msg, work, canvas>>
    BY <1>2, Typed, ActorFacts DEF PauseDone, history, Reasons
  <1> QED
    BY <1>1, <1>3, <1>4, <1>5 DEF Calls, PauseDone, Goto, LoopPlaces, Calling

\* The medium has been started again, or its player closed.
LEMMA RestartedCalls ==
  ASSUME IInv, Restarted
  PROVE  \E p \in LoopPlaces : Calls(p)
  <1>1. at[Loop] \in Calling \ {"stop", "release"}
    BY DEF Restarted, InState, Calling
  <1>2. work \in Media
    BY <1>1, Working
  <1>3. SetsMedium /\ media'[work].running = media[work].running
    BY <1>2, SetsOne DEF Restarted, InState, States, objects
  <1>4. MovesPlayer
    BY <1>2, MovesOne DEF Restarted, InState, objects
  <1>5. /\ why' \in [Actors -> Reasons] /\ windows' \in [Media -> SUBSET WindowKinds]
        /\ UNCHANGED <<msg, work, canvas>>
    BY <1>2, Typed, ActorFacts DEF Restarted, InState, history, Reasons
  <1> QED
    BY <1>1, <1>3, <1>4, <1>5 DEF Calls, Restarted, InState, Goto, LoopPlaces, Calling

\* The player is stopped for a seek.
LEMMA StopForCalls ==
  ASSUME IInv, SeekStop \/ StopAgain
  PROVE  \E p \in LoopPlaces : Calls(p)
  <1>1. at[Loop] \in Calling \ {"stop", "release"}
    BY DEF SeekStop, StopAgain, StopFor, SoughtMode, Calling
  <1>2. work \in Media
    BY <1>1, Working
  <1>3. SetsMedium /\ media'[work].running = media[work].running
    BY <1>2, SetsOne DEF SeekStop, StopAgain, StopFor, SoughtMode, States, objects
  <1>4. MovesPlayer
    BY <1>2, MovesOne DEF SeekStop, StopAgain, StopFor, SoughtMode, objects
  <1>5. /\ why' \in [Actors -> Reasons] /\ windows' \in [Media -> SUBSET WindowKinds]
        /\ UNCHANGED <<msg, work, canvas>>
    BY <1>2, Typed, ActorFacts
    DEF SeekStop, StopAgain, StopFor, SoughtMode, history, Reasons
  <1> QED
    BY <1>1, <1>3, <1>4, <1>5
    DEF Calls, SeekStop, StopAgain, StopFor, SoughtMode, Goto, LoopPlaces, Calling

\* The player is started for a seek.
LEMMA StartForCalls ==
  ASSUME IInv, Position \/ SeekStart
  PROVE  \E p \in LoopPlaces : Calls(p)
  <1>1. at[Loop] \in Calling \ {"stop", "release"}
    BY DEF Position, SeekStart, StartFor, SoughtMode, Calling
  <1>2. work \in Media
    BY <1>1, Working
  <1>3. SetsMedium /\ media'[work].running = media[work].running
    BY <1>2, SetsOne DEF Position, SeekStart, StartFor, SoughtMode, States, objects
  <1>4. MovesPlayer
    BY <1>2, MovesOne DEF Position, SeekStart, StartFor, SoughtMode, objects
  <1>5. /\ why' \in [Actors -> Reasons] /\ windows' \in [Media -> SUBSET WindowKinds]
        /\ UNCHANGED <<msg, work, canvas>>
    BY <1>2, Typed, ActorFacts
    DEF Position, SeekStart, StartFor, SoughtMode, history, Reasons
  <1> QED
    BY <1>1, <1>3, <1>4, <1>5
    DEF Calls, Position, SeekStart, StartFor, SoughtMode, Goto, LoopPlaces, Calling

\* The loop has waited for a state.
LEMMA UntilCalls ==
  ASSUME IInv, UntilStopped \/ UntilPlaying
  PROVE  \E p \in LoopPlaces : Calls(p)
  <1>1. at[Loop] \in Calling \ {"stop", "release"}
    BY DEF UntilStopped, UntilPlaying, Calling
  <1>2. work \in Media
    BY <1>1, Working
  <1>3. SetsMedium /\ media'[work].running = media[work].running
    BY <1>2, SetsOne DEF UntilStopped, UntilPlaying, States, objects
  <1>4. MovesPlayer
    BY <1>2, MovesOne DEF UntilStopped, UntilPlaying, objects
  <1>5. /\ why' \in [Actors -> Reasons] /\ windows' \in [Media -> SUBSET WindowKinds]
        /\ UNCHANGED <<msg, work, canvas>>
    BY <1>2, Typed, ActorFacts DEF UntilStopped, UntilPlaying, history, Reasons
  <1> QED
    BY <1>1, <1>3, <1>4, <1>5
    DEF Calls, UntilStopped, UntilPlaying, Goto, LoopPlaces, Calling

\* A seek begins, or is not possible.
LEMMA SeekCalls ==
  ASSUME IInv, Seek
  PROVE  \E p \in LoopPlaces : Calls(p)
  <1>1. at[Loop] \in Calling \ {"stop", "release"}
    BY DEF Seek, Calling
  <1>2. work \in Media
    BY <1>1, Working
  <1>3. SetsMedium /\ media'[work].running = media[work].running
    BY <1>2, SetsOne DEF Seek, States, objects
  <1>4. MovesPlayer
    BY <1>2, MovesOne DEF Seek, objects
  <1>w. windows' \in [Media -> SUBSET WindowKinds]
    <2>1. windows' = windows \/ windows' = [windows EXCEPT ![work] = @ \cup {"unchecked"}]
      BY DEF Seek, Met
    <2> QED
      BY <2>1, Typed, Zenon DEF WindowKinds
  <1>5. /\ why' \in [Actors -> Reasons] /\ windows' \in [Media -> SUBSET WindowKinds]
        /\ UNCHANGED <<msg, work, canvas>>
    BY <1>2, <1>w, Typed, ActorFacts DEF Seek, history, Reasons
  <1> QED
    BY <1>1, <1>3, <1>4, <1>5 DEF Calls, Seek, Goto, LoopPlaces, Calling

\* A medium at its end is started again.
LEMMA RestartCalls ==
  ASSUME IInv, Restart
  PROVE  \E p \in LoopPlaces : Calls(p)
  <1>1. at[Loop] \in Calling \ {"stop", "release"}
    BY DEF Restart, Calling
  <1>2. work \in Media
    BY <1>1, Working
  <1>3. MovesPlayer
    BY <1>2, MovesOne DEF Restart
  <1>4. ASSUME media' = media, why' = why, NEW q \in {"restarted", "sought"}, Goto(Loop, q)
        PROVE  \E p \in LoopPlaces : Calls(p)
    <2>1. SetsMedium /\ media'[work].running = media[work].running
      BY <1>2, <1>4, SetsOne
    <2> QED
      BY <1>1, <1>3, <1>4, <2>1, Typed
      DEF Calls, Restart, Goto, LoopPlaces, Calling, history
  <1>5. CASE media[work].player /\ ClosePlayer(Loop, work, "start")
    <2>1. media' = [media EXCEPT ![work].running = FALSE]
      BY <1>5 DEF ClosePlayer
    <2>2. media' \in [Media -> MediumFields]
      BY <1>2, <2>1, Typed, MediumSet, Zenon
    <2>3. SetsMedium /\ ~media'[work].running
      BY <1>2, <2>1, <2>2, Typed DEF SetsMedium, MediumFields
    <2>4. why' \in [Actors -> Reasons]
      BY <1>5, Typed, ActorFacts DEF ClosePlayer, Reasons
    <2> QED
      BY <1>1, <1>3, <1>5, <2>3, <2>4, Typed
      DEF Calls, Restart, ClosePlayer, LoopPlaces, Calling, history
  <1> QED
    BY <1>4, <1>5 DEF Restart

\* The medium is paused or resumed.
LEMMA PauseCalls ==
  ASSUME IInv, NEW pause, at[Loop] = "sought", setPause(pause)
  PROVE  \E p \in LoopPlaces : Calls(p)
  <1>1. at[Loop] \in Calling \ {"stop", "release"}
    BY DEF Calling
  <1>2. work \in Media
    BY <1>1, Working
  <1>3. SetsMedium /\ media'[work].running = media[work].running
    BY <1>2, SetsOne DEF setPause, States, objects
  <1>4. MovesPlayer
    BY <1>2, MovesOne DEF setPause, objects
  <1>w. windows' \in [Media -> SUBSET WindowKinds]
    <2>1. windows' = [windows EXCEPT ![work] = @ \cup {"paused"}]
      BY DEF setPause, Met
    <2> QED
      BY <2>1, Typed, Zenon DEF WindowKinds
  <1>5. /\ why' \in [Actors -> Reasons] /\ windows' \in [Media -> SUBSET WindowKinds]
        /\ UNCHANGED <<msg, work, canvas>>
    BY <1>2, <1>w, Typed, ActorFacts DEF setPause, history, Reasons
  <1> QED
    BY <1>1, <1>3, <1>4, <1>5 DEF Calls, setPause, Goto, LoopPlaces, Calling

\* A step of the main loop in a call.
LEMMA CalledStep ==
  ASSUME IInv, Called, UNCHANGED <<clocks, node, control, inputs>>
  PROVE  IInv'
  <1>1. CASE at[Loop] \in {"stop", "release"}
    <2>1. work \in Media
      BY <1>1, Working DEF Calling
    <2>2. CASE Stop(Loop)
      BY <2>1, <2>2, StopStep
    <2>3. CASE Release(Loop)
      BY <2>1, <2>3, ReleaseStep
    <2> QED
      BY <1>1, <2>2, <2>3
      DEF Called, PauseDone, Restart, Restarted, setMediaTimePos, Seek, SeekStop,
          UntilStopped,
          Position, SeekStart, UntilPlaying, StopAgain, StopFor, StartFor
  <1>2. CASE at[Loop] \notin {"stop", "release"}
    <2>1. \E p \in LoopPlaces : Calls(p)
      BY <1>2, PauseDoneCalls, RestartCalls, RestartedCalls, SeekCalls, StopForCalls,
         StartForCalls, UntilCalls
      DEF Called, setMediaTimePos, Stop, Release
    <2> QED
      BY <2>1, CallsKeep, OtherTypes DEF IInv, node
  <1> QED
    BY <1>1, <1>2

\* MediaControl pauses or resumes the medium.
LEMMA ControlPauseStep ==
  ASSUME IInv, ControlPause
  PROVE  IInv'
  <1>1. at[Loop] = "sought" /\ work \in Media
    BY Working DEF ControlPause, Calling
  <1>2. \E p \in LoopPlaces : Calls(p)
    <2>1. CASE control.pause = "same"
      <3>1. SetsMedium /\ media'[work].running = media[work].running
        BY <1>1, <2>1, SetsOne DEF ControlPause, objects
      <3>2. MovesPlayer
        BY <1>1, <2>1, MovesOne DEF ControlPause, objects
      <3> QED
        BY <1>1, <2>1, <3>1, <3>2, Typed
        DEF Calls, ControlPause, Goto, LoopPlaces, Calling, history
    <2>2. CASE control.pause # "same"
      BY <1>1, <2>2, PauseCalls DEF ControlPause
    <2> QED
      BY <2>1, <2>2
  <1>3. /\ control' \in ControlFields
        /\ control'.loadable = control.loadable
    <2>1. control \in ControlFields
      BY DEF IInv, TypeOK
    <2>2. [control EXCEPT !.pause = "same"] \in ControlFields
      BY <2>1, Zenon DEF ControlFields
    <2> QED
      BY <2>1, <2>2 DEF ControlPause, ControlFields
  <1>4. UNCHANGED m_media
    BY DEF ControlPause, node
  <1>5. MediaTypeOK' /\ PlacesOK' /\ NodesOK' /\ \A m \in Media : MediumOK(m)'
    BY <1>2, <1>3, <1>4, CallsKeep
  <1> QED
    BY <1>3, <1>5 DEF IInv, TypeOK, ControlPause, clocks, node, inputs

-----------------------------------------------------------------------------
(* The main loop outside a call, time and inputs.                          *)

\* The loop goes to another place and leaves the media alone.
LEMMA LoopMoves ==
  ASSUME IInv, NEW p \in LoopPlaces \ Calling, at[Loop] \notin Calling,
         at' = [at EXCEPT ![Loop] = p], UNCHANGED <<media, player, why, msg>>,
         work' \in {work, 0}, UNCHANGED <<m_media, control.loadable>>,
         composeAgain' \in BOOLEAN, asleep' \in BOOLEAN,
         windows' \in [Media -> SUBSET WindowKinds]
  PROVE  MediaTypeOK' /\ PlacesOK' /\ NodesOK' /\ \A m \in Media : MediumOK(m)'
  <1>1. MediaTypeOK'
    <2>1. at' \in [Actors -> Places]
      BY Typed, ActorFacts DEF LoopPlaces, Calling, Places
    <2> QED
      BY <2>1, Typed DEF MediaTypeOK
  <1>2. PlacesOK' /\ NodesOK'
    BY Typed, ActorFacts DEF IInv, PlacesOK, NodesOK, Opened
  <1>3. ASSUME NEW m \in Media PROVE MediumOK(m)'
    <2>1. Same(m)
      BY <1>3, Typed, ActorFacts DEF Same, InClose, Calling
    <2> QED
      BY <1>3, <2>1, Untouched
  <1> QED
    BY <1>1, <1>2, <1>3

\* A frame begins, with what a script asked for.
LEMMA FrameStep ==
  ASSUME IInv, Frame
  PROVE  IInv'
  <1>1. /\ control' \in ControlFields
        /\ control'.loadable = control.loadable
    <2>1. control \in ControlFields
      BY DEF IInv, TypeOK
    <2>2. ASSUME NEW r \in Requests, NEW v \in 0 .. MaxTime, FieldChanged(r, v)
          PROVE  /\ control' \in ControlFields
                 /\ control'.loadable = control.loadable
      <3>1. ASSUME NEW u \in BOOLEAN, NEW s \in BOOLEAN, NEW q \in {"same", "pause", "resume"}
            PROVE  [control EXCEPT !.urlChanged = u, !.seek = s, !.pause = q] \in ControlFields
        BY <2>1, <3>1, Zenon DEF ControlFields
      <3>2. /\ (control.urlChanged \/ r = "find") \in BOOLEAN
            /\ (control.seek \/ r = "seek") \in BOOLEAN
        BY Zenon
      <3>3. (IF r \in {"pause", "resume"} THEN r ELSE control.pause)
              \in {"same", "pause", "resume"}
        BY <2>1 DEF ControlFields
      <3>4. control' \in ControlFields
        BY <2>2, <3>1, <3>2, <3>3, Zenon DEF FieldChanged
      <3>5. control'.loadable = control.loadable
        BY <2>1, <2>2 DEF FieldChanged, ControlFields
      <3> QED
        BY <3>4, <3>5
    <2> QED
      BY <2>1, <2>2 DEF Frame
  <1>2. /\ m_media' = m_media /\ m_urlChanged' \in BOOLEAN
        /\ {m_startTime', m_restartTime'} \subseteq 0 .. MaxTime /\ m_stopTime' \in -1 .. MaxTime
    <2>1. CASE UNCHANGED node
      BY <2>1 DEF IInv, TypeOK, node
    <2>2. ASSUME NEW r \in Requests, NEW v \in 0 .. MaxTime, FieldChanged(r, v)
          PROVE  /\ m_urlChanged' \in BOOLEAN
                 /\ {m_startTime', m_restartTime'} \subseteq 0 .. MaxTime
                 /\ m_stopTime' \in -1 .. MaxTime
      BY <2>2, NodeAssumption DEF IInv, TypeOK, FieldChanged
    <2> QED
      BY <2>1, <2>2 DEF Frame, node
  <1>3. MediaTypeOK' /\ PlacesOK' /\ NodesOK' /\ \A m \in Media : MediumOK(m)'
    <2>1. /\ at[Loop] \notin Calling /\ "compose" \in LoopPlaces \ Calling
          /\ at' = [at EXCEPT ![Loop] = "compose"]
      BY DEF Frame, Goto, LoopPlaces, Calling
    <2> QED
      BY <1>1, <1>2, <2>1, LoopMoves, Typed DEF Frame, objects, history
  <1>4. /\ now' \in 0 .. MaxTime /\ t' \in 0 .. now' /\ wake' \in {CANCELED} \cup 1 .. FOREVER
        /\ request' \in BOOLEAN /\ requests' \in 0 .. MaxRequests
    BY DEF IInv, TypeOK, Frame
  <1> QED
    BY <1>1, <1>2, <1>3, <1>4 DEF IInv, TypeOK

\* The loop decides how long to sleep.
LEMMA DecideStep ==
  ASSUME IInv, Decide
  PROVE  IInv'
  <1>1. getWakeupTime(now) \in {CANCELED} \cup 1 .. FOREVER
    BY NodeAssumption DEF IInv, TypeOK, getWakeupTime, CANCELED, FOREVER
  <1>2. /\ now' \in 0 .. MaxTime /\ t' \in 0 .. now' /\ wake' \in {CANCELED} \cup 1 .. FOREVER
    BY <1>1, NodeAssumption DEF IInv, TypeOK, Decide
  <1>3. windows' \in [Media -> SUBSET WindowKinds]
    <2>1. \/ windows' = windows
          \/ m_media # 0 /\ windows' = [windows EXCEPT ![m_media] = @ \cup {"passed"}]
      BY DEF Decide, Met
    <2>2. ASSUME NEW m \in Media, windows' = [windows EXCEPT ![m] = @ \cup {"passed"}]
          PROVE  windows' \in [Media -> SUBSET WindowKinds]
      BY <2>2, Typed, Zenon DEF WindowKinds
    <2> QED
      BY <2>1, <2>2, Typed
  <1>4. MediaTypeOK' /\ PlacesOK' /\ NodesOK' /\ \A m \in Media : MediumOK(m)'
    <2>1. /\ at[Loop] \notin Calling /\ {"frame", "wait"} \subseteq LoopPlaces \ Calling
          /\ at' = [at EXCEPT ![Loop] = "frame"] \/ at' = [at EXCEPT ![Loop] = "wait"]
      BY DEF Decide, Goto, LoopPlaces, Calling
    <2> QED
      BY <1>3, <2>1, LoopMoves, Typed DEF Decide, objects, canvas, node
  <1> QED
    BY <1>2, <1>4 DEF IInv, TypeOK, Decide, node, inputs

\* The loop goes to sleep or goes on.
LEMMA SleepStep ==
  ASSUME IInv, Wait \/ Resume
  PROVE  IInv'
  <1>1. MediaTypeOK' /\ PlacesOK' /\ NodesOK' /\ \A m \in Media : MediumOK(m)'
    <2>1. /\ at[Loop] \notin Calling /\ {"frame", "asleep"} \subseteq LoopPlaces \ Calling
          /\ at' = [at EXCEPT ![Loop] = "frame"] \/ at' = [at EXCEPT ![Loop] = "asleep"]
      BY DEF Wait, Resume, Goto, LoopPlaces, Calling
    <2> QED
      BY <2>1, LoopMoves, Typed DEF Wait, Resume, objects, history, node
  <1>2. /\ now' \in 0 .. MaxTime /\ t' \in 0 .. now' /\ wake' \in {CANCELED} \cup 1 .. FOREVER
    BY NodeAssumption DEF IInv, TypeOK, Wait, Resume, clocks
  <1> QED
    BY <1>1, <1>2 DEF IInv, TypeOK, Wait, Resume, node, inputs

\* A step that changes only the clock or the inputs, and wakes the loop.
LEMMA ClockStep ==
  ASSUME IInv, Tick \/ Request \/ UNCHANGED vars
  PROVE  IInv'
  <1>1. UNCHANGED <<media, player, at, why, msg, work, windows, m_media, control>>
    BY DEF Tick, Request, vars, mediaVars, objects, actors, history, node
  <1>2. composeAgain' \in BOOLEAN /\ asleep' \in BOOLEAN
    BY Typed DEF Tick, Request, vars, mediaVars, WakeUp
  <1>3. /\ now' \in 0 .. MaxTime /\ t' \in 0 .. now' /\ wake' \in {CANCELED} \cup 1 .. FOREVER
        /\ requests' \in 0 .. MaxRequests
    BY NodeAssumption DEF IInv, TypeOK, Tick, Request, vars, clocks, inputs
  <1>r. request' \in BOOLEAN
    BY Zenon DEF IInv, TypeOK, Tick, Request, vars, inputs
  <1>4. MediaTypeOK'
    BY <1>1, <1>2, Typed DEF MediaTypeOK
  <1>5. TypeOK'
    BY <1>1, <1>3, <1>r, <1>4 DEF IInv, TypeOK, Tick, Request, vars, node
  <1>6. PlacesOK' /\ NodesOK'
    BY <1>1 DEF IInv, PlacesOK, NodesOK, Opened
  <1>7. ASSUME NEW m \in Media PROVE MediumOK(m)'
    BY <1>1, <1>7, Untouched DEF Same
  <1> QED
    BY <1>5, <1>6, <1>7 DEF IInv

\* A medium is asked to close, and a new one is opened.
LEMMA CloseTyped ==
  ASSUME NEW f \in [Media -> MediumFields], NEW m \in Media
  PROVE  /\ close(m, f) \in [Media -> MediumFields]
         /\ opened(m, f) \in [Media -> MediumFields]
  <1>1. /\ "CLOSE" \in Messages /\ "CREATE" \in Messages /\ "OPENING" \in States
    BY DEF Messages, States
  <1>2. close(m, f) \in [Media -> MediumFields]
    BY <1>1, Zenon DEF close, MediumFields
  <1>3. opened(m, f) \in [Media -> MediumFields]
    BY <1>1, Zenon DEF opened, MediumFields
  <1> QED
    BY <1>2, <1>3

\* What becomes of the media: the one of the node may be asked to close, and one
\* that was not opened may be.
AskedToClose(m) ==
  /\ m = m_media /\ at'[m] = at[m]
  /\ media'[m].message = "CLOSE" /\ media'[m].state = media[m].state
  /\ media'[m].running = media[m].running /\ media'[m].player = media[m].player
NewlyOpened(m) ==
  /\ media[m].state = "NONE" /\ at'[m] = "test"
  /\ media'[m].message = "CREATE" /\ media'[m].state = "OPENING"
  /\ media'[m].running /\ media'[m].player = media[m].player

\* A medium that is asked to close or opened, or neither.
LEMMA OpenOrClose ==
  ASSUME IInv, NEW m \in Media, UNCHANGED <<player, msg>>, ~InClose(Loop),
         at'[Deliverer(m)] = at[Deliverer(m)], at'[Loop] \notin {"stop", "release"},
         \/ media'[m] = media[m] /\ at'[m] = at[m]
         \/ AskedToClose(m)
         \/ NewlyOpened(m)
  PROVE  MediumOK(m)'
  <1>1. CASE media'[m] = media[m] /\ at'[m] = at[m]
    BY <1>1, Untouched DEF Same
  <1>2. MediumOK(m)
    BY DEF IInv
  <1>3. CASE AskedToClose(m)
    <2>1. at[m] # "idle"
      BY <1>3, ActorFacts DEF IInv, NodesOK, Opened, AskedToClose
    <2> QED
      BY <1>2, <1>3, <2>1
      DEF AskedToClose, MediumOK, NewOK, MessageOK, Before, BeforeOK, LiveOK, PlayerGone,
          ClosedBySomebody, InClose
  <1>4. CASE NewlyOpened(m)
    <2>1. /\ at[m] = "idle" /\ msg[m] = "IDLE" /\ ~media[m].player
          /\ player[m].state = "NONE" /\ ~player[m].listened
      BY <1>2, <1>4 DEF NewlyOpened, MediumOK, NewOK
    <2> QED
      BY <1>4, <2>1
      DEF NewlyOpened, MediumOK, NewOK, MessageOK, Before, BeforeOK, LiveOK, PlayerGone
  <1> QED
    BY <1>1, <1>3, <1>4

\* The scene is left.
LEMMA LeaveStep ==
  ASSUME IInv, Leave
  PROVE  IInv'
  <1>1. at[Loop] \in {"broken", "decide"} /\ at' = [at EXCEPT ![Loop] = "left"]
    BY DEF Leave, Goto
  <1>2. media' \in [Media -> MediumFields]
    BY Typed, CloseTyped DEF Leave
  <1>3. MediaTypeOK'
    <2>1. at' \in [Actors -> Places]
      BY <1>1, Typed, ActorFacts DEF Places
    <2> QED
      BY <1>2, <2>1, Typed DEF MediaTypeOK, Leave, canvas
  <1>4. TypeOK'
    BY <1>3 DEF IInv, TypeOK, Leave, clocks, inputs
  <1>5. PlacesOK' /\ NodesOK'
    BY <1>1, Typed, ActorFacts
    DEF IInv, PlacesOK, NodesOK, Opened, Leave, LoopPlaces, Calling
  <1>6. ASSUME NEW m \in Media PROVE MediumOK(m)'
    <2>1. /\ at'[m] = at[m] /\ at'[Deliverer(m)] = at[Deliverer(m)] /\ at'[Loop] = "left"
      BY <1>1, <1>6, Typed, ActorFacts
    <2>2. media'[m] = media[m] \/ AskedToClose(m)
      BY <1>6, <2>1, Typed DEF Leave, close, AskedToClose, MediumFields
    <2> QED
      BY <1>1, <1>6, <2>1, <2>2, OpenOrClose DEF Leave, InClose
  <1> QED
    BY <1>4, <1>5, <1>6 DEF IInv

\* The nodes are composed: a medium may be closed and another opened.
LEMMA ComposeStep ==
  ASSUME IInv, Compose
  PROVE  IInv'
  <1> DEFINE kept == IF m_urlChanged THEN 0 ELSE m_media
             opens == kept = 0 /\ Due
             closes == m_media # 0 /\ (m_urlChanged \/ Over)
             new == CHOOSE m \in Media : media[m].state = "NONE"
             after == IF closes THEN close(m_media, media) ELSE media
             started == IF opens THEN [at EXCEPT ![new] = "test"] ELSE at
             found == IF control.urlChanged THEN m_media' ELSE control.loadable
  <1>1. /\ at[Loop] = "compose" /\ m_urlChanged' = FALSE
        /\ \/ opens /\ m_media' = new /\ m_startTime' = m_restartTime /\ media' = opened(new, after)
           \/ ~opens /\ m_media' \in {0, m_media} /\ media' = after /\ m_startTime' = m_startTime
        /\ Control(found, started)
        /\ UNCHANGED <<player, why, msg, canvas, windows, clocks, m_restartTime, m_stopTime,
                       inputs>>
    BY DEF Compose
  <1>2. opens => new \in Media /\ media[new].state = "NONE" /\ new # m_media /\ at[new] = "idle"
    <2>1. ASSUME opens PROVE \E m \in Media : media[m].state = "NONE"
      BY <2>1 DEF Compose, Full
    <2>2. opens => new \in Media /\ media[new].state = "NONE"
      BY <2>1
    <2>3. opens => at[new] = "idle"
      BY <2>2 DEF IInv, MediumOK, NewOK
    <2> QED
      BY <2>2, <2>3, ActorFacts DEF IInv, NodesOK, Opened
  <1>3. after \in [Media -> MediumFields] /\ (closes => m_media \in Media)
    BY Typed, CloseTyped
  <1>4. media' \in [Media -> MediumFields]
    BY <1>1, <1>2, <1>3, CloseTyped
  <1>5. found \in Media \cup {0} /\ m_media' \in Media \cup {0}
    BY <1>1, <1>2, Typed
  <1>6. /\ at' \in [Actors -> Places] /\ at'[Loop] \in {"seek", "sought", "decide"}
        /\ \A a \in Actors \ {Loop} : at'[a] = started[a]
    BY <1>1, <1>2, Typed, ActorFacts DEF Control, Places
  <1>7. control' \in ControlFields
    <2>1. control \in ControlFields
      BY DEF IInv, TypeOK
    <2>2. ASSUME NEW l \in Media \cup {0}, NEW u \in BOOLEAN, NEW s \in BOOLEAN
          PROVE  [control EXCEPT !.urlChanged = u, !.loadable = l, !.seek = s] \in ControlFields
      BY <2>1, <2>2, Zenon DEF ControlFields
    <2>3. (control.seek /\ ~(control.seek /\ found # 0)) \in BOOLEAN
      BY Zenon
    <2>4. control' = [ control EXCEPT !.urlChanged = FALSE, !.loadable = found,
                                      !.seek = control.seek /\ ~(control.seek /\ found # 0) ]
      BY <1>1 DEF Control
    <2> QED
      BY <1>5, <2>2, <2>3, <2>4, Zenon
  <1>8. MediaTypeOK'
    BY <1>1, <1>4, <1>5, <1>6, Typed DEF MediaTypeOK, canvas, Control
  <1>9. TypeOK'
    BY <1>1, <1>5, <1>7, <1>8 DEF IInv, TypeOK, clocks, inputs
  <1>10. \A x \in Media : at'[x] = "idle" => at[x] = "idle"
    BY <1>2, <1>6, Typed, ActorFacts
  <1>11. PlacesOK'
    <2>1. at'[Loop] \in LoopPlaces /\ (at'[Loop] \in Calling => work' # 0)
      BY <1>1, <1>6, Typed, ActorFacts DEF Control, LoopPlaces, Calling
    <2>2. \A m \in Media : at'[m] \in ThreadPlaces /\ at'[Deliverer(m)] \in EventPlaces
      BY <1>2, <1>6, Typed, ActorFacts DEF ThreadPlaces
    <2> QED
      BY <2>1, <2>2 DEF PlacesOK
  <1>12. NodesOK'
    <2>1. m_media' # 0 => at'[m_media'] # "idle"
      BY <1>1, <1>2, <1>6, <1>10, Typed, ActorFacts DEF IInv, NodesOK, Opened
    <2>2. found # 0 => at'[found] # "idle"
      BY <1>5, <1>10, <2>1, Typed DEF IInv, NodesOK, Opened
    <2>3. control'.loadable = found /\ work' \in {found, 0}
      BY <1>1 DEF Control, IInv, TypeOK, ControlFields
    <2> QED
      BY <2>1, <2>2, <2>3 DEF NodesOK, Opened
  <1>13. ASSUME NEW m \in Media PROVE MediumOK(m)'
    <2>1. at'[Deliverer(m)] = at[Deliverer(m)]
      BY <1>2, <1>6, <1>13, Typed, ActorFacts
    <2>2. CASE opens /\ m = new
      <3>1. after[m] = media[m]
        BY <1>2, <1>13, <2>2, Typed DEF close
      <3>2. NewlyOpened(m)
        <4>1. media' = opened(m, after)
          BY <1>1, <2>2
        <4>2. /\ media'[m].message = "CREATE" /\ media'[m].state = "OPENING"
              /\ media'[m].running /\ media'[m].player = after[m].player
          BY <1>3, <1>13, <4>1 DEF opened, MediumFields
        <4>3. at'[m] = "test"
          BY <1>2, <1>6, <1>13, <2>2, Typed, ActorFacts
        <4> QED
          BY <1>2, <2>2, <3>1, <4>2, <4>3 DEF NewlyOpened
      <3> QED
        BY <1>1, <1>6, <1>13, <2>1, <3>2, OpenOrClose DEF InClose
    <2>3. CASE ~(opens /\ m = new)
      <3>1. at'[m] = at[m]
        BY <1>2, <1>6, <1>13, <2>3, Typed, ActorFacts
      <3>2. media'[m] = after[m]
        BY <1>1, <1>2, <1>3, <1>13, <2>3 DEF opened
      <3>3. media'[m] = media[m] \/ AskedToClose(m)
        BY <1>13, <3>1, <3>2, Typed DEF close, AskedToClose, MediumFields
      <3> QED
        BY <1>1, <1>6, <1>13, <2>1, <3>1, <3>3, OpenOrClose DEF InClose
    <2> QED
      BY <2>2, <2>3
  <1> QED
    BY <1>9, <1>11, <1>12, <1>13 DEF IInv

-----------------------------------------------------------------------------
(* The theorems.                                                           *)

\* A step of a thread, of the events or of a player.
LEMMA ThreadStep ==
  ASSUME IInv, NEW m \in Media, Threaded(m) \/ Delivered(m) \/ Unasked(m)
  PROVE  IInv'
  <1>1. UNCHANGED <<clocks, node, control, inputs>>
    BY DEF Threaded, Delivered, Unasked
  <1>2. CASE Thread(m)
    BY <1>1, <1>2, TestStep, PickStep, PostStep, CreateStep, AdvanceStep, CheckStep,
        StopStep,
       ReleaseStep, CloseDoneStep, ActorFacts DEF Thread
  <1>3. CASE Deliver(m)
    BY <1>1, <1>3, UpdateStep, StopStep, ReleaseStep, ErrorStep, ActorFacts DEF Deliver
  <1>4. CASE Incident(m)
    BY <1>1, <1>4, IncidentStep
  <1> QED
    BY <1>2, <1>3, <1>4 DEF Threaded, Delivered, Unasked

\* Every step keeps the invariant.
LEMMA NextInv == IInv /\ [Next]_vars => IInv'
  <1> SUFFICES ASSUME IInv, [Next]_vars PROVE IInv'
    OBVIOUS
  <1>1. CASE Step
    BY <1>1, FrameStep, LeaveStep, ComposeStep, ControlPauseStep, DecideStep, SleepStep,
        CalledStep
    DEF Step
  <1>2. CASE Tick \/ Request \/ UNCHANGED vars
    BY <1>2, ClockStep
  <1>3. CASE \E m \in Media : Threaded(m) \/ Delivered(m) \/ Unasked(m)
    BY <1>3, ThreadStep
  <1> QED
    BY <1>1, <1>2, <1>3 DEF Next

\* The invariant holds.
LEMMA SpecInv == Spec => []IInv
  BY InitInv, NextInv, PTL DEF Spec

\* The fields of the media, the players and the nodes are as declared, in every
\* state the code can reach.
THEOREM MediaTyped == Spec => []TypeOK
  <1>1. IInv => TypeOK
    BY DEF IInv
  <1> QED
    BY <1>1, SpecInv, PTL

\* Whatever the number of media and of things that players do unasked, a medium on
\* which nobody works has no player left: the thread, the events and the main loop
\* close it between them (run, playerUpdate, closePlayer).
THEOREM NoPlayerIsLeft == Spec => []NoPlayerLeft
  <1>1. IInv => NoPlayerLeft
    <2> SUFFICES ASSUME IInv, NEW m \in Media, Quiet(m) PROVE PlayerGone(m)
      BY DEF NoPlayerLeft
    <2>1. MediumOK(m)
      BY DEF IInv
    <2>2. CASE at[m] = "idle"
      BY <2>1, <2>2 DEF MediumOK, NewOK, PlayerGone
    <2>3. CASE at[m] = "ended"
      <3>1. ~ClosedBySomebody(m)
        BY <2>3, ActorFacts DEF ClosedBySomebody, InClose, Quiet
      <3> QED
        BY <2>1, <2>3, <3>1 DEF MediumOK, LiveOK
    <2> QED
      BY <2>2, <2>3 DEF Quiet
  <1> QED
    BY <1>1, SpecInv, PTL

===============================================================================
