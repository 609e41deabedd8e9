--------------------------- MODULE CanvasLoopProofs ---------------------------
(***************************************************************************)
(* What holds of the main loop whatever the devices, the screens and the   *)
(* bounds, in three parts.                                                 *)
(*                                                                         *)
(* Messages.  Every message sent is composed in one frame and in the order *)
(* of sending.  The composed messages, those of s_delivered when the frame *)
(* has not composed them yet, and those of s_incoming are 1, 2, .. sent; a *)
(* message that is sent extends both sides, and the two steps of a frame   *)
(* that move messages, compose and switchQueues, only shift the borders.   *)
(*                                                                         *)
(* Paints.  A scene is painted only in the size of the screen (PaintInv).  *)
(*                                                                         *)
(* Events.  They are picked in order, and presses of a device alternate    *)
(* with its releases (EventInv).                                           *)
(***************************************************************************)
EXTENDS CanvasLoop, FiniteSetTheorems, SequenceTheorems, WellFoundedInduction, TLAPS

Places == {"pick", "compose", "flush", "service", "cycle", "count", "switch", "write",
           "decide", "wait", "waiting", "check", "resize", "ended"}

QueuesOK ==
  /\ pc \in Places
  /\ sent \in Nat
  /\ s_incoming \in Seq(Nat)
  /\ s_delivered \in Seq(Nat)
  /\ composed \in Seq(Nat)

IInv == QueuesOK /\ MessagesOnceInOrder

FirstN(n) == [i \in 1..n |-> i]

-----------------------------------------------------------------------------
\* One number more.
LEMMA FirstNext ==
  ASSUME NEW n \in Nat
  PROVE  /\ FirstN(n) \in Seq(Nat)
         /\ Append(FirstN(n), n + 1) = FirstN(n + 1)
  <1>1. FirstN(n) \in Seq(Nat) /\ Len(FirstN(n)) = n
    BY DEF FirstN
  <1>2. FirstN(n + 1) \in Seq(Nat) /\ Len(FirstN(n + 1)) = n + 1
    BY DEF FirstN
  <1>3. Append(FirstN(n), n + 1) \in Seq(Nat) /\ Len(Append(FirstN(n), n + 1)) = n + 1
    BY <1>1, AppendProperties
  <1>4. ASSUME NEW i \in 1..(n + 1) PROVE Append(FirstN(n), n + 1)[i] = FirstN(n + 1)[i]
    <2>1. CASE i \in 1..n
      BY <1>1, <2>1, AppendProperties DEF FirstN
    <2>2. CASE i = n + 1
      BY <1>1, <2>2, AppendProperties DEF FirstN
    <2>3. i \in 1..n \/ i = n + 1
      OBVIOUS
    <2> QED BY <2>1, <2>2, <2>3
  <1> QED
    BY <1>1, <1>2, <1>3, <1>4, SeqEqual

\* A message at the end of the second of two sequences is at the end of both.
LEMMA AppendToConcat ==
  ASSUME NEW s \in Seq(Nat), NEW t \in Seq(Nat), NEW e \in Nat
  PROVE  s \o Append(t, e) = Append(s \o t, e)
  <1>1. <<e>> \in Seq(Nat)
    OBVIOUS
  <1>2. Append(t, e) = t \o <<e>> /\ Append(s \o t, e) = (s \o t) \o <<e>>
    BY ConcatProperties, AppendIsConcat
  <1> QED
    BY <1>1, <1>2, ConcatAssociative

-----------------------------------------------------------------------------
\* A message is sent: the composed ones stay, those to come are one more.
LEMMA Sending ==
  ASSUME IInv, sent' = sent + 1, s_incoming' = Append(s_incoming, sent + 1),
         UNCHANGED <<composed, s_delivered>>, NotComposed' = NotComposed, pc' \in Places
  PROVE  IInv'
  <1>1. QueuesOK'
    BY AppendProperties DEF IInv, QueuesOK
  <1>2. NotComposed \in Seq(Nat)
    BY DEF NotComposed, IInv, QueuesOK
  <1>3. composed \o NotComposed \in Seq(Nat)
    BY <1>2, ConcatProperties DEF IInv, QueuesOK
  <1>4. composed' \o NotComposed' \o s_incoming'
          = Append(composed \o NotComposed \o s_incoming, sent + 1)
    BY SMTT(30), <1>3, AppendToConcat DEF IInv, QueuesOK
  <1>5. composed \o NotComposed \o s_incoming = FirstN(sent)
    BY DEF IInv, MessagesOnceInOrder, FirstN
  <1>6. composed' \o NotComposed' \o s_incoming' = FirstN(sent')
    BY <1>4, <1>5, FirstNext DEF IInv, QueuesOK
  <1> QED
    BY <1>1, <1>6 DEF IInv, MessagesOnceInOrder, FirstN

\* The queues do not move, and the frame stays on its side of compose.
LEMMA Standing ==
  ASSUME IInv, UNCHANGED <<sent, s_incoming, s_delivered, composed>>,
         NotComposed' = NotComposed, pc' \in Places
  PROVE  IInv'
  BY DEF IInv, QueuesOK, MessagesOnceInOrder

\* A wake-up moves the loop from the wait to what follows it.
LEMMA Waking == ASSUME IInv, WakeUp PROVE pc' \in Places /\ (s_delivered' = s_delivered => NotComposed' = NotComposed)
  BY DEF IInv, QueuesOK, Places, WakeUp, NotComposed

-----------------------------------------------------------------------------
\* No message has been sent.
LEMMA InitIInv == Init => IInv
  <1> SUFFICES ASSUME Init PROVE IInv
    OBVIOUS
  <1>1. QueuesOK
    BY DEF Init, QueuesOK, Places
  <1>2. composed \o NotComposed \o s_incoming = <<>>
    BY DEF Init, NotComposed
  <1>3. [n \in 1..sent |-> n] = <<>>
    BY DEF Init
  <1> QED
    BY <1>1, <1>2, <1>3 DEF IInv, MessagesOnceInOrder

\* The steps that send a message: a background thread, a change of size.
LEMMA SendersKeepIInv == ASSUME IInv, Send \/ SetUpdate PROVE IInv'
  <1>1. CASE Send
    BY <1>1, Sending DEF Send, sendMessage, addToEndOfList, loop, NotComposed, IInv, QueuesOK
  <1>2. CASE SetUpdate
    BY <1>2, Sending DEF SetUpdate, loop, NotComposed, IInv, QueuesOK
  <1> QED
    BY <1>1, <1>2

\* A frame composes the delivered messages; the scene may send another one.
LEMMA ComposeKeepsIInv == ASSUME IInv, Compose PROVE IInv'
  <1>1. /\ pc = "compose" /\ pc' = "flush"
        /\ composed' = composed \o s_delivered /\ s_delivered' = s_delivered
    BY DEF Compose, Goto
  <1>2. NotComposed = s_delivered /\ NotComposed' = <<>>
    BY <1>1 DEF NotComposed
  <1>3. composed' \in Seq(Nat)
    BY <1>1, ConcatProperties DEF IInv, QueuesOK
  <1>4. composed' \o NotComposed' = composed \o NotComposed
    BY <1>1, <1>2, <1>3, ConcatEmptySeq
  <1>5. CASE sent' = sent + 1 /\ addToEndOfList
    <2>1. s_incoming' = Append(s_incoming, sent + 1)
      BY <1>5 DEF addToEndOfList
    <2>2. QueuesOK'
      BY <1>1, <1>3, <1>5, <2>1, AppendProperties DEF IInv, QueuesOK, Places
    <2>3. composed' \o s_incoming' = Append(composed' \o s_incoming, sent + 1)
      BY <1>3, <2>1, AppendToConcat DEF IInv, QueuesOK
    <2>4. composed' \o s_incoming = FirstN(sent)
      BY <1>1, <1>2 DEF IInv, MessagesOnceInOrder, FirstN
    <2>5. composed' \o NotComposed' \o s_incoming' = FirstN(sent')
      BY <1>1, <1>2, <1>4, <1>5, <2>3, <2>4, FirstNext DEF IInv, QueuesOK
    <2> QED
      BY <2>2, <2>5 DEF IInv, MessagesOnceInOrder, FirstN
  <1>6. CASE UNCHANGED <<sent, s_incoming, inputs>>
    <2>1. QueuesOK'
      BY <1>1, <1>3, <1>6 DEF IInv, QueuesOK, Places
    <2> QED
      BY <1>4, <1>6, <2>1 DEF IInv, MessagesOnceInOrder
  <1> QED
    BY <1>5, <1>6 DEF Compose

\* The queues are switched when the delivered messages have been composed.
LEMMA SwitchKeepsIInv == ASSUME IInv, switchQueues PROVE IInv'
  <1>1. /\ pc = "switch" /\ pc' = "write"
        /\ s_delivered' = s_incoming /\ s_incoming' = <<>>
        /\ UNCHANGED <<sent, composed>>
    BY DEF switchQueues, Goto
  <1>2. NotComposed = <<>> /\ NotComposed' = s_incoming
    BY <1>1 DEF NotComposed
  <1>3. QueuesOK'
    BY <1>1 DEF IInv, QueuesOK, Places
  <1>4. composed \o NotComposed = composed
    BY <1>2, ConcatEmptySeq DEF IInv, QueuesOK
  <1>5. composed \o s_incoming \in Seq(Nat)
    BY ConcatProperties DEF IInv, QueuesOK
  <1>6. composed' \o NotComposed' \o s_incoming' = composed \o s_incoming
    BY <1>1, <1>2, <1>5, ConcatEmptySeq
  <1>7. composed' \o NotComposed' \o s_incoming' = composed \o NotComposed \o s_incoming
    BY <1>4, <1>6
  <1> QED
    BY <1>1, <1>3, <1>7 DEF IInv, MessagesOnceInOrder

\* The steps that wake the loop up.
LEMMA WakersKeepIInv == ASSUME IInv, BgWake \/ UiWake \/ Released PROVE IInv'
  <1>1. WakeUp /\ UNCHANGED <<sent, s_incoming, s_delivered, composed>>
    BY DEF BgWake, UiWake, Released, messages
  <1> QED
    BY <1>1, Waking, Standing

\* The other steps of the user-interface thread and of the background threads do
\* not touch the loop.
LEMMA OthersKeepIInv ==
  ASSUME IInv,
         \/ releaseLastEvent \/ ForceUpdate \/ SetWidth \/ SetHeight \/ SetWhite \/ SetCycle \/ paint
         \/ Report \/ hideNotify \/ showNotify \/ sizeChanged \/ Load
  PROVE  IInv'
  <1>1. UNCHANGED <<pc, sent, s_incoming, s_delivered, composed>>
    BY DEF releaseLastEvent, ForceUpdate, SetWidth, SetHeight, SetWhite, SetCycle, paint, Report,
           hideNotify, showNotify, sizeChanged, Load, messages, loop
  <1>2. NotComposed' = NotComposed /\ pc' \in Places
    BY <1>1 DEF NotComposed, IInv, QueuesOK
  <1> QED
    BY <1>1, <1>2, Standing

\* The steps of the loop that move no message stay on one side of compose.
LEMMA LoopKeepsIInv ==
  ASSUME IInv,
         \/ pickEvent \/ flushGraphics \/ ServiceRepaints \/ ReadCycle \/ CountCycle
         \/ WriteAgain \/ Decide \/ Wait \/ WaitEnds \/ Check \/ Resize \/ Stop
  PROVE  IInv'
  <1>1. UNCHANGED <<sent, s_incoming, s_delivered, composed>>
    BY DEF pickEvent, flushGraphics, ServiceRepaints, ReadCycle, CountCycle, WriteAgain, Decide,
           Wait, WaitEnds, Check, Resize, Stop, messages
  <1>2. pc' \in Places
    BY DEF pickEvent, flushGraphics, ServiceRepaints, ReadCycle, CountCycle, WriteAgain, Decide,
           Wait, WaitEnds, Check, Resize, Stop, Goto, Places
  <1>3. NotComposed' = NotComposed
    BY <1>1 DEF pickEvent, flushGraphics, ServiceRepaints, ReadCycle, CountCycle, WriteAgain, Decide,
           Wait, WaitEnds, Check, Resize, Stop, Goto, NotComposed
  <1> QED
    BY <1>1, <1>2, <1>3, Standing

\* A step that changes nothing.
LEMMA StutteringKeepsIInv == ASSUME IInv, UNCHANGED vars PROVE IInv'
  BY DEF IInv, QueuesOK, MessagesOnceInOrder, NotComposed, vars

LEMMA StepKeepsIInv == IInv /\ [Next]_vars => IInv'
  <1> SUFFICES ASSUME IInv, [Next]_vars PROVE IInv'
    OBVIOUS
  <1>1. CASE Next
    BY <1>1, SendersKeepIInv, ComposeKeepsIInv, SwitchKeepsIInv, WakersKeepIInv,
       OthersKeepIInv, LoopKeepsIInv DEF Next, Ui, Loop
  <1>2. CASE UNCHANGED vars
    BY <1>2, StutteringKeepsIInv
  <1> QED
    BY <1>1, <1>2

LEMMA QueuesInvariance == Spec => []IInv
  BY InitIInv, StepKeepsIInv, PTL DEF Spec

\* Message.java:28-80: every message that sendMessage queues is seen by the nodes in
\* exactly one frame, and the frames see them in the order of sending.
THEOREM MessagesDelivered == Spec => []MessagesOnceInOrder
  <1>1. IInv => MessagesOnceInOrder
    BY DEF IInv
  <1> QED
    BY <1>1, QueuesInvariance, PTL

-----------------------------------------------------------------------------
(* The size of the scene.  forceUpdate carries a change of size to ctx, the *)
(* white screen covers the frames until then, and m_resizeCycle cannot      *)
(* reach its end between resize and flush, so that the first scene painted  *)
(* after a change is composed in the new size.                              *)

Changing  == ui \in {"width", "height", "update"}
Whitening == ui \in {"white", "cycle"}

\* m_resizeCycle and the local that increments it.
CyclesOK ==
  /\ m_resizeCycle \in 0..RESIZE_CYCLES /\ cycle \in 0..RESIZE_CYCLES
  /\ pc = "count" => m_resizeCycle < RESIZE_CYCLES /\ cycle < RESIZE_CYCLES

\* A size that the context does not have yet will be taken by resize; when the
\* white screen has had its frames, the frame at work has taken it.
SizeTaken ==
  /\ ~Changing => ctx = size \/ forceUpdate \/ (pc = "resize" /\ update)
  /\ pc = "flush" => drawn = ctx
  /\ ~Changing /\ ~Whitening /\ m_resizeCycle >= RESIZE_CYCLES =>
       /\ pc \in {"pick", "compose", "flush"} => ctx = size
       /\ pc = "resize" => ctx = size \/ update

\* The screen is white until m_resizeCycle has reached its end, and the scene
\* that is shown otherwise has the size of the screen.
WhiteKept ==
  "unreset" \notin faults =>
    /\ m_resizeCycle < RESIZE_CYCLES \/ ui = "cycle" => m_paintType = "WHITE"
    /\ ~Changing /\ ui # "white" /\ m_paintType # "WHITE" => drawn = size

PaintInv == CyclesOK /\ SizeTaken /\ WhiteKept

\* What a wake-up does to the loop is not seen by the paints.
LEMMA WakersKeepPaint == ASSUME PaintInv, BgWake \/ UiWake \/ Released PROVE PaintInv'
  <1>1. /\ UNCHANGED <<size, m_resizeCycle, m_paintType, forceUpdate, update, cycle, ctx, drawn>>
        /\ pc' = pc \/ (pc = "waiting" /\ pc' = "check")
        /\ "unreset" \in faults' <=> "unreset" \in faults
    BY DEF BgWake, UiWake, Released, WakeUp, paints
  <1>2. ui' = ui \/ (ui \in {"wake", "wakeHeld", "releaseHeld"} /\ ui' \in {"idle", "force"})
    BY DEF BgWake, UiWake, Released, uiThread
  <1> QED
    BY <1>1, <1>2 DEF PaintInv, CyclesOK, SizeTaken, WhiteKept, Changing, Whitening

\* The steps of setSize.
LEMMA ChangesKeepPaint ==
  ASSUME PaintInv,
         SetWidth \/ SetHeight \/ SetUpdate \/ SetWhite \/ SetCycle \/ sizeChanged
  PROVE  PaintInv'
  <1> USE DEF paints, flags, uiThread, loop, RESIZE_CYCLES, PaintInv, CyclesOK, SizeTaken, WhiteKept,
          Changing, Whitening
  <1>1. CASE SetWidth
    BY <1>1 DEF SetWidth
  <1>2. CASE SetHeight
    BY <1>2 DEF SetHeight
  <1>3. CASE SetUpdate
    BY <1>3 DEF SetUpdate
  <1>4. CASE SetWhite
    BY <1>4 DEF SetWhite
  <1>5. CASE SetCycle
    BY <1>5 DEF SetCycle
  <1>6. CASE sizeChanged
    BY <1>6 DEF sizeChanged
  <1> QED BY <1>1, <1>2, <1>3, <1>4, <1>5, <1>6

\* The other handlers, and what the background threads do.
LEMMA HandlersKeepPaint ==
  ASSUME PaintInv,
         releaseLastEvent \/ ForceUpdate \/ paint \/ Report \/ hideNotify \/ showNotify
         \/ Send \/ Load
  PROVE  PaintInv'
  <1> USE DEF paints, flags, uiThread, loop, RESIZE_CYCLES, PaintInv, CyclesOK, SizeTaken, WhiteKept,
          Changing, Whitening
  <1>1. CASE releaseLastEvent
    BY <1>1 DEF releaseLastEvent
  <1>2. CASE ForceUpdate
    BY <1>2 DEF ForceUpdate
  <1>3. CASE paint
    BY <1>3 DEF paint
  <1>4. CASE Report
    BY <1>4 DEF Report
  <1>5. CASE hideNotify
    BY <1>5 DEF hideNotify
  <1>6. CASE showNotify
    BY <1>6 DEF showNotify
  <1>7. CASE Send
    BY <1>7 DEF Send
  <1>8. CASE Load
    BY <1>8 DEF Load
  <1> QED BY <1>1, <1>2, <1>3, <1>4, <1>5, <1>6, <1>7, <1>8

\* The steps of a frame.
LEMMA FramesKeepPaint ==
  ASSUME PaintInv,
         pickEvent \/ Compose \/ flushGraphics \/ ServiceRepaints \/ ReadCycle
         \/ CountCycle \/ switchQueues \/ WriteAgain \/ Decide \/ Wait \/ WaitEnds
         \/ Check \/ Resize \/ Stop
  PROVE  PaintInv'
  <1> USE DEF LoopFrame, paints, flags, uiThread, Goto, RESIZE_CYCLES, PaintInv, CyclesOK, SizeTaken,
          WhiteKept, Changing, Whitening
  <1>1. CASE pickEvent
    BY <1>1 DEF pickEvent
  <1>2. CASE Compose
    BY <1>2 DEF Compose
  <1>3. CASE flushGraphics
    BY <1>3 DEF flushGraphics
  <1>4. CASE ServiceRepaints
    BY <1>4 DEF ServiceRepaints
  <1>5. CASE ReadCycle
    BY <1>5 DEF ReadCycle
  <1>6. CASE CountCycle
    <2>1. forceUpdate => forceUpdate'
      BY <1>6, Zenon DEF CountCycle
    <2>2. /\ pc = "count" /\ pc' = "switch" /\ m_resizeCycle' = cycle + 1 /\ cycle' = 0
          /\ UNCHANGED <<size, m_paintType, update, ui, ctx, drawn, faults>>
      BY <1>6 DEF CountCycle, Goto, LoopFrame, uiThread
    <2> QED
      BY <2>1, <2>2
  <1>7. CASE switchQueues
    BY <1>7 DEF switchQueues
  <1>8. CASE WriteAgain
    BY <1>8 DEF WriteAgain
  <1>9. CASE Decide
    BY <1>9 DEF Decide
  <1>10. CASE Wait
    BY <1>10 DEF Wait
  <1>11. CASE WaitEnds
    BY <1>11 DEF WaitEnds
  <1>12. CASE Check
    BY <1>12 DEF Check
  <1>13. CASE Resize
    BY <1>13 DEF Resize
  <1>14. CASE Stop
    BY <1>14 DEF Stop
  <1> QED
    BY <1>1, <1>2, <1>3, <1>4, <1>5, <1>6, <1>7, <1>8, <1>9, <1>10, <1>11, <1>12, <1>13, <1>14

LEMMA PaintInvariance == Spec => []PaintInv
  <1>1. Init => PaintInv
    BY DEF Init, PaintInv, CyclesOK, SizeTaken, WhiteKept, Changing, Whitening, RESIZE_CYCLES
  <1>2. PaintInv /\ [Next]_vars => PaintInv'
    <2> SUFFICES ASSUME PaintInv, [Next]_vars PROVE PaintInv'
      OBVIOUS
    <2>1. CASE Next
      BY <2>1, WakersKeepPaint, ChangesKeepPaint, HandlersKeepPaint, FramesKeepPaint DEF Next, Ui, Loop
    <2>2. CASE UNCHANGED vars
      BY <2>2 DEF vars, PaintInv, CyclesOK, SizeTaken, WhiteKept, Changing, Whitening
    <2> QED BY <2>1, <2>2
  <1> QED
    BY <1>1, <1>2, PTL DEF Spec

\* MyCanvas.setSize, play and flushGraphics: a paint that shows the scene shows it
\* as composed in the size of the screen, unless the loop asked for it between the
\* two halves of setSize.
THEOREM SceneFitsScreen == Spec => ScenePaintedInItsSize
  <1>1. PaintInv => (paint /\ m_paintType # "WHITE" => drawn = size \/ "unreset" \in faults)
    BY DEF PaintInv, WhiteKept, Changing, paint
  <1> QED
    BY <1>1, PaintInvariance, PTL DEF ScenePaintedInItsSize

-----------------------------------------------------------------------------
(* The events.  pickEvent moves the border between picked and m_event, and  *)
(* addEvent is the only step that changes what they hold together: it adds  *)
(* an event to the end or lets the first drag of the queue carry a later    *)
(* position.                                                                *)

Types == {"PRESSED", "DRAGGED", "RELEASED"}
Kinds == [id : Nat, device : Devices, type : Types, at : Nat]
Pages == {"idle", "wake", "wakeHeld", "release", "releaseHeld", "force", "width", "height",
          "update", "white", "cycle"}

All == picked \o m_event

EventKinds ==
  /\ m_event \in Seq(Kinds) /\ picked \in Seq(Kinds) /\ reported \in Seq(Types)
  /\ m_lastEvent \in Kinds \cup {NoEvent}
  /\ down \subseteq Devices
  /\ ui \in Pages
  /\ faults \subseteq FaultKinds

\* An event has the number of its report, and its position is of a report so far.
EventNumbers ==
  /\ \A i \in 1..Len(All) : All[i].id \in 1..Len(reported) /\ All[i].at \in All[i].id..Len(reported)
  /\ m_lastEvent.id \in 0..Len(reported) /\ m_lastEvent.at \in m_lastEvent.id..Len(reported)

\* Of two presses of a device, one is followed by its release, and the devices
\* left pressed by the events are pressed, unless showNotify has to repair that yet.
PressesApart ==
  \A i, j \in 1..Len(All) :
    (/\ i < j /\ All[i].type = "PRESSED" /\ All[j].type = "PRESSED"
     /\ All[i].device = All[j].device)
      => \E k \in (i + 1)..(j - 1) : All[k].type = "RELEASED" /\ All[k].device = All[i].device
Alternate ==
  "unseen" \notin faults => PressesApart /\ (ui # "release" => Open(All) \subseteq down)

EventInv == EventKinds /\ EventNumbers /\ EventsInOrder /\ Alternate

\* A set of naturals has a smallest element.
LEMMA Smallest ==
  ASSUME NEW S, S \subseteq Nat, S # {}
  PROVE  \E m \in S : \A n \in S : m <= n
  <1> DEFINE T == {0..m : m \in S}
             R == StrictSubsetOrdering(Nat)
  <1>1. IsWellFoundedOn(R, FiniteSubsetsOf(Nat))
    BY FS_StrictSubsetOrderingWellFounded
  <1>2. T \subseteq FiniteSubsetsOf(Nat) /\ T # {}
    <2>1. ASSUME NEW m \in S PROVE 0..m \in FiniteSubsetsOf(Nat)
      <3>1. m \in Int /\ 0..m \in SUBSET Nat
        OBVIOUS
      <3>2. IsFiniteSet(0..m)
        BY <3>1, FS_Interval
      <3> QED BY <3>1, <3>2 DEF FiniteSubsetsOf
    <2> QED BY <2>1
  <1>3. PICK x \in T : \A y \in T : ~(<<y, x>> \in R)
    <2> HIDE DEF T, R
    <2> QED BY <1>1, <1>2, WFMin
  <1>4. PICK m \in S : x = 0..m
    OBVIOUS
  <1>5. ASSUME NEW n \in S, n < m PROVE FALSE
    <2>1. 0..n \in T /\ 0..n \subseteq 0..m /\ m \in 0..m /\ m \notin 0..n /\ {0..n, 0..m} \subseteq SUBSET Nat
      BY <1>5
    <2>2. <<0..n, x>> \in R
      BY <1>4, <2>1 DEF StrictSubsetOrdering
    <2> QED BY <1>3, <2>1, <2>2
  <1> QED
    BY <1>5

\* A set of places of a sequence has a last one.
LEMMA Last ==
  ASSUME NEW n \in Nat, NEW S, S \subseteq 1..n, S # {}
  PROVE  \E m \in S : \A i \in S : i <= m
  <1> DEFINE T == {n - i : i \in S}
  <1>1. T \subseteq Nat /\ T # {}
    <2>1. ASSUME NEW i \in S PROVE n - i \in Nat
      <3>1. i \in 1..n
        OBVIOUS
      <3> QED BY <3>1
    <2> QED BY <2>1
  <1>2. PICK t \in T : \A u \in T : t <= u
    <2> HIDE DEF T
    <2> QED BY <1>1, Smallest
  <1>3. PICK m \in S : t = n - m
    OBVIOUS
  <1>4. ASSUME NEW i \in S PROVE i <= m
    <2>1. n - m <= n - i
      BY <1>2, <1>3
    <2> QED BY <2>1
  <1> QED
    BY <1>4

\* What the events are together.
LEMMA Joined ==
  ASSUME NEW S, NEW p \in Seq(S), NEW q \in Seq(S)
  PROVE  /\ p \o q \in Seq(S) /\ Len(p \o q) = Len(p) + Len(q) /\ Len(p) \in Nat /\ Len(q) \in Nat
         /\ DOMAIN (p \o q) = 1..Len(p \o q) /\ DOMAIN p = 1..Len(p) /\ DOMAIN q = 1..Len(q)
         /\ \A i \in 1..Len(p) : (p \o q)[i] = p[i] /\ p[i] \in S
         /\ \A i \in 1..Len(q) : (p \o q)[Len(p) + i] = q[i] /\ q[i] \in S
         /\ \A i \in 1..Len(p \o q) : (p \o q)[i] \in S
  <1>1. /\ p \o q \in Seq(S) /\ Len(p \o q) = Len(p) + Len(q) /\ Len(p) \in Nat /\ Len(q) \in Nat
        /\ DOMAIN p = 1..Len(p) /\ DOMAIN q = 1..Len(q)
    BY ConcatProperties, LenProperties
  <1>2. DOMAIN (p \o q) = 1..Len(p \o q)
    BY <1>1, LenProperties
  <1>3. ASSUME NEW i \in 1..Len(p) PROVE (p \o q)[i] = p[i] /\ p[i] \in S
    BY <1>1, ConcatProperties, ElementOfSeq
  <1>4. ASSUME NEW i \in 1..Len(q) PROVE (p \o q)[Len(p) + i] = q[i] /\ q[i] \in S
    BY <1>1, ConcatProperties, ElementOfSeq
  <1>5. ASSUME NEW i \in 1..Len(p \o q) PROVE (p \o q)[i] \in S
    BY <1>1, ElementOfSeq
  <1> QED
    BY <1>1, <1>2, <1>3, <1>4, <1>5

\* What an event that is added to the end leaves to be released.
LEMMA OpenGrows ==
  ASSUME NEW q, NEW r, NEW n \in Nat, DOMAIN q = 1..n, Len(q) = n, DOMAIN r = 1..(n + 1), Len(r) = n + 1,
         \A i \in 1..n : r[i] = q[i]
  PROVE  /\ Open(r) \subseteq Open(q) \cup {r[n + 1].device}
         /\ r[n + 1].type = "RELEASED" => Open(r) \subseteq Open(q) \ {r[n + 1].device}
  <1> SUFFICES ASSUME NEW d \in Open(r)
               PROVE  /\ d \in Open(q) \cup {r[n + 1].device}
                      /\ r[n + 1].type = "RELEASED" => d \in Open(q) \ {r[n + 1].device}
    OBVIOUS
  <1>1. PICK i \in 1..(n + 1) : /\ r[i].device = d /\ r[i].type # "RELEASED"
                                /\ \A j \in (i + 1)..(n + 1) : r[j].device # d
    BY DEF Open
  <1>2. CASE i = n + 1
    BY <1>1, <1>2
  <1>3. CASE i # n + 1
    <2>1. i \in 1..n /\ q[i].device = d /\ q[i].type # "RELEASED"
      BY <1>1, <1>3
    <2>2. ASSUME NEW j \in (i + 1)..n PROVE q[j].device # d
      BY <1>1, <2>1
    <2>3. d \in Devices
      BY DEF Open
    <2>4. d \in Open(q)
      BY <2>1, <2>2, <2>3 DEF Open
    <2>5. n + 1 \in (i + 1)..(n + 1)
      BY <2>1
    <2> QED
      BY <1>1, <2>4, <2>5
  <1> QED
    BY <1>2, <1>3

\* A device that is not left pressed was released after its last press.
LEMMA ReleasedAfter ==
  ASSUME NEW q, NEW n \in Nat, DOMAIN q = 1..n, Len(q) = n,
         NEW i \in 1..n, q[i].device \in Devices, q[i].device \notin Open(q)
  PROVE  \E k \in i..n : q[k].device = q[i].device /\ q[k].type = "RELEASED"
  <1> DEFINE S == {k \in 1..n : k >= i /\ q[k].device = q[i].device}
  <1>1. S \subseteq 1..n /\ i \in S
    OBVIOUS
  <1>2. PICK k \in S : \A l \in S : l <= k
    <2> HIDE DEF S
    <2> QED BY <1>1, Last
  <1>3. ASSUME NEW j \in (k + 1)..n PROVE q[j].device # q[i].device
    <2>1. j \notin S
      BY <1>2
    <2> QED BY <2>1
  <1>4. q[k].type = "RELEASED"
    BY <1>2, <1>3 DEF Open
  <1> QED
    BY <1>4

\* addEvent adds an event to the end, or moves a drag that is queued.
AddedAtEnd(d, t) ==
  LET n == Len(reported) + 1
      l == Len(All)
  IN /\ Len(All') = l + 1
     /\ All'[l + 1] = [id |-> n, device |-> d, type |-> t, at |-> n]
     /\ \A i \in 1..l : All'[i] = All[i]
MovedDrag(t) ==
  LET l == Len(All)
  IN /\ t = "DRAGGED" /\ Len(All') = l
     /\ \E k \in 1..l : /\ All[k].type = "DRAGGED"
                        /\ All'[k] = [All[k] EXCEPT !.at = Len(reported) + 1]
                        /\ \A i \in 1..l : i # k => All'[i] = All[i]

\* An event with another position.
LEMMA Moved ==
  ASSUME NEW e \in Kinds, NEW n \in Nat
  PROVE  /\ [e EXCEPT !.at = n] \in Kinds
         /\ [e EXCEPT !.at = n].id = e.id /\ [e EXCEPT !.at = n].at = n
         /\ [e EXCEPT !.at = n].type = e.type /\ [e EXCEPT !.at = n].device = e.device
  BY DEF Kinds

\* What addEvent does.
LEMMA Adding ==
  ASSUME EventKinds, NEW d \in Devices, NEW t \in Types, addEvent(d, t), picked' = picked
  PROVE  /\ m_event' \in Seq(Kinds) /\ reported' \in Seq(Types) /\ Len(reported') = Len(reported) + 1
         /\ \A i \in 1..Len(reported) : reported'[i] = reported[i]
         /\ reported'[Len(reported) + 1] = t
         /\ AddedAtEnd(d, t) \/ (MovedDrag(t) /\ Drags(m_event) # {})
  <1> DEFINE n == Len(reported) + 1
             e == [id |-> n, device |-> d, type |-> t, at |-> n]
             D == Drags(m_event)
             first == CHOOSE i \in D : \A j \in D : i <= j
  <1>0. /\ m_event \in Seq(Kinds) /\ picked \in Seq(Kinds) /\ reported \in Seq(Types)
        /\ Len(reported) \in Nat /\ Len(m_event) \in Nat /\ Len(picked) \in Nat
        /\ DOMAIN m_event = 1..Len(m_event) /\ All \in Seq(Kinds)
        /\ Len(All) = Len(picked) + Len(m_event)
    BY Joined, LenProperties DEF EventKinds, All
  <1>1. /\ reported' = Append(reported, t)
        /\ m_event' = IF t = "DRAGGED" /\ D # {} THEN [m_event EXCEPT ![first].at = n] ELSE Append(m_event, e)
    BY DEF addEvent
  <1>2. e \in Kinds
    BY <1>0 DEF Kinds
  <1>3. /\ reported' \in Seq(Types) /\ Len(reported') = n /\ reported'[n] = t
        /\ \A i \in 1..Len(reported) : reported'[i] = reported[i]
    BY <1>0, <1>1, AppendProperties
  <1>4. All' = picked \o m_event'
    BY DEF All
  <1>5. CASE m_event' = Append(m_event, e)
    <2>1. /\ m_event' \in Seq(Kinds) /\ Len(m_event') = Len(m_event) + 1 /\ m_event'[Len(m_event) + 1] = e
          /\ \A i \in 1..Len(m_event) : m_event'[i] = m_event[i]
      <3> HIDE DEF e
      <3> QED BY <1>0, <1>2, <1>5, AppendProperties
    <2>2. Len(All') = Len(All) + 1
      BY <1>0, <1>4, <2>1, Joined
    <2>3. All'[Len(All) + 1] = e
      <3>1. (picked \o m_event')[Len(picked) + (Len(m_event) + 1)] = m_event'[Len(m_event) + 1]
        <4>1. Len(m_event) + 1 \in 1..Len(m_event')
          BY <1>0, <2>1
        <4> QED BY <1>0, <2>1, <4>1, Joined
      <3>2. Len(picked) + (Len(m_event) + 1) = Len(All) + 1
        BY <1>0
      <3> HIDE DEF e
      <3> QED BY <1>4, <2>1, <3>1, <3>2
    <2>4. ASSUME NEW i \in 1..Len(All) PROVE All'[i] = All[i]
      <3>1. CASE i \in 1..Len(picked)
        BY <1>0, <1>4, <2>1, <3>1, Joined DEF All
      <3>2. CASE i \notin 1..Len(picked)
        <4>1. PICK j \in 1..Len(m_event) : i = Len(picked) + j
          <5>1. i - Len(picked) \in 1..Len(m_event) /\ i = Len(picked) + (i - Len(picked))
            BY <1>0, <3>2
          <5> QED BY <5>1
        <4>2. All[i] = m_event[j]
          BY <1>0, <4>1, Joined DEF All
        <4>3. All'[i] = m_event'[j]
          <5>1. j \in 1..Len(m_event')
            BY <1>0, <2>1, <4>1
          <5> QED BY <1>0, <1>4, <2>1, <4>1, <5>1, Joined
        <4> QED BY <2>1, <4>2, <4>3
      <3> QED BY <3>1, <3>2
    <2> QED
      BY <1>3, <2>1, <2>2, <2>3, <2>4 DEF AddedAtEnd
  <1>6. CASE t = "DRAGGED" /\ D # {} /\ m_event' = [m_event EXCEPT ![first].at = n]
    <2>1. D \subseteq 1..Len(m_event) /\ D \subseteq Nat /\ \A i \in D : m_event[i].type = "DRAGGED"
      BY <1>0 DEF Drags
    <2>2. \E i \in D : \A j \in D : i <= j
      <3> HIDE DEF D
      <3> QED BY <1>6, <2>1, Smallest
    <2>3. first \in D
      <3> HIDE DEF D
      <3> QED BY <2>2
    <2> HIDE DEF first, D
    <2>4. first \in 1..Len(m_event) /\ m_event[first] \in Kinds /\ m_event[first].type = "DRAGGED"
      BY <1>0, <2>1, <2>3, ElementOfSeq
    <2> DEFINE f == [m_event[first] EXCEPT !.at = n]
    <2>5. f \in Kinds
      <3>1. n \in Nat
        BY <1>0
      <3> HIDE DEF n
      <3> QED BY <2>4, <3>1, Moved, Zenon
    <2>6. m_event' = [m_event EXCEPT ![first] = f]
      BY <1>6
    <2> HIDE DEF f
    <2>7. /\ m_event' \in Seq(Kinds) /\ Len(m_event') = Len(m_event) /\ m_event'[first] = f
          /\ \A i \in 1..Len(m_event) : i # first => m_event'[i] = m_event[i]
      BY <1>0, <2>4, <2>5, <2>6, ExceptSeq
    <2>8. Len(All') = Len(All)
      <3>1. m_event' \in Seq(Kinds) /\ Len(m_event') = Len(m_event)
        BY <2>7
      <3>2. Len(picked \o m_event') = Len(picked) + Len(m_event')
        BY <1>0, <3>1, ConcatProperties
      <3> QED BY <1>0, <1>4, <3>1, <3>2
    <2> DEFINE k == Len(picked) + first
    <2>9. k \in 1..Len(All) /\ All[k] = m_event[first] /\ All'[k] = f
      <3>1. first \in 1..Len(m_event')
        BY <2>4, <2>7
      <3>2. k \in 1..Len(All)
        BY <1>0, <2>4
      <3>3. All[k] = m_event[first]
        BY <1>0, <2>4, Joined DEF All
      <3>4. All'[k] = m_event'[first]
        BY <1>0, <1>4, <2>7, <3>1, Joined
      <3> QED BY <2>7, <3>2, <3>3, <3>4
    <2>10. ASSUME NEW i \in 1..Len(All), i # k PROVE All'[i] = All[i]
      <3>1. CASE i \in 1..Len(picked)
        BY <1>0, <1>4, <2>7, <3>1, Joined DEF All
      <3>2. CASE i \notin 1..Len(picked)
        <4>1. PICK j \in 1..Len(m_event) : i = Len(picked) + j
          <5>1. i - Len(picked) \in 1..Len(m_event) /\ i = Len(picked) + (i - Len(picked))
            BY <1>0, <3>2
          <5> QED BY <5>1
        <4>2. All[i] = m_event[j] /\ j # first
          BY <1>0, <2>10, <4>1, Joined DEF All
        <4>3. All'[i] = m_event'[j]
          <5>1. j \in 1..Len(m_event')
            BY <1>0, <2>7, <4>1
          <5> QED BY <1>0, <1>4, <2>7, <4>1, <5>1, Joined
        <4> QED BY <2>7, <4>2, <4>3
      <3> QED BY <3>1, <3>2
    <2>11. All'[k] = [All[k] EXCEPT !.at = Len(reported) + 1] /\ All[k].type = "DRAGGED"
      BY <2>4, <2>9 DEF f
    <2>12. MovedDrag(t)
      <3> HIDE DEF k
      <3> QED BY <1>6, <2>8, <2>9, <2>10, <2>11 DEF MovedDrag
    <2> QED
      BY <1>3, <1>6, <2>7, <2>12 DEF D
  <1> QED
    BY <1>1, <1>5, <1>6

\* The facts about the places of the events that the proofs below need.
LEMMA Placed ==
  ASSUME EventKinds
  PROVE  /\ All \in Seq(Kinds) /\ Len(All) \in Nat /\ DOMAIN All = 1..Len(All)
         /\ Len(reported) \in Nat /\ DOMAIN reported = 1..Len(reported)
         /\ \A i \in 1..Len(All) : All[i] \in Kinds
         /\ \A i \in 1..Len(reported) : reported[i] \in Types
  <1>1. All \in Seq(Kinds)
    BY ConcatProperties DEF EventKinds, All
  <1>2. ASSUME NEW i \in 1..Len(All) PROVE All[i] \in Kinds
    BY <1>1, ElementOfSeq
  <1>3. ASSUME NEW i \in 1..Len(reported) PROVE reported[i] \in Types
    BY ElementOfSeq DEF EventKinds
  <1>4. reported \in Seq(Types)
    BY DEF EventKinds
  <1> QED
    BY <1>1, <1>2, <1>3, <1>4, LenProperties

\* The order of the events, in terms of All.
OrderOf(all, reports) ==
  /\ \A i, j \in DOMAIN all : i < j => all[i].id < all[j].id
  /\ \A n \in DOMAIN reports : \E i \in DOMAIN all :
       /\ all[i].type = reports[n]
       /\ all[i].id = n \/ (reports[n] = "DRAGGED" /\ all[i].id < n /\ all[i].at >= n)

LEMMA InOrder == (EventsInOrder <=> OrderOf(All, reported)) /\ (EventsInOrder' <=> OrderOf(All', reported'))
  BY DEF EventsInOrder, All, OrderOf

\* An event that is added is the last one reported, or a drag that is queued has
\* its position.
LEMMA AddingKeepsOrder ==
  ASSUME EventKinds, EventKinds', EventNumbers, EventsInOrder, NEW d \in Devices, NEW t \in Types,
         addEvent(d, t), picked' = picked, m_lastEvent' = m_lastEvent
  PROVE  EventNumbers' /\ EventsInOrder'
  <1> DEFINE n == Len(reported) + 1
             l == Len(All)
             rep(m, e) == /\ e.type = reported[m]
                          /\ e.id = m \/ (reported[m] = "DRAGGED" /\ e.id < m /\ e.at >= m)
  <1>0. /\ l \in Nat /\ Len(reported) \in Nat /\ DOMAIN All = 1..l /\ DOMAIN reported = 1..Len(reported)
        /\ DOMAIN All' = 1..Len(All') /\ Len(All') \in Nat /\ DOMAIN reported' = 1..n /\ Len(reported') = n
        /\ \A i \in 1..l : All[i].id \in 1..Len(reported) /\ All[i].at \in All[i].id..Len(reported)
        /\ \A i, j \in 1..l : i < j => All[i].id < All[j].id
        /\ reported'[n] = t /\ \A m \in 1..Len(reported) : reported'[m] = reported[m]
        /\ \A i \in 1..l : All[i] \in Kinds
    <2>1. /\ DOMAIN All' = 1..Len(All') /\ Len(All') \in Nat /\ DOMAIN reported' = 1..Len(reported')
      BY Placed, LenProperties
    <2>2. Len(reported') = n /\ reported'[n] = t /\ \A m \in 1..Len(reported) : reported'[m] = reported[m]
      BY Adding
    <2> QED
      BY <2>1, <2>2, Placed, InOrder DEF EventNumbers, OrderOf
  <1>1. \A m \in 1..Len(reported) : \E i \in 1..l : rep(m, All[i])
    BY <1>0, InOrder DEF OrderOf
  <1>2. CASE AddedAtEnd(d, t)
    <2>1. /\ Len(All') = l + 1 /\ \A i \in 1..l : All'[i] = All[i]
          /\ All'[l + 1].id = n /\ All'[l + 1].at = n /\ All'[l + 1].type = t
      BY <1>2 DEF AddedAtEnd
    <2>2. ASSUME NEW i \in 1..(l + 1)
          PROVE  All'[i].id \in 1..n /\ All'[i].at \in All'[i].id..n
      <3>1. CASE i = l + 1
        BY <1>0, <2>1, <3>1
      <3>2. CASE i \in 1..l
        BY <1>0, <2>1, <3>2
      <3> QED BY <1>0, <3>1, <3>2
    <2>3. ASSUME NEW i \in 1..(l + 1), NEW j \in 1..(l + 1), i < j
          PROVE  All'[i].id < All'[j].id
      <3>1. i \in 1..l /\ All'[i].id \in 1..Len(reported)
        BY <1>0, <2>1, <2>3
      <3>2. CASE j = l + 1
        BY <1>0, <2>1, <3>1, <3>2
      <3>3. CASE j \in 1..l
        BY <1>0, <2>1, <2>3, <3>1, <3>3
      <3> QED BY <1>0, <3>2, <3>3
    <2>4. ASSUME NEW m \in 1..n
          PROVE  \E i \in 1..(l + 1) :
                   /\ All'[i].type = reported'[m]
                   /\ All'[i].id = m \/ (reported'[m] = "DRAGGED" /\ All'[i].id < m /\ All'[i].at >= m)
      <3>1. CASE m = n
        <4>1. l + 1 \in 1..(l + 1)
          BY <1>0
        <4> QED BY <1>0, <2>1, <3>1, <4>1
      <3>2. CASE m \in 1..Len(reported)
        <4>1. PICK i \in 1..l : rep(m, All[i])
          BY <1>1, <3>2
        <4>2. i \in 1..(l + 1) /\ All'[i] = All[i] /\ reported'[m] = reported[m]
          BY <1>0, <2>1, <3>2
        <4> QED BY <4>1, <4>2
      <3> QED BY <1>0, <3>1, <3>2
    <2>5. EventNumbers'
      <3>1. m_lastEvent.id \in 0..n /\ m_lastEvent.at \in m_lastEvent.id..n
        BY <1>0 DEF EventNumbers
      <3> QED BY <1>0, <2>1, <2>2, <3>1 DEF EventNumbers
    <2>6. OrderOf(All', reported')
      BY <1>0, <2>1, <2>3, <2>4 DEF OrderOf
    <2> QED
      BY <2>5, <2>6, InOrder
  <1>3. CASE MovedDrag(t)
    <2>1. PICK k \in 1..l : /\ t = "DRAGGED" /\ Len(All') = l
                            /\ All[k].type = "DRAGGED" /\ All'[k] = [All[k] EXCEPT !.at = n]
                            /\ \A i \in 1..l : i # k => All'[i] = All[i]
      BY <1>3 DEF MovedDrag
    <2>2. All'[k].id = All[k].id /\ All'[k].type = "DRAGGED" /\ All[k].type = "DRAGGED" /\ All'[k].at = n
      <3>1. All[k] \in Kinds /\ n \in Nat
        BY <1>0
      <3> QED BY <2>1, <3>1, Moved
    <2>3. ASSUME NEW i \in 1..l
          PROVE  /\ All'[i].id = All[i].id /\ All'[i].type = All[i].type
                 /\ All'[i].at \in All[i].at..n
      <3>1. All[i].id \in 1..Len(reported) /\ All[i].at \in All[i].id..Len(reported)
        BY <1>0
      <3>2. CASE i = k
        BY <1>0, <2>2, <3>1, <3>2
      <3>3. CASE i # k
        BY <1>0, <2>1, <3>1, <3>3
      <3> QED BY <3>2, <3>3
    <2>4. ASSUME NEW i \in 1..l PROVE All'[i].id \in 1..n /\ All'[i].at \in All'[i].id..n
      BY <1>0, <2>3
    <2>5. ASSUME NEW i \in 1..l, NEW j \in 1..l, i < j PROVE All'[i].id < All'[j].id
      BY <1>0, <2>3, <2>5
    <2>6. ASSUME NEW m \in 1..n
          PROVE  \E i \in 1..l :
                   /\ All'[i].type = reported'[m]
                   /\ All'[i].id = m \/ (reported'[m] = "DRAGGED" /\ All'[i].id < m /\ All'[i].at >= m)
      <3>1. CASE m = n
        <4>1. All'[k].id < n /\ All'[k].at >= n
          BY <1>0, <2>2
        <4> QED BY <1>0, <2>1, <2>2, <3>1, <4>1
      <3>2. CASE m \in 1..Len(reported)
        <4>1. PICK i \in 1..l : rep(m, All[i])
          BY <1>1, <3>2
        <4>2. /\ All'[i].id = All[i].id /\ All'[i].type = All[i].type /\ reported'[m] = reported[m]
              /\ All[i].at >= m => All'[i].at >= m
          <5>1. All[i].at \in Int /\ All'[i].at >= All[i].at /\ All'[i].at \in Int
            BY <1>0, <2>3
          <5> QED BY <1>0, <2>3, <3>2, <5>1
        <4> QED BY <4>1, <4>2
      <3> QED BY <1>0, <3>1, <3>2
    <2>7. EventNumbers'
      <3>1. m_lastEvent.id \in 0..n /\ m_lastEvent.at \in m_lastEvent.id..n
        BY <1>0 DEF EventNumbers
      <3> QED BY <1>0, <2>1, <2>4, <3>1 DEF EventNumbers
    <2>8. OrderOf(All', reported')
      BY <1>0, <2>1, <2>5, <2>6 DEF OrderOf
    <2> QED
      BY <2>7, <2>8, InOrder
  <1> QED
    BY <1>2, <1>3, Adding

\* Presses stay apart when a device is only pressed after its release.
LEMMA AddingKeepsApart ==
  ASSUME EventKinds, EventKinds', NEW d \in Devices, NEW t \in Types,
         addEvent(d, t), picked' = picked
  PROVE  /\ PressesApart /\ (t = "PRESSED" => d \notin Open(All)) => PressesApart'
         /\ Open(All') \subseteq Open(All) \cup {d}
         /\ t = "RELEASED" => Open(All') \subseteq Open(All) \ {d}
  <1> DEFINE l == Len(All)
  <1>0. /\ l \in Nat /\ DOMAIN All = 1..l /\ DOMAIN All' = 1..Len(All')
        /\ \A i \in 1..l : All[i] \in Kinds
    BY Placed, LenProperties
  <1>1. CASE AddedAtEnd(d, t)
    <2>1. /\ Len(All') = l + 1 /\ \A i \in 1..l : All'[i] = All[i]
          /\ All'[l + 1].device = d /\ All'[l + 1].type = t
      BY <1>1 DEF AddedAtEnd
    <2>2. /\ Open(All') \subseteq Open(All) \cup {d}
          /\ t = "RELEASED" => Open(All') \subseteq Open(All) \ {d}
      BY <1>0, <2>1, OpenGrows
    <2>3. ASSUME PressesApart, t = "PRESSED" => d \notin Open(All),
                 NEW i \in 1..(l + 1), NEW j \in 1..(l + 1), i < j, All'[i].type = "PRESSED",
                 All'[j].type = "PRESSED", All'[i].device = All'[j].device
          PROVE  \E k \in (i + 1)..(j - 1) : All'[k].type = "RELEASED" /\ All'[k].device = All'[i].device
      <3>1. i \in 1..l /\ All'[i] = All[i]
        BY <1>0, <2>1, <2>3
      <3>2. CASE j = l + 1
        <4>1. All[i].device = d /\ d \notin Open(All) /\ All[i].type = "PRESSED"
          BY <2>1, <2>3, <3>1, <3>2
        <4>2. PICK k \in i..l : All[k].device = d /\ All[k].type = "RELEASED"
          BY <1>0, <3>1, <4>1, ReleasedAfter
        <4>3. k \in (i + 1)..(j - 1) /\ k \in 1..l
          BY <1>0, <3>1, <3>2, <4>1, <4>2
        <4> QED BY <2>1, <3>1, <4>1, <4>2, <4>3
      <3>3. CASE j \in 1..l
        <4>1. PICK k \in (i + 1)..(j - 1) : All[k].type = "RELEASED" /\ All[k].device = All[i].device
          BY <2>1, <2>3, <3>1, <3>3 DEF PressesApart
        <4>2. k \in 1..l
          BY <1>0, <3>1, <3>3
        <4> QED BY <2>1, <3>1, <4>1, <4>2
      <3> QED BY <1>0, <3>2, <3>3
    <2>4. PressesApart /\ (t = "PRESSED" => d \notin Open(All)) => PressesApart'
      BY <2>1, <2>3 DEF PressesApart
    <2> QED BY <2>2, <2>4
  <1>2. CASE MovedDrag(t)
    <2>1. PICK k \in 1..l : /\ t = "DRAGGED" /\ Len(All') = l
                            /\ All'[k] = [All[k] EXCEPT !.at = Len(reported) + 1]
                            /\ \A i \in 1..l : i # k => All'[i] = All[i]
      BY <1>2 DEF MovedDrag
    <2>2. All'[k].device = All[k].device /\ All'[k].type = All[k].type
      <3>1. All[k] \in Kinds /\ Len(reported) + 1 \in Nat
        BY <1>0, Placed
      <3> QED BY <2>1, <3>1, Moved
    <2>3. \A i \in 1..l : All'[i].device = All[i].device /\ All'[i].type = All[i].type
      BY <2>1, <2>2
    <2>4. PressesApart => PressesApart'
      <3> SUFFICES ASSUME PressesApart, NEW i \in 1..l, NEW j \in 1..l, i < j, All'[i].type = "PRESSED",
                          All'[j].type = "PRESSED", All'[i].device = All'[j].device
                   PROVE  \E m \in (i + 1)..(j - 1) : All'[m].type = "RELEASED" /\ All'[m].device = All'[i].device
        BY <2>1 DEF PressesApart
      <3>1. PICK m \in (i + 1)..(j - 1) : All[m].type = "RELEASED" /\ All[m].device = All[i].device
        BY <2>3 DEF PressesApart
      <3>2. m \in 1..l
        BY <1>0
      <3> QED BY <2>3, <3>1, <3>2
    <2>5. Open(All') \subseteq Open(All)
      <3> SUFFICES ASSUME NEW c \in Open(All') PROVE c \in Open(All)
        OBVIOUS
      <3>1. PICK i \in 1..l : /\ All'[i].device = c /\ All'[i].type # "RELEASED" /\ c \in Devices
                              /\ \A j \in (i + 1)..l : All'[j].device # c
        BY <1>0, <2>1 DEF Open
      <3>2. ASSUME NEW j \in (i + 1)..l PROVE All[j].device # c
        <4>1. j \in 1..l
          BY <1>0
        <4> QED BY <2>3, <3>1, <4>1
      <3> QED BY <1>0, <2>3, <3>1, <3>2 DEF Open
    <2> QED BY <2>1, <2>4, <2>5
  <1> QED
    BY <1>1, <1>2, Adding

\* The report of an event, and the release that is made up.
LEMMA ReportKeepsEvents == ASSUME EventInv, Report PROVE EventInv'
  <1>1. PICK d \in Devices, t \in Types :
          /\ (t = "PRESSED") = (d \notin down)
          /\ t = "DRAGGED" => d = "mouse"
          /\ addEvent(d, t)
          /\ down' = IF t = "RELEASED" THEN down \ {d} ELSE down \cup {d}
          /\ ui' = IF t = "DRAGGED" /\ Drags(m_event) # {} THEN "wakeHeld" ELSE "wake"
    BY DEF Report, Types
  <1>2. UNCHANGED <<picked, m_lastEvent, faults>> /\ ui = "idle"
    BY DEF Report
  <1>3. EventKinds'
    <2>1. m_event' \in Seq(Kinds) /\ reported' \in Seq(Types)
      BY <1>1, <1>2, Adding DEF EventInv
    <2>2. ui' \in Pages /\ down' \subseteq Devices
      BY <1>1 DEF EventInv, EventKinds, Pages
    <2> QED BY <1>2, <2>1, <2>2 DEF EventInv, EventKinds, Kinds
  <1>4. EventNumbers' /\ EventsInOrder'
    BY <1>1, <1>2, <1>3, AddingKeepsOrder DEF EventInv
  <1>5. Alternate'
    <2> SUFFICES ASSUME "unseen" \notin faults' PROVE PressesApart' /\ Open(All') \subseteq down'
      BY DEF Alternate
    <2>1. PressesApart /\ Open(All) \subseteq down
      BY <1>2 DEF EventInv, Alternate
    <2>2. t = "PRESSED" => d \notin Open(All)
      BY <1>1, <2>1
    <2>3. PressesApart'
      BY <1>1, <1>2, <1>3, <2>1, <2>2, AddingKeepsApart DEF EventInv
    <2>4. /\ Open(All') \subseteq Open(All) \cup {d}
          /\ t = "RELEASED" => Open(All') \subseteq Open(All) \ {d}
      BY <1>1, <1>2, <1>3, AddingKeepsApart DEF EventInv
    <2>5. Open(All') \subseteq down'
      <3>1. CASE t = "RELEASED"
        <4>1. down' = down \ {d} /\ Open(All') \subseteq Open(All) \ {d}
          BY <1>1, <2>4, <3>1
        <4> QED BY <2>1, <4>1
      <3>2. CASE t # "RELEASED"
        <4>1. down' = down \cup {d}
          BY <1>1, <3>2
        <4> QED BY <2>1, <2>4, <4>1
      <3> QED BY <3>1, <3>2
    <2> QED BY <2>3, <2>5
  <1> QED
    BY <1>3, <1>4, <1>5 DEF EventInv

LEMMA ReleaseKeepsEvents == ASSUME EventInv, releaseLastEvent PROVE EventInv'
  <1> DEFINE seen == Open(All) \ Convertible \subseteq down
  <1>1. /\ ui = "release" /\ UNCHANGED <<m_lastEvent, down, picked>>
        /\ faults' = faults \cup IF seen THEN {} ELSE {"unseen"}
    BY DEF releaseLastEvent, All
  <1>2. CASE Convertible # {}
    <2> DEFINE d == m_lastEvent.device
    <2>1. addEvent(d, "RELEASED") /\ ui' = "releaseHeld"
      BY <1>2 DEF releaseLastEvent
    <2>2. Convertible = {d} /\ d \in Devices /\ "RELEASED" \in Types
      BY <1>2 DEF Convertible, EventInv, EventKinds, Kinds, Types, NoEvent
    <2> HIDE DEF d, seen
    <2>3. EventKinds'
      <3>1. m_event' \in Seq(Kinds) /\ reported' \in Seq(Types)
        BY <1>1, <2>1, <2>2, Adding DEF EventInv
      <3>2. ui' \in Pages /\ faults' \subseteq FaultKinds
        BY <1>1, <2>1 DEF EventInv, EventKinds, Pages, FaultKinds
      <3> QED BY <1>1, <3>1, <3>2 DEF EventInv, EventKinds, Kinds
    <2>4. EventNumbers' /\ EventsInOrder'
      BY <1>1, <2>1, <2>2, <2>3, AddingKeepsOrder DEF EventInv
    <2>5. Alternate'
      <3> SUFFICES ASSUME "unseen" \notin faults' PROVE PressesApart' /\ Open(All') \subseteq down'
        BY DEF Alternate
      <3>1. "unseen" \notin faults /\ seen
        BY <1>1
      <3>2. PressesApart' /\ Open(All') \subseteq Open(All) \ {d}
        BY <1>1, <2>1, <2>2, <2>3, <3>1, AddingKeepsApart DEF EventInv, Alternate
      <3> QED BY <1>1, <2>2, <3>1, <3>2 DEF seen
    <2> QED
      BY <2>3, <2>4, <2>5 DEF EventInv
  <1>3. CASE Convertible = {}
    <2>1. UNCHANGED <<reported, m_event>> /\ ui' = "force"
      BY <1>3 DEF releaseLastEvent
    <2>2. EventKinds'
      <3>1. ui' \in Pages /\ faults' \subseteq FaultKinds
        BY <1>1, <2>1 DEF EventInv, EventKinds, Pages, FaultKinds
      <3> QED BY <1>1, <2>1, <3>1 DEF EventInv, EventKinds, Kinds
    <2>3. EventNumbers' /\ EventsInOrder'
      BY <1>1, <2>1 DEF EventInv, EventNumbers, EventsInOrder, All
    <2>4. Alternate'
      <3> SUFFICES ASSUME "unseen" \notin faults' PROVE PressesApart' /\ Open(All') \subseteq down'
        BY DEF Alternate
      <3>1. "unseen" \notin faults /\ Open(All) \subseteq down
        BY <1>1, <1>3
      <3> QED BY <1>1, <2>1, <3>1 DEF EventInv, Alternate, PressesApart, All
    <2> QED
      BY <2>2, <2>3, <2>4 DEF EventInv
  <1> QED
    BY <1>2, <1>3

\* The steps that leave the events alone: what showNotify makes of the devices
\* is repaired by the release that follows.
LEMMA OthersKeepEvents ==
  ASSUME EventInv, UNCHANGED <<m_event, picked, reported>>, m_lastEvent' \in {m_lastEvent, NoEvent},
         ui' \in Pages, faults' \subseteq FaultKinds, faults \subseteq faults',
         \/ down' = down /\ (ui = "release" => ui' = "release")
         \/ down' \subseteq Devices /\ ui' = "release"
  PROVE  EventInv'
  <1>1. EventKinds'
    BY DEF EventInv, EventKinds, Kinds
  <1>2. EventNumbers' /\ EventsInOrder'
    <2>1. Len(reported) \in Nat
      BY LenProperties DEF EventInv, EventKinds
    <2> QED
      BY <2>1 DEF EventInv, EventNumbers, EventsInOrder, All, NoEvent
  <1>3. Alternate'
    BY SMTT(30) DEF EventInv, Alternate, PressesApart, All
  <1> QED
    BY <1>1, <1>2, <1>3 DEF EventInv

\* The loop picks the first event of the queue.
LEMMA PickKeepsEvents == ASSUME EventInv, pickEvent PROVE EventInv'
  <1>0. UNCHANGED <<ui, down, reported, faults>>
    BY DEF pickEvent, LoopFrame, uiThread
  <1>1. CASE m_event = <<>>
    <2>1. UNCHANGED <<m_event, m_lastEvent, picked>>
      BY <1>1 DEF pickEvent
    <2> QED
      BY <1>0, <2>1, OthersKeepEvents DEF EventInv, EventKinds
  <1>2. CASE m_event # <<>>
    <2>1. m_event' = Tail(m_event) /\ m_lastEvent' = Head(m_event) /\ picked' = Append(picked, Head(m_event))
      BY <1>2 DEF pickEvent
    <2>2. /\ m_event \in Seq(Kinds) /\ picked \in Seq(Kinds) /\ Head(m_event) \in Kinds
          /\ Tail(m_event) \in Seq(Kinds) /\ <<Head(m_event)>> \in Seq(Kinds)
      BY <1>2, HeadTailProperties DEF EventInv, EventKinds
    <2>3. picked' = picked \o <<Head(m_event)>> /\ m_event = <<Head(m_event)>> \o Tail(m_event)
      <3>1. Append(picked, Head(m_event)) = picked \o <<Head(m_event)>>
        BY <2>2, AppendIsConcat
      <3>2. m_event = <<Head(m_event)>> \o Tail(m_event)
        <4>1. Len(<<Head(m_event)>> \o Tail(m_event)) = 1 + Len(Tail(m_event))
          BY <2>2, ConcatProperties
        <4>2. Len(m_event) \in Nat \ {0} /\ Len(Tail(m_event)) = Len(m_event) - 1
          BY <1>2, <2>2, HeadTailProperties, EmptySeq
        <4>3. ASSUME NEW i \in 1..Len(m_event)
              PROVE  m_event[i] = (<<Head(m_event)>> \o Tail(m_event))[i]
          <5>1. CASE i = 1
            BY <2>2, <4>1, <4>2, <5>1, ConcatProperties
          <5>2. CASE i # 1
            <6>1. i - 1 \in 1..Len(Tail(m_event)) /\ i - 1 + 1 = i
              BY <4>2, <5>2
            <6>2. (<<Head(m_event)>> \o Tail(m_event))[i] = Tail(m_event)[i - 1]
              BY <2>2, <4>1, <4>2, <5>2, <6>1, ConcatProperties
            <6>3. Tail(m_event)[i - 1] = m_event[i - 1 + 1]
              BY <1>2, <2>2, <6>1, HeadTailProperties
            <6> QED BY <6>1, <6>2, <6>3
          <5> QED BY <5>1, <5>2
        <4>4. <<Head(m_event)>> \o Tail(m_event) \in Seq(Kinds)
          BY <2>2, ConcatProperties
        <4>5. Len(<<Head(m_event)>> \o Tail(m_event)) = Len(m_event)
          BY <4>1, <4>2
        <4> QED BY <2>2, <4>3, <4>4, <4>5, SeqEqual
      <3> QED BY <2>1, <3>1, <3>2
    <2>4. All' = All
      <3>1. (picked \o <<Head(m_event)>>) \o Tail(m_event) = picked \o (<<Head(m_event)>> \o Tail(m_event))
        BY <2>2, ConcatAssociative
      <3> QED BY <2>1, <2>3, <3>1 DEF All
    <2>5. EventKinds'
      <3>1. picked' \in Seq(Kinds)
        BY <2>1, <2>2, AppendProperties
      <3> QED BY <1>0, <2>1, <2>2, <3>1 DEF EventInv, EventKinds, Kinds
    <2>6. EventNumbers'
      <3>1. All[Len(picked) + 1] = Head(m_event) /\ Len(picked) + 1 \in 1..Len(All)
        <4>1. Len(m_event) \in Nat \ {0} /\ m_event[1] = Head(m_event) /\ Len(picked) \in Nat
          BY <1>2, <2>2, EmptySeq, LenProperties
        <4>2. (picked \o m_event)[Len(picked) + 1] = m_event[1]
          BY <2>2, <4>1, Joined
        <4>3. Len(picked \o m_event) = Len(picked) + Len(m_event)
          BY <2>2, ConcatProperties
        <4> QED BY <4>1, <4>2, <4>3 DEF All
      <3>2. /\ m_lastEvent'.id \in 1..Len(reported)
            /\ m_lastEvent'.at \in m_lastEvent'.id..Len(reported)
        BY <2>1, <3>1 DEF EventInv, EventNumbers
      <3>3. m_lastEvent'.id \in 0..Len(reported)
        BY <3>2
      <3> QED BY <1>0, <2>4, <3>2, <3>3 DEF EventInv, EventNumbers
    <2>7. EventsInOrder'
      BY <1>0, <2>4, InOrder DEF EventInv
    <2>8. Alternate'
      BY <1>0, <2>4 DEF EventInv, Alternate, PressesApart
    <2> QED
      BY <2>5, <2>6, <2>7, <2>8 DEF EventInv
  <1> QED
    BY <1>1, <1>2

\* The other steps of the threads.
LEMMA ThreadsKeepEvents ==
  ASSUME EventInv,
         Send \/ Load \/ BgWake \/ UiWake \/ hideNotify \/ showNotify \/ Released
         \/ ForceUpdate \/ sizeChanged \/ SetWidth \/ SetHeight \/ SetUpdate \/ SetWhite
         \/ SetCycle \/ paint
  PROVE  EventInv'
  <1>1. CASE Send
    <2>1. /\ UNCHANGED <<m_event, picked, reported>> /\ m_lastEvent' \in {m_lastEvent, NoEvent}
          /\ ui' \in Pages /\ faults' \subseteq FaultKinds /\ faults \subseteq faults'
          /\ \/ down' = down /\ (ui = "release" => ui' = "release")
             \/ down' \subseteq Devices /\ ui' = "release"
      BY <1>1 DEF Send, WakeUp, events, uiThread, EventInv, EventKinds, Pages, FaultKinds
    <2> QED BY <2>1, OthersKeepEvents
  <1>2. CASE Load
    <2>1. /\ UNCHANGED <<m_event, picked, reported>> /\ m_lastEvent' \in {m_lastEvent, NoEvent}
          /\ ui' \in Pages /\ faults' \subseteq FaultKinds /\ faults \subseteq faults'
          /\ \/ down' = down /\ (ui = "release" => ui' = "release")
             \/ down' \subseteq Devices /\ ui' = "release"
      BY <1>2 DEF Load, WakeUp, events, uiThread, EventInv, EventKinds, Pages, FaultKinds
    <2> QED BY <2>1, OthersKeepEvents
  <1>3. CASE BgWake
    <2>1. /\ UNCHANGED <<m_event, picked, reported>> /\ m_lastEvent' \in {m_lastEvent, NoEvent}
          /\ ui' \in Pages /\ faults' \subseteq FaultKinds /\ faults \subseteq faults'
          /\ \/ down' = down /\ (ui = "release" => ui' = "release")
             \/ down' \subseteq Devices /\ ui' = "release"
      BY <1>3 DEF BgWake, WakeUp, events, uiThread, EventInv, EventKinds, Pages, FaultKinds
    <2> QED BY <2>1, OthersKeepEvents
  <1>4. CASE UiWake
    <2>1. /\ UNCHANGED <<m_event, picked, reported>> /\ m_lastEvent' \in {m_lastEvent, NoEvent}
          /\ ui' \in Pages /\ faults' \subseteq FaultKinds /\ faults \subseteq faults'
          /\ \/ down' = down /\ (ui = "release" => ui' = "release")
             \/ down' \subseteq Devices /\ ui' = "release"
      BY <1>4 DEF UiWake, WakeUp, events, uiThread, EventInv, EventKinds, Pages, FaultKinds
    <2> QED BY <2>1, OthersKeepEvents
  <1>5. CASE hideNotify
    <2>1. /\ UNCHANGED <<m_event, picked, reported>> /\ m_lastEvent' \in {m_lastEvent, NoEvent}
          /\ ui' \in Pages /\ faults' \subseteq FaultKinds /\ faults \subseteq faults'
          /\ \/ down' = down /\ (ui = "release" => ui' = "release")
             \/ down' \subseteq Devices /\ ui' = "release"
      BY <1>5 DEF hideNotify, WakeUp, events, uiThread, EventInv, EventKinds, Pages, FaultKinds
    <2> QED BY <2>1, OthersKeepEvents
  <1>6. CASE showNotify
    <2>1. /\ UNCHANGED <<m_event, picked, reported>> /\ m_lastEvent' \in {m_lastEvent, NoEvent}
          /\ ui' \in Pages /\ faults' \subseteq FaultKinds /\ faults \subseteq faults'
          /\ \/ down' = down /\ (ui = "release" => ui' = "release")
             \/ down' \subseteq Devices /\ ui' = "release"
      BY <1>6 DEF showNotify, WakeUp, events, uiThread, EventInv, EventKinds, Pages, FaultKinds
    <2> QED BY <2>1, OthersKeepEvents
  <1>7. CASE Released
    <2>1. /\ UNCHANGED <<m_event, picked, reported>> /\ m_lastEvent' \in {m_lastEvent, NoEvent}
          /\ ui' \in Pages /\ faults' \subseteq FaultKinds /\ faults \subseteq faults'
          /\ \/ down' = down /\ (ui = "release" => ui' = "release")
             \/ down' \subseteq Devices /\ ui' = "release"
      BY <1>7 DEF Released, WakeUp, events, uiThread, EventInv, EventKinds, Pages, FaultKinds
    <2> QED BY <2>1, OthersKeepEvents
  <1>8. CASE ForceUpdate
    <2>1. /\ UNCHANGED <<m_event, picked, reported>> /\ m_lastEvent' \in {m_lastEvent, NoEvent}
          /\ ui' \in Pages /\ faults' \subseteq FaultKinds /\ faults \subseteq faults'
          /\ \/ down' = down /\ (ui = "release" => ui' = "release")
             \/ down' \subseteq Devices /\ ui' = "release"
      BY <1>8 DEF ForceUpdate, WakeUp, events, uiThread, EventInv, EventKinds, Pages, FaultKinds
    <2> QED BY <2>1, OthersKeepEvents
  <1>9. CASE sizeChanged
    <2>1. /\ UNCHANGED <<m_event, picked, reported>> /\ m_lastEvent' \in {m_lastEvent, NoEvent}
          /\ ui' \in Pages /\ faults' \subseteq FaultKinds /\ faults \subseteq faults'
          /\ \/ down' = down /\ (ui = "release" => ui' = "release")
             \/ down' \subseteq Devices /\ ui' = "release"
      BY <1>9 DEF sizeChanged, WakeUp, events, uiThread, EventInv, EventKinds, Pages, FaultKinds
    <2> QED BY <2>1, OthersKeepEvents
  <1>10. CASE SetWidth
    <2>1. /\ UNCHANGED <<m_event, picked, reported>> /\ m_lastEvent' \in {m_lastEvent, NoEvent}
          /\ ui' \in Pages /\ faults' \subseteq FaultKinds /\ faults \subseteq faults'
          /\ \/ down' = down /\ (ui = "release" => ui' = "release")
             \/ down' \subseteq Devices /\ ui' = "release"
      BY <1>10 DEF SetWidth, WakeUp, events, uiThread, EventInv, EventKinds, Pages, FaultKinds
    <2> QED BY <2>1, OthersKeepEvents
  <1>11. CASE SetHeight
    <2>1. /\ UNCHANGED <<m_event, picked, reported>> /\ m_lastEvent' \in {m_lastEvent, NoEvent}
          /\ ui' \in Pages /\ faults' \subseteq FaultKinds /\ faults \subseteq faults'
          /\ \/ down' = down /\ (ui = "release" => ui' = "release")
             \/ down' \subseteq Devices /\ ui' = "release"
      BY <1>11 DEF SetHeight, WakeUp, events, uiThread, EventInv, EventKinds, Pages, FaultKinds
    <2> QED BY <2>1, OthersKeepEvents
  <1>12. CASE SetUpdate
    <2>1. /\ UNCHANGED <<m_event, picked, reported>> /\ m_lastEvent' \in {m_lastEvent, NoEvent}
          /\ ui' \in Pages /\ faults' \subseteq FaultKinds /\ faults \subseteq faults'
          /\ \/ down' = down /\ (ui = "release" => ui' = "release")
             \/ down' \subseteq Devices /\ ui' = "release"
      BY <1>12 DEF SetUpdate, WakeUp, events, uiThread, EventInv, EventKinds, Pages, FaultKinds
    <2> QED BY <2>1, OthersKeepEvents
  <1>13. CASE SetWhite
    <2>1. /\ UNCHANGED <<m_event, picked, reported>> /\ m_lastEvent' \in {m_lastEvent, NoEvent}
          /\ ui' \in Pages /\ faults' \subseteq FaultKinds /\ faults \subseteq faults'
          /\ \/ down' = down /\ (ui = "release" => ui' = "release")
             \/ down' \subseteq Devices /\ ui' = "release"
      BY <1>13 DEF SetWhite, WakeUp, events, uiThread, EventInv, EventKinds, Pages, FaultKinds
    <2> QED BY <2>1, OthersKeepEvents
  <1>14. CASE SetCycle
    <2>1. /\ UNCHANGED <<m_event, picked, reported>> /\ m_lastEvent' \in {m_lastEvent, NoEvent}
          /\ ui' \in Pages /\ faults' \subseteq FaultKinds /\ faults \subseteq faults'
          /\ \/ down' = down /\ (ui = "release" => ui' = "release")
             \/ down' \subseteq Devices /\ ui' = "release"
      BY <1>14 DEF SetCycle, WakeUp, events, uiThread, EventInv, EventKinds, Pages, FaultKinds
    <2> QED BY <2>1, OthersKeepEvents
  <1>15. CASE paint
    <2>1. /\ UNCHANGED <<m_event, picked, reported>> /\ m_lastEvent' \in {m_lastEvent, NoEvent}
          /\ ui' \in Pages /\ faults' \subseteq FaultKinds /\ faults \subseteq faults'
          /\ \/ down' = down /\ (ui = "release" => ui' = "release")
             \/ down' \subseteq Devices /\ ui' = "release"
      BY <1>15 DEF paint, WakeUp, events, uiThread, EventInv, EventKinds, Pages, FaultKinds
    <2> QED BY <2>1, OthersKeepEvents
  <1> QED
    BY <1>1, <1>2, <1>3, <1>4, <1>5, <1>6, <1>7, <1>8, <1>9, <1>10, <1>11, <1>12, <1>13, <1>14, <1>15

\* The other steps of the loop do not touch what the handlers set.
LEMMA LoopKeepsEvents ==
  ASSUME EventInv,
         Compose \/ flushGraphics \/ ServiceRepaints \/ ReadCycle \/ CountCycle
         \/ switchQueues \/ WriteAgain \/ Decide \/ Wait \/ WaitEnds \/ Check \/ Resize
         \/ Stop
  PROVE  EventInv'
  <1>1. UNCHANGED <<m_event, picked, reported, m_lastEvent, ui, down>>
    BY DEF Compose, flushGraphics, ServiceRepaints, ReadCycle, CountCycle, switchQueues,
           WriteAgain, Decide, Wait, WaitEnds, Check, Resize, Stop, LoopFrame, uiThread, events
  <1>2. faults' \subseteq FaultKinds /\ faults \subseteq faults'
    BY DEF Compose, flushGraphics, ServiceRepaints, ReadCycle, CountCycle, switchQueues,
           WriteAgain, Decide, Wait, WaitEnds, Check, Resize, Stop, EventInv, EventKinds, FaultKinds
  <1> QED
    BY <1>1, <1>2, OthersKeepEvents DEF EventInv, EventKinds

\* Nothing has been reported.
LEMMA InitEvents == Init => EventInv
  <1> SUFFICES ASSUME Init PROVE EventInv
    OBVIOUS
  <1>1. m_event = <<>> /\ picked = <<>> /\ reported = <<>> /\ m_lastEvent = NoEvent
    BY DEF Init
  <1>2. All = <<>> /\ Len(All) = 0 /\ Len(reported) = 0 /\ DOMAIN All = {} /\ DOMAIN reported = {}
    BY <1>1 DEF All
  <1>3. EventKinds
    BY <1>1 DEF Init, EventKinds, Pages
  <1>4. EventNumbers
    BY <1>1, <1>2 DEF EventNumbers, NoEvent
  <1>5. EventsInOrder
    BY <1>2, InOrder DEF OrderOf
  <1>6. Alternate
    BY <1>2 DEF Alternate, PressesApart, Open
  <1> QED
    BY <1>3, <1>4, <1>5, <1>6 DEF EventInv

LEMMA EventInvariance == Spec => []EventInv
  <1>1. EventInv /\ [Next]_vars => EventInv'
    <2> SUFFICES ASSUME EventInv, [Next]_vars PROVE EventInv'
      OBVIOUS
    <2>1. CASE Next
      BY <2>1, ReportKeepsEvents, ReleaseKeepsEvents, PickKeepsEvents, ThreadsKeepEvents,
         LoopKeepsEvents DEF Next, Ui, Loop
    <2>2. CASE UNCHANGED vars
      <3>1. UNCHANGED <<m_event, picked, reported, m_lastEvent, ui, down, faults>>
        BY <2>2 DEF vars
      <3> QED BY <3>1, OthersKeepEvents DEF EventInv, EventKinds
    <2> QED BY <2>1, <2>2
  <1> QED
    BY <1>1, InitEvents, PTL DEF Spec

\* MyCanvas.addEvent and pickEvent: the loop gets the events that the platform
\* reports, in order; only a drag may be missing, whose position another one carries.
THEOREM EventsOrdered == Spec => []EventsInOrder
  <1>1. EventInv => EventsInOrder
    BY DEF EventInv
  <1> QED
    BY <1>1, EventInvariance, PTL

\* MyCanvas.hideNotify, showNotify and releaseLastEvent: two presses of a device are
\* picked with a release between them, unless the canvas is shown again while a
\* press is still queued.
THEOREM PressesReleased == Spec => []PressesAreReleased
  <1>1. EventInv => PressesAreReleased
    <2> SUFFICES ASSUME EventInv, "unseen" \notin faults, NEW i \in DOMAIN picked, NEW j \in DOMAIN picked,
                        i < j, picked[i].type = "PRESSED", picked[j].type = "PRESSED",
                        picked[i].device = picked[j].device
                 PROVE  \E k \in (i + 1)..(j - 1) :
                          picked[k].type = "RELEASED" /\ picked[k].device = picked[i].device
      BY DEF PressesAreReleased
    <2>1. picked \in Seq(Kinds) /\ m_event \in Seq(Kinds)
      BY DEF EventInv, EventKinds
    <2>2. /\ DOMAIN picked = 1..Len(picked) /\ Len(picked) \in Nat /\ Len(m_event) \in Nat
          /\ Len(All) = Len(picked) + Len(m_event)
          /\ \A k \in 1..Len(picked) : All[k] = picked[k]
      BY <2>1, Joined DEF All
    <2>3. i \in 1..Len(All) /\ j \in 1..Len(All)
      BY <2>2
    <2>4. PICK k \in (i + 1)..(j - 1) : All[k].type = "RELEASED" /\ All[k].device = All[i].device
      BY <2>2, <2>3 DEF EventInv, Alternate, PressesApart
    <2>5. k \in 1..Len(picked)
      BY <2>2
    <2> QED BY <2>2, <2>4, <2>5
  <1> QED
    BY <1>1, EventInvariance, PTL

-----------------------------------------------------------------------------
(* The kinds of the other variables.                                       *)

FlagKinds ==
  /\ isHidden \in BOOLEAN /\ composeAgain \in BOOLEAN /\ forceUpdate \in BOOLEAN
  /\ repaint \in BOOLEAN /\ loaded \in BOOLEAN /\ update \in BOOLEAN /\ again \in BOOLEAN

EvenPair(s) == DOMAIN s = {1, 2} /\ s[1] % 2 = 0 /\ s[2] % 2 = 0
ScreenKinds ==
  /\ EvenPair(size) /\ EvenPair(ctx) /\ EvenPair(drawn)
  /\ screen \in Screens
  /\ m_paintType \in {"NONE", "SCENE", "WHITE"} /\ sleep \in {"none", "timed", "forever"}

\* A message in a queue has been sent.
KnownIn(q, n) == \A i \in 1..Len(q) : q[i] \in 1..n
Known == KnownIn(s_incoming, sent) /\ KnownIn(s_delivered, sent) /\ KnownIn(composed, sent)

LoopKinds == FlagKinds /\ ScreenKinds /\ Known

\* A size becomes even.
LEMMA EvenIs == ASSUME NEW n \in Nat PROVE Even(n) % 2 = 0
  BY DEF Even

\* A screen has a width and a height.
LEMMA ScreenIs == ASSUME NEW s \in Screens PROVE s[1] \in Nat /\ s[2] \in Nat
  BY ParametersAssumption

\* One side of a size is set.
LEMMA SideSet ==
  ASSUME NEW s, EvenPair(s), NEW n \in Nat, NEW i \in {1, 2}
  PROVE  EvenPair([s EXCEPT ![i] = Even(n)])
  <1>1. Even(n) % 2 = 0
    BY EvenIs
  <1> QED BY <1>1 DEF EvenPair

\* The steps keep the flags Boolean.
LEMMA StepsKeepFlags == ASSUME FlagKinds, Next PROVE FlagKinds'
  <1> USE DEF WakeUp, paints, flags, loop, LoopFrame, FlagKinds
  <1>1. CASE BgWake
    BY <1>1 DEF BgWake
  <1>2. CASE UiWake
    BY <1>2 DEF UiWake
  <1>3. CASE Released
    BY <1>3 DEF Released
  <1>4. CASE Send
    BY <1>4 DEF Send
  <1>5. CASE Load
    BY <1>5 DEF Load
  <1>6. CASE hideNotify
    BY <1>6 DEF hideNotify
  <1>7. CASE showNotify
    BY <1>7 DEF showNotify
  <1>8. CASE ForceUpdate
    BY <1>8 DEF ForceUpdate
  <1>9. CASE sizeChanged
    BY <1>9 DEF sizeChanged
  <1>10. CASE SetWidth
    BY <1>10 DEF SetWidth
  <1>11. CASE SetHeight
    BY <1>11 DEF SetHeight
  <1>12. CASE SetUpdate
    BY <1>12 DEF SetUpdate
  <1>13. CASE SetWhite
    BY <1>13 DEF SetWhite
  <1>14. CASE SetCycle
    BY <1>14 DEF SetCycle
  <1>15. CASE paint
    BY <1>15 DEF paint
  <1>16. CASE Report
    BY <1>16 DEF Report
  <1>17. CASE releaseLastEvent
    BY <1>17 DEF releaseLastEvent
  <1>18. CASE pickEvent
    BY <1>18 DEF pickEvent
  <1>19. CASE Compose
    BY <1>19 DEF Compose
  <1>20. CASE flushGraphics
    BY <1>20 DEF flushGraphics
  <1>21. CASE ServiceRepaints
    BY <1>21 DEF ServiceRepaints
  <1>22. CASE ReadCycle
    BY <1>22 DEF ReadCycle
  <1>23. CASE CountCycle
    BY <1>23 DEF CountCycle
  <1>24. CASE switchQueues
    BY <1>24 DEF switchQueues
  <1>25. CASE WriteAgain
    BY <1>25 DEF WriteAgain
  <1>26. CASE Decide
    BY <1>26 DEF Decide
  <1>27. CASE Wait
    BY <1>27 DEF Wait
  <1>28. CASE WaitEnds
    BY <1>28 DEF WaitEnds
  <1>29. CASE Check
    BY <1>29 DEF Check
  <1>30. CASE Resize
    BY <1>30 DEF Resize
  <1>31. CASE Stop
    BY <1>31 DEF Stop
  <1> QED
    BY <1>1, <1>2, <1>3, <1>4, <1>5, <1>6, <1>7, <1>8, <1>9, <1>10, <1>11, <1>12, <1>13, <1>14,
       <1>15, <1>16, <1>17, <1>18, <1>19, <1>20, <1>21, <1>22, <1>23, <1>24, <1>25, <1>26, <1>27,
          <1>28, <1>29, <1>30, <1>31 DEF Next, Ui, Loop

\* setSize sets one side of the size after the other, each to an even number.
LEMMA StepsKeepScreen == ASSUME ScreenKinds, Next PROVE ScreenKinds'
  <1> USE DEF paints, uiThread, loop, LoopFrame, ScreenKinds
  <1>1. CASE SetWidth
    <2>1. /\ size' = [size EXCEPT ![1] = Even(screen[1])]
          /\ UNCHANGED <<ctx, drawn, screen, m_paintType, sleep>>
      BY <1>1 DEF SetWidth, loop
    <2>2. EvenPair(size')
      BY <2>1, SideSet, ScreenIs DEF ScreenKinds
    <2> QED BY <2>1, <2>2 DEF ScreenKinds
  <1>2. CASE SetHeight
    <2>1. /\ size' = [size EXCEPT ![2] = Even(screen[2])] /\ screen' = FirstScreen
          /\ UNCHANGED <<ctx, drawn, m_paintType, sleep>>
      BY <1>2 DEF SetHeight, loop
    <2>2. EvenPair(size')
      BY <2>1, SideSet, ScreenIs DEF ScreenKinds
    <2> QED BY <2>1, <2>2, ParametersAssumption DEF ScreenKinds
  <1>3. CASE BgWake
    BY <1>3 DEF BgWake
  <1>4. CASE UiWake
    BY <1>4 DEF UiWake
  <1>5. CASE Released
    BY <1>5 DEF Released
  <1>6. CASE Send
    BY <1>6 DEF Send
  <1>7. CASE Load
    BY <1>7 DEF Load
  <1>8. CASE hideNotify
    BY <1>8 DEF hideNotify
  <1>9. CASE showNotify
    BY <1>9 DEF showNotify
  <1>10. CASE ForceUpdate
    BY <1>10 DEF ForceUpdate
  <1>11. CASE sizeChanged
    BY <1>11 DEF sizeChanged
  <1>12. CASE SetUpdate
    BY <1>12 DEF SetUpdate
  <1>13. CASE SetWhite
    BY <1>13 DEF SetWhite
  <1>14. CASE SetCycle
    BY <1>14 DEF SetCycle
  <1>15. CASE paint
    BY <1>15 DEF paint
  <1>16. CASE Report
    BY <1>16 DEF Report
  <1>17. CASE releaseLastEvent
    BY <1>17 DEF releaseLastEvent
  <1>18. CASE pickEvent
    BY <1>18 DEF pickEvent
  <1>19. CASE Compose
    BY <1>19 DEF Compose
  <1>20. CASE flushGraphics
    BY <1>20 DEF flushGraphics
  <1>21. CASE ServiceRepaints
    BY <1>21 DEF ServiceRepaints
  <1>22. CASE ReadCycle
    BY <1>22 DEF ReadCycle
  <1>23. CASE CountCycle
    BY <1>23 DEF CountCycle
  <1>24. CASE switchQueues
    BY <1>24 DEF switchQueues
  <1>25. CASE WriteAgain
    BY <1>25 DEF WriteAgain
  <1>26. CASE Decide
    BY <1>26 DEF Decide, SleepDuration
  <1>27. CASE Wait
    BY <1>27 DEF Wait
  <1>28. CASE WaitEnds
    BY <1>28 DEF WaitEnds
  <1>29. CASE Check
    BY <1>29 DEF Check
  <1>30. CASE Resize
    BY <1>30 DEF Resize
  <1>31. CASE Stop
    BY <1>31 DEF Stop
  <1> QED
    BY <1>1, <1>2, <1>3, <1>4, <1>5, <1>6, <1>7, <1>8, <1>9, <1>10, <1>11, <1>12, <1>13, <1>14,
       <1>15, <1>16, <1>17, <1>18, <1>19, <1>20, <1>21, <1>22, <1>23, <1>24, <1>25, <1>26, <1>27,
          <1>28, <1>29, <1>30, <1>31 DEF Next, Ui, Loop

\* The messages of a queue that gets the next one, or another queue, are known.
LEMMA KnownGrows ==
  ASSUME NEW q \in Seq(Nat), NEW n \in Nat, KnownIn(q, n)
  PROVE  KnownIn(q, n + 1) /\ KnownIn(Append(q, n + 1), n + 1)
  <1>1. KnownIn(q, n + 1)
    BY DEF KnownIn
  <1>2. ASSUME NEW i \in 1..Len(Append(q, n + 1)) PROVE Append(q, n + 1)[i] \in 1..(n + 1)
    <2>1. Len(q) \in Nat /\ Len(Append(q, n + 1)) = Len(q) + 1
      BY LenProperties, AppendProperties
    <2>2. CASE i = Len(q) + 1
      BY <2>1, <2>2, AppendProperties
    <2>3. CASE i \in 1..Len(q)
      BY <1>1, <2>1, <2>3, AppendProperties DEF KnownIn
    <2> QED BY <2>1, <2>2, <2>3
  <1> QED
    BY <1>1, <1>2 DEF KnownIn

LEMMA KnownJoined ==
  ASSUME NEW p \in Seq(Nat), NEW q \in Seq(Nat), NEW n \in Nat, KnownIn(p, n), KnownIn(q, n)
  PROVE  KnownIn(p \o q, n)
  <1> SUFFICES ASSUME NEW i \in 1..Len(p \o q) PROVE (p \o q)[i] \in 1..n
    BY DEF KnownIn
  <1>1. Len(p) \in Nat /\ Len(q) \in Nat /\ Len(p \o q) = Len(p) + Len(q)
    BY LenProperties, ConcatProperties
  <1>2. CASE i <= Len(p)
    BY <1>1, <1>2, ConcatProperties DEF KnownIn
  <1>3. CASE i > Len(p)
    <2>1. i - Len(p) \in 1..Len(q) /\ (p \o q)[i] = q[i - Len(p)]
      BY <1>1, <1>3, ConcatProperties
    <2> QED BY <2>1 DEF KnownIn
  <1> QED
    BY <1>1, <1>2, <1>3

LEMMA StepsKeepKnown == ASSUME QueuesOK, Known, Next PROVE Known'
  <1> USE DEF Known
  <1>1. CASE Send
    <2>1. sent' = sent + 1 /\ s_incoming' = Append(s_incoming,
       sent + 1) /\ UNCHANGED <<s_delivered, composed>>
      BY <1>1 DEF Send, sendMessage, addToEndOfList
    <2> QED BY <2>1, KnownGrows DEF QueuesOK
  <1>2. CASE SetUpdate
    <2>1. sent' = sent + 1 /\ s_incoming' = Append(s_incoming,
       sent + 1) /\ UNCHANGED <<s_delivered, composed>>
      BY <1>2 DEF SetUpdate
    <2> QED BY <2>1, KnownGrows DEF QueuesOK
  <1>3. CASE Compose
    <2>1. /\ composed' = composed \o s_delivered /\ s_delivered' = s_delivered
          /\ \/ sent' = sent + 1 /\ s_incoming' = Append(s_incoming, sent + 1)
             \/ sent' = sent /\ s_incoming' = s_incoming
      BY <1>3 DEF Compose, addToEndOfList
    <2>2. KnownIn(composed', sent) /\ composed' \in Seq(Nat)
      BY <2>1, KnownJoined, ConcatProperties DEF QueuesOK
    <2> QED BY <2>1, <2>2, KnownGrows DEF QueuesOK
  <1>4. CASE switchQueues
    <2>1. s_delivered' = s_incoming /\ s_incoming' = <<>> /\ UNCHANGED <<sent, composed>>
      BY <1>4 DEF switchQueues
    <2>2. KnownIn(<<>>, sent)
      BY DEF KnownIn
    <2> QED BY <2>1, <2>2
  <1>5. CASE BgWake \/ UiWake \/ Released \/ Load \/ hideNotify \/ showNotify \/ ForceUpdate
            \/ sizeChanged \/ SetWhite \/ SetCycle \/ paint \/ Report \/ releaseLastEvent
            \/ pickEvent \/ flushGraphics \/ ServiceRepaints \/ ReadCycle \/ CountCycle
            \/ WriteAgain \/ Decide \/ Wait \/ WaitEnds \/ Check \/ Resize \/ Stop
            \/ SetWidth \/ SetHeight
    <2>1. UNCHANGED <<sent, s_incoming, s_delivered, composed>>
      BY <1>5 DEF BgWake, UiWake, Released, Load, hideNotify, showNotify, ForceUpdate,
         sizeChanged, SetWhite, SetCycle, paint, Report, releaseLastEvent, pickEvent,
            flushGraphics, ServiceRepaints, ReadCycle, CountCycle, WriteAgain, Decide, Wait,
               WaitEnds, Check, Resize, Stop, SetWidth, SetHeight, messages
    <2> QED BY <2>1 DEF KnownIn
  <1> QED
    BY <1>1, <1>2, <1>3, <1>4, <1>5 DEF Next, Ui, Loop

\* The state of the first frame.
LEMMA InitLoopKinds == Init => LoopKinds
  <1> SUFFICES ASSUME Init PROVE LoopKinds
    OBVIOUS
  <1>1. FlagKinds
    BY DEF Init, FlagKinds
  <1>2. ScreenKinds
    <2>1. Even(screen[1]) % 2 = 0 /\ Even(screen[2]) % 2 = 0 /\ screen \in Screens
      BY EvenIs, ScreenIs, ParametersAssumption DEF Init
    <2>2. EvenPair(EvenSize(screen))
      BY <2>1 DEF EvenPair, EvenSize
    <2> QED BY <2>1, <2>2 DEF Init, ScreenKinds
  <1>3. Known
    BY DEF Init, Known, KnownIn
  <1> QED
    BY <1>1, <1>2, <1>3 DEF LoopKinds

LEMMA KindsInvariance == Spec => []LoopKinds
  <1>1. LoopKinds /\ QueuesOK /\ [Next]_vars => LoopKinds'
    <2> SUFFICES ASSUME LoopKinds, QueuesOK, [Next]_vars PROVE LoopKinds'
      OBVIOUS
    <2>1. CASE Next
      BY <2>1, StepsKeepFlags, StepsKeepScreen, StepsKeepKnown DEF LoopKinds
    <2>2. CASE UNCHANGED vars
      BY <2>2 DEF vars, LoopKinds, FlagKinds, ScreenKinds, Known, KnownIn
    <2> QED BY <2>1, <2>2
  <1>2. IInv => QueuesOK
    BY DEF IInv
  <1> QED
    BY <1>1, <1>2, InitLoopKinds, QueuesInvariance, PTL DEF Spec

\* Every variable of the loop and of its queues holds values of its kind: a size is
\* even, a count of the white frames does not pass its end, an event and a message
\* has the number of one that was reported or sent.
THEOREM TypesKept == Spec => []TypeOK
  <1>1. EventInv /\ PaintInv /\ LoopKinds /\ QueuesOK => TypeOK
    <2> SUFFICES ASSUME EventInv, PaintInv, LoopKinds, QueuesOK PROVE TypeOK
      OBVIOUS
    <2>1. ASSUME NEW e \in Range(m_event) \cup Range(picked) \cup {m_lastEvent}
          PROVE  /\ e.id \in 0..Len(reported) /\ e.at \in e.id..Len(reported)
                 /\ e.device \in Devices \cup {"none"}
                 /\ e.type \in {"NONE", "PRESSED", "DRAGGED", "RELEASED"}
      <3>1. m_event \in Seq(Kinds) /\ picked \in Seq(Kinds) /\ Len(picked) \in Nat /\ Len(m_event) \in Nat
        BY LenProperties DEF EventInv, EventKinds
      <3>2. CASE e = m_lastEvent
        BY <3>2 DEF EventInv, EventKinds, EventNumbers, Kinds, Types, NoEvent
      <3>3. CASE e \in Range(m_event) \cup Range(picked)
        <4>1. PICK i \in 1..Len(All) : e = All[i]
          <5>1. CASE e \in Range(m_event)
            <6>1. PICK j \in 1..Len(m_event) : e = m_event[j]
              BY <3>1, <5>1, LenProperties DEF Range
            <6>2. Len(picked) + j \in 1..Len(All) /\ All[Len(picked) + j] = m_event[j]
              <7>1. Len(All) = Len(picked) + Len(m_event)
                BY <3>1, ConcatProperties DEF All
              <7>2. Len(picked) + j \in 1..Len(All)
                BY <3>1, <7>1
              <7> QED BY <3>1, <7>2, Joined DEF All
            <6> QED BY <6>1, <6>2
          <5>2. CASE e \in Range(picked)
            <6>1. PICK j \in 1..Len(picked) : e = picked[j]
              BY <3>1, <5>2, LenProperties DEF Range
            <6>2. Len(All) = Len(picked) + Len(m_event)
              BY <3>1, ConcatProperties DEF All
            <6>3. j \in 1..Len(All) /\ All[j] = picked[j]
              BY <3>1, <6>2, Joined DEF All
            <6> QED BY <6>1, <6>3
          <5> QED BY <3>3, <5>1, <5>2
        <4>2. e \in Kinds
          BY <4>1, Placed DEF EventInv
        <4>3. e.id \in 1..Len(reported) /\ e.at \in e.id..Len(reported)
          BY <4>1 DEF EventInv, EventNumbers
        <4>4. e.id \in 0..Len(reported)
          BY <4>3
        <4> QED BY <4>2, <4>3, <4>4 DEF Kinds, Types
      <3> QED BY <3>2, <3>3
    <2>2. Range(s_incoming) \cup Range(s_delivered) \cup Range(composed) \subseteq 1..sent
      <3>1. /\ DOMAIN s_incoming = 1..Len(s_incoming) /\ DOMAIN s_delivered = 1..Len(s_delivered)
            /\ DOMAIN composed = 1..Len(composed)
        BY LenProperties DEF QueuesOK
      <3> QED BY <3>1 DEF Range, LoopKinds, Known, KnownIn
    <2>3. \A s \in {size, ctx, drawn} : s[1] % 2 = 0 /\ s[2] % 2 = 0
      BY DEF LoopKinds, ScreenKinds, EvenPair
    <2>4. {isHidden, composeAgain, forceUpdate, repaint, loaded, update, again} \subseteq BOOLEAN
      BY Zenon DEF LoopKinds, FlagKinds
    <2>5. /\ down \subseteq Devices /\ faults \subseteq FaultKinds /\ sent \in Nat
          /\ m_resizeCycle \in 0..RESIZE_CYCLES /\ cycle \in 0..RESIZE_CYCLES
          /\ m_paintType \in {"NONE", "SCENE", "WHITE"} /\ screen \in Screens
          /\ sleep \in {"none", "timed", "forever"}
      BY DEF EventInv, EventKinds, QueuesOK, PaintInv, CyclesOK, LoopKinds, ScreenKinds
    <2> QED
      BY <2>1, <2>2, <2>3, <2>4, <2>5 DEF TypeOK
  <1>2. IInv => QueuesOK
    BY DEF IInv
  <1> QED
    BY <1>1, <1>2, EventInvariance, PaintInvariance, KindsInvariance, QueuesInvariance, PTL
=============================================================================
