------------------------------ MODULE CanvasLoop ------------------------------
(***************************************************************************)
(* MyCanvas and Message: the main loop of the player.  The user-interface  *)
(* thread queues events, shows, hides and resizes the canvas and paints    *)
(* it; background threads send messages and load files and then wake the   *)
(* canvas up; the loop takes an event, composes the scene, has it painted, *)
(* switches the two message queues and decides whether it may sleep.       *)
(*                                                                         *)
(* composeAgain, forceUpdate, m_resizeCycle and isHidden are shared, and   *)
(* the decision to sleep is taken outside the lock of wait and notify: a   *)
(* step of the loop is one access to them.  The module covers one play of  *)
(* a scene, with pauses compiled in (MM.pause), from the first frame on.   *)
(***************************************************************************)
EXTENDS Integers, Sequences, FiniteSets, Functions

CONSTANTS
  Devices,       \* subset of {"mouse", "key"}
  Screens,       \* sizes the platform reports: <<width, height>>
  FirstScreen,   \* the one reported first
  MaxInputs      \* bound: events, messages, files, and changes of the canvas

ASSUME ParametersAssumption ==
  /\ Devices \subseteq {"mouse", "key"}
  /\ Screens \subseteq Nat \X Nat /\ FirstScreen \in Screens
  /\ MaxInputs \in Nat

RESIZE_CYCLES == 3
NoEvent == [id |-> 0, device |-> "none", type |-> "NONE", at |-> 0]

VARIABLES
  m_event,           \* the queue of events: [id, device, type, at]
  m_lastEvent,
  down,              \* the devices that are pressed, as the platform knows
  isHidden, composeAgain, forceUpdate,
  size,              \* <<m_width, m_height>>
  m_resizeCycle, m_paintType, repaint,
  s_incoming, s_delivered, \* messages, numbered as sent
  loaded,            \* a DataLoader's file is there, to be found by check
  ui, screen,        \* of the user-interface thread: place and argument
  bg,                \* of the background thread: place
  pc, update, again, cycle, sleep, \* of the loop: place and locals
  ctx, drawn,        \* the size in the context, and of the composed scene
  reported, picked, sent, composed, \* history of events and messages
  inputs,            \* counter for the bound
  faults             \* history: the windows a behaviour has met

events   == <<m_event, m_lastEvent, down, reported, picked>>
messages == <<s_incoming, s_delivered, sent, composed>>
paints   == <<size, m_resizeCycle, m_paintType, repaint>>
flags    == <<isHidden, composeAgain, forceUpdate, loaded>>
uiThread == <<ui, screen>>
loop     == <<pc, update, again, cycle, sleep, ctx, drawn>>
vars == <<m_event, m_lastEvent, down, isHidden, composeAgain, forceUpdate, size,
          m_resizeCycle, m_paintType, repaint, s_incoming, s_delivered, loaded, ui, screen,
          bg, pc, update, again, cycle, sleep, ctx, drawn, reported, picked, sent, composed,
          inputs, faults>>

\*   missed       a wake-up between the decision to sleep and the wait
\*   overwritten  composeAgain |= switchQueues() wrote over a wake-up
\*   cleared      composeAgain = false forgot the wake-up for a file that came after
\*                the check of this frame
\*   unseen       shown again while a press was still queued: its release is missing
\*   unreset      painted by the loop between the two halves of setSize
FaultKinds == {"missed", "overwritten", "cleared", "unseen", "unreset"}

\* Mutant: odd sizes are kept.
EvenKept(n) == n

\* Odd sizes are made even.
Even(n) == n + (n % 2)
EvenSize(s) == <<Even(s[1]), Even(s[2])>>

\* The canvas has been shown for the first time and the scene is started.
Init ==
  /\ m_event = <<>> /\ m_lastEvent = NoEvent /\ down = {}
  /\ isHidden = FALSE /\ composeAgain = FALSE /\ forceUpdate = TRUE
  /\ screen = FirstScreen /\ size = EvenSize(screen) /\ ctx = size /\ drawn = size
  /\ m_resizeCycle = RESIZE_CYCLES /\ m_paintType = "NONE" /\ repaint = FALSE
  /\ s_incoming = <<>> /\ s_delivered = <<>> /\ loaded = FALSE
  /\ ui = "idle" /\ bg = "idle"
  /\ pc = "pick" /\ update = TRUE /\ again = FALSE /\ cycle = 0 /\ sleep = "none"
  /\ reported = <<>> /\ picked = <<>> /\ sent = 0 /\ composed = <<>>
  /\ inputs = 0 /\ faults = {}

-----------------------------------------------------------------------------
\* The bound; nothing more comes once the play has ended.
Input == inputs < MaxInputs /\ pc # "ended" /\ inputs' = inputs + 1

(* wakeUp and sendMessage, by any thread.                                  *)

\* notify reaches the loop only when it waits.
WakeUp ==
  /\ composeAgain' = TRUE
  /\ pc' = IF pc = "waiting" THEN "check" ELSE pc
  /\ faults' = faults \cup IF pc = "wait" THEN {"missed"} ELSE {}

\* Mutant: the last message comes first.
addToStartOfList == s_incoming' = <<sent + 1>> \o s_incoming

addToEndOfList == s_incoming' = Append(s_incoming, sent + 1)

sendMessage ==
  /\ Input
  /\ sent' = sent + 1
  /\ addToEndOfList
  /\ UNCHANGED <<s_delivered, composed>>

\* A background thread: a message or a file, then wakeUp.
Send ==
  /\ bg = "idle" /\ bg' = "wake"
  /\ sendMessage
  /\ UNCHANGED <<events, paints, flags, uiThread, loop, faults>>

Load ==
  /\ bg = "idle" /\ bg' = "wake"
  /\ Input
  /\ loaded' = TRUE
  /\ UNCHANGED <<events, messages, paints, isHidden, composeAgain, forceUpdate, uiThread,
                 loop, faults>>

BgWake ==
  /\ bg = "wake" /\ bg' = "idle"
  /\ WakeUp
  /\ UNCHANGED <<events, messages, paints, isHidden, forceUpdate, loaded, uiThread, update,
                 again, cycle, sleep, ctx, drawn, inputs>>

-----------------------------------------------------------------------------
(* The user-interface thread.                                              *)

\* A drag replaces the first one queued; other events go to the end.
Drags(q) == {i \in DOMAIN q : q[i].type = "DRAGGED"}
\* Mutant: a drag is dropped when there is one already.
addEventFirstDrag(d, t) ==
  LET n == Len(reported) + 1
  IN /\ reported' = Append(reported, t)
     /\ m_event' = IF t = "DRAGGED" /\ Drags(m_event) # {} THEN m_event
                   ELSE Append(m_event, [id |-> n, device |-> d, type |-> t, at |-> n])

addEvent(d, t) ==
  LET n == Len(reported) + 1
      D == Drags(m_event)
      first == CHOOSE i \in D : \A j \in D : i <= j
  IN /\ reported' = Append(reported, t)
     /\ m_event' = IF t = "DRAGGED" /\ D # {}
                   THEN [m_event EXCEPT ![first].at = n]
                   ELSE Append(m_event, [id |-> n, device |-> d, type |-> t, at |-> n])

\* The events of a device: it is pressed, dragged about and released.
Report ==
  /\ ui = "idle" /\ ~isHidden
  /\ Input
  /\ \E d \in Devices, t \in {"PRESSED", "DRAGGED", "RELEASED"} :
       /\ (t = "PRESSED") = (d \notin down)
       /\ t = "DRAGGED" => d = "mouse"
       /\ addEvent(d, t)
       /\ down' = IF t = "RELEASED" THEN down \ {d} ELSE down \cup {d}
       /\ ui' = IF t = "DRAGGED" /\ Drags(m_event) # {} THEN "wakeHeld" ELSE "wake"
  /\ UNCHANGED <<m_lastEvent, picked, messages, paints, flags, screen, bg, loop, faults>>

\* The wakeUp that ends a handler, or one under the lock of the events.
UiWake ==
  /\ ui \in {"wake", "wakeHeld"} /\ ui' = "idle"
  /\ WakeUp
  /\ UNCHANGED <<events, messages, paints, isHidden, forceUpdate, loaded, screen, bg, update,
                 again, cycle, sleep, ctx, drawn, inputs>>

hideNotify ==
  /\ ui = "idle" /\ ~isHidden
  /\ Input
  /\ isHidden' = TRUE
  /\ UNCHANGED <<events, messages, paints, composeAgain, forceUpdate, loaded, uiThread, bg,
                 loop, faults>>

\* Mutant: the last event is not released.
showNotifyUnreleased ==
  /\ ui = "idle" /\ isHidden
  /\ isHidden' = FALSE
  /\ \E D \in SUBSET down : down' = D
  /\ repaint' = TRUE
  /\ ui' = "force"
  /\ UNCHANGED <<m_event, m_lastEvent, reported, picked, messages, size, m_resizeCycle,
                 m_paintType, composeAgain, forceUpdate, loaded, screen, bg, loop, inputs, faults>>

\* Devices may have been released meanwhile, which nobody reports.
showNotify ==
  /\ ui = "idle" /\ isHidden
  /\ isHidden' = FALSE
  /\ \E D \in SUBSET down : down' = D
  /\ repaint' = TRUE
  /\ ui' = "release"
  /\ UNCHANGED <<m_event, m_lastEvent, reported, picked, messages, size, m_resizeCycle,
                 m_paintType, composeAgain, forceUpdate, loaded, screen, bg, loop, inputs, faults>>

\* The devices that a sequence of events leaves pressed.
Open(q) == {d \in Devices : \E i \in DOMAIN q :
              /\ q[i].device = d /\ q[i].type # "RELEASED"
              /\ \A j \in (i + 1)..Len(q) : q[j].device # d}

Convertible == IF m_lastEvent.type \in {"PRESSED", "DRAGGED"} THEN {m_lastEvent.device} ELSE {}

\* releaseLastEvent: a release is made up for the last event picked.
releaseLastEvent ==
  /\ ui = "release"
  /\ IF Convertible # {}
     THEN addEvent(m_lastEvent.device, "RELEASED") /\ ui' = "releaseHeld"
     ELSE UNCHANGED <<reported, m_event>> /\ ui' = "force"
  /\ faults' = faults \cup
       IF Open(picked \o m_event) \ Convertible \subseteq down THEN {} ELSE {"unseen"}
  /\ UNCHANGED <<m_lastEvent, down, picked, messages, paints, flags, screen, bg, loop, inputs>>

Released ==
  /\ ui = "releaseHeld" /\ ui' = "force"
  /\ WakeUp
  /\ m_lastEvent' = NoEvent
  /\ UNCHANGED <<m_event, down, reported, picked, messages, paints, isHidden, forceUpdate,
                 loaded, screen, bg, update, again, cycle, sleep, ctx, drawn, inputs>>

ForceUpdate ==
  /\ ui = "force" /\ ui' = "wake"
  /\ forceUpdate' = TRUE
  /\ UNCHANGED <<events, messages, paints, isHidden, composeAgain, loaded, screen, bg, loop,
                 inputs, faults>>

\* setSize, step by step: nothing is done when the size is the same.
sizeChanged ==
  /\ ui = "idle" /\ Input
  /\ \E s \in Screens : IF s # size THEN ui' = "width" /\ screen' = s
                        ELSE ui' = "wake" /\ screen' = screen
  /\ UNCHANGED <<events, messages, paints, flags, bg, loop, faults>>

SetWidth ==
  /\ ui = "width" /\ ui' = "height"
  /\ size' = [size EXCEPT ![1] = Even(screen[1])]
  /\ UNCHANGED <<events, messages, m_resizeCycle, m_paintType, repaint, flags, screen, bg,
                 loop, inputs, faults>>

SetHeight ==
  /\ ui = "height" /\ ui' = "update"
  /\ size' = [size EXCEPT ![2] = Even(screen[2])] /\ screen' = FirstScreen
  /\ UNCHANGED <<events, messages, m_resizeCycle, m_paintType, repaint, flags, bg,
                 loop, inputs, faults>>

\* forceUpdate is set, and the message SIZE_CHANGED is sent.
SetUpdate ==
  /\ ui = "update" /\ ui' = "white"
  /\ forceUpdate' = TRUE
  /\ s_incoming' = Append(s_incoming, sent + 1) /\ sent' = sent + 1
  /\ UNCHANGED <<events, s_delivered, composed, paints, isHidden, composeAgain, loaded, screen,
                 bg, loop, inputs, faults>>

SetWhite ==
  /\ ui = "white" /\ ui' = "cycle"
  /\ m_paintType' = "WHITE" /\ repaint' = TRUE
  /\ UNCHANGED <<events, messages, size, m_resizeCycle, flags, screen, bg, loop, inputs, faults>>

\* Mutant: the white screen is not kept for some frames.
SetNoCycle ==
  /\ ui = "cycle" /\ ui' = "wake"
  /\ UNCHANGED <<events, messages, paints, flags, screen, bg, loop, inputs, faults>>

SetCycle ==
  /\ ui = "cycle" /\ ui' = "wake"
  /\ m_resizeCycle' = 0
  /\ UNCHANGED <<events, messages, size, m_paintType, repaint, flags, screen, bg, loop, inputs,
                 faults>>

\* paint, when no handler runs: NONE shows the scene, too.
paint ==
  /\ ui = "idle" /\ repaint /\ ~isHidden
  /\ repaint' = FALSE
  /\ m_paintType' = IF m_paintType = "WHITE" THEN "WHITE" ELSE "NONE"
  /\ UNCHANGED <<events, messages, size, m_resizeCycle, flags, uiThread, bg, loop, inputs, faults>>

Ui == UiWake \/ releaseLastEvent \/ Released \/ ForceUpdate \/ SetWidth \/ SetHeight \/ SetUpdate
      \/ SetWhite \/ SetCycle \/ paint

-----------------------------------------------------------------------------
(* The loop: play.                                                         *)

LoopFrame == <<uiThread, bg, inputs>>
Goto(l) == pc' = l

\* pickEvent, when nobody holds the lock of the events.
pickEvent ==
  /\ pc = "pick" /\ ui \notin {"wakeHeld", "releaseHeld"}
  /\ IF m_event = <<>> THEN UNCHANGED <<m_event, m_lastEvent, picked>>
     ELSE /\ m_event' = Tail(m_event)
          /\ m_lastEvent' = Head(m_event)
          /\ picked' = Append(picked, Head(m_event))
  /\ Goto("compose")
  /\ UNCHANGED <<LoopFrame, down, reported, messages, paints, flags, update, again, cycle,
                 sleep, ctx, drawn, faults>>

\* A file is there that the last check has not seen, and its wake-up has come.
Forgotten == composeAgain /\ loaded /\ bg = "idle"

\* composeAgain is cleared and the scene is composed: the nodes see the delivered
\* messages, may ask for another frame and may send a message.  One step: a wake-up
\* in the middle is as good as one at the end.
Compose ==
  /\ pc = "compose"
  /\ composeAgain' \in BOOLEAN
  /\ faults' = faults \cup IF Forgotten THEN {"cleared"} ELSE {}
  /\ composed' = composed \o s_delivered
  /\ \/ Input /\ sent' = sent + 1 /\ addToEndOfList
     \/ UNCHANGED <<sent, s_incoming, inputs>>
  /\ drawn' = ctx /\ update' = FALSE
  /\ Goto("flush")
  /\ UNCHANGED <<uiThread, bg, events, s_delivered, paints, isHidden, forceUpdate, loaded,
                 again, cycle, sleep, ctx>>

\* The play ends: exit, another scene, or an exception.
Stop ==
  /\ pc = "compose" /\ Goto("ended")
  /\ UNCHANGED <<LoopFrame, events, messages, paints, flags, update, again, cycle, sleep, ctx,
                 drawn, faults>>

\* flushGraphics: ask for a paint, unless the white screen is still on or nothing
\* has changed.
flushGraphics ==
  /\ pc = "flush"
  /\ IF m_resizeCycle < RESIZE_CYCLES
     THEN UNCHANGED <<m_paintType, repaint, faults>> /\ Goto("cycle")
     ELSE /\ m_paintType' = "SCENE"
          /\ \/ repaint' = TRUE /\ Goto("service")
             \/ repaint' = repaint /\ Goto("cycle")
          /\ faults' = faults \cup IF ui = "cycle" THEN {"unreset"} ELSE {}
  /\ UNCHANGED <<LoopFrame, events, messages, size, m_resizeCycle, flags, update, again, cycle,
                 sleep, ctx, drawn>>

\* serviceRepaints: wait for the paint.
ServiceRepaints ==
  /\ pc = "service" /\ (~repaint \/ isHidden)
  /\ Goto("cycle")
  /\ UNCHANGED <<LoopFrame, events, messages, paints, flags, update, again, cycle, sleep, ctx,
                 drawn, faults>>

\* m_resizeCycle++ is a read and a write.
ReadCycle ==
  /\ pc = "cycle"
  /\ IF m_resizeCycle < RESIZE_CYCLES
     THEN cycle' = m_resizeCycle /\ Goto("count")
     ELSE cycle' = cycle /\ Goto("switch")
  /\ UNCHANGED <<LoopFrame, events, messages, paints, flags, update, again, sleep, ctx, drawn, faults>>

CountCycle ==
  /\ pc = "count"
  /\ m_resizeCycle' = cycle + 1 /\ cycle' = 0
  /\ composeAgain' = TRUE
  /\ forceUpdate' = (forceUpdate \/ cycle + 1 = RESIZE_CYCLES)
  /\ Goto("switch")
  /\ UNCHANGED <<LoopFrame, events, messages, size, m_paintType, repaint, isHidden, loaded,
                 update, again, sleep, ctx, drawn, faults>>

\* composeAgain |= Message.switchQueues(): the flag is read, the queues are switched
\* (a wake-up in between is as good as one just after), and the flag is written.
switchQueues ==
  /\ pc = "switch"
  /\ s_delivered' = s_incoming /\ s_incoming' = <<>>
  /\ again' = (composeAgain \/ s_incoming # <<>>)
  /\ Goto("write")
  /\ UNCHANGED <<LoopFrame, events, sent, composed, paints, flags, update, cycle, sleep, ctx,
                 drawn, faults>>

WriteAgain ==
  /\ pc = "write"
  /\ composeAgain' = again /\ again' = FALSE
  /\ faults' = faults \cup IF composeAgain /\ ~again THEN {"overwritten"} ELSE {}
  /\ Goto("decide")
  /\ UNCHANGED <<LoopFrame, events, messages, paints, isHidden, forceUpdate, loaded, update,
                 cycle, sleep, ctx, drawn>>

\* Mutant: composeAgain is not looked at.
SleepDurationEvents ==
  IF isHidden THEN {"forever"}
  ELSE IF m_event # <<>> THEN {"none"}
  ELSE {"none", "timed", "forever"}

\* How long to sleep: the scene asks for no sleep, some time or for ever.
SleepDuration ==
  IF isHidden THEN {"forever"}
  ELSE IF composeAgain \/ m_event # <<>> THEN {"none"}
  ELSE {"none", "timed", "forever"}

Decide ==
  /\ pc = "decide"
  /\ sleep' \in SleepDuration
  /\ Goto(IF sleep' = "none" THEN "check" ELSE "wait")
  /\ UNCHANGED <<LoopFrame, events, messages, paints, flags, update, again, cycle, ctx, drawn, faults>>

Wait ==
  /\ pc = "wait" /\ Goto("waiting")
  /\ UNCHANGED <<LoopFrame, events, messages, paints, flags, update, again, cycle, sleep, ctx,
                 drawn, faults>>

WaitEnds ==
  /\ pc = "waiting" /\ sleep = "timed"
  /\ Goto("check")
  /\ UNCHANGED <<LoopFrame, events, messages, paints, flags, update, again, cycle, sleep, ctx,
                 drawn, faults>>

\* DataLoader.check, then forceUpdate is taken: nothing looks at both.
Check ==
  /\ pc = "check"
  /\ loaded' = FALSE /\ sleep' = "none"
  /\ update' = forceUpdate /\ forceUpdate' = FALSE
  /\ Goto("resize")
  /\ UNCHANGED <<LoopFrame, events, messages, paints, isHidden, composeAgain, again, cycle,
                 ctx, drawn, faults>>

Resize ==
  /\ pc = "resize"
  /\ ctx' = IF update THEN size ELSE ctx
  /\ Goto("pick")
  /\ UNCHANGED <<LoopFrame, events, messages, paints, flags, update, again, cycle, sleep, drawn, faults>>

Loop == pickEvent \/ Compose \/ flushGraphics \/ ServiceRepaints \/ ReadCycle \/ CountCycle
        \/ switchQueues \/ WriteAgain \/ Decide \/ Wait \/ WaitEnds \/ Check \/ Resize

Next == Ui \/ Report \/ hideNotify \/ showNotify \/ sizeChanged \/ Send \/ Load \/ BgWake
        \/ Loop \/ Stop

Spec == Init /\ [][Next]_vars
\* Threads are scheduled; a handler that has begun is finished.
FairSpec == Spec /\ WF_vars(Ui) /\ WF_vars(BgWake) /\ WF_vars(Loop)
-----------------------------------------------------------------------------
(* Properties.                                                             *)

Ended == pc = "ended"

\* Every variable holds values of its kind.
TypeOK ==
  /\ \A e \in Range(m_event) \cup Range(picked) \cup {m_lastEvent} :
       /\ e.id \in 0..Len(reported) /\ e.at \in e.id..Len(reported)
       /\ e.device \in Devices \cup {"none"}
       /\ e.type \in {"NONE", "PRESSED", "DRAGGED", "RELEASED"}
  /\ down \subseteq Devices
  /\ {isHidden, composeAgain, forceUpdate, repaint, loaded, update, again} \subseteq BOOLEAN
  /\ m_resizeCycle \in 0..RESIZE_CYCLES /\ m_paintType \in {"NONE", "SCENE", "WHITE"}
  /\ \A s \in {size, ctx, drawn} : s[1] % 2 = 0 /\ s[2] % 2 = 0
  /\ sent \in Nat /\ Range(s_incoming) \cup Range(s_delivered) \cup Range(composed) \subseteq 1..sent
  /\ screen \in Screens /\ cycle \in 0..RESIZE_CYCLES
  /\ sleep \in {"none", "timed", "forever"}
  /\ faults \subseteq FaultKinds

\* The events picked and those queued are the reported ones, in order; only a
\* drag may be missing, and then an earlier one carries its position or a later one.
EventsInOrder ==
  LET all == picked \o m_event IN
  /\ \A i, j \in DOMAIN all : i < j => all[i].id < all[j].id
  /\ \A n \in DOMAIN reported : \E i \in DOMAIN all :
       /\ all[i].type = reported[n]
       /\ all[i].id = n \/ (reported[n] = "DRAGGED" /\ all[i].id < n /\ all[i].at >= n)

\* A press is picked only after the release of the press before it, also when
\* the canvas was hidden in between and the release never reported.
PressesAreReleased ==
  \A i, j \in DOMAIN picked :
    (/\ i < j /\ picked[i].type = "PRESSED" /\ picked[j].type = "PRESSED"
     /\ picked[i].device = picked[j].device)
      => \/ \E k \in (i + 1)..(j - 1) : picked[k].type = "RELEASED" /\ picked[k].device = picked[i].device
         \/ "unseen" \in faults

\* Every message is composed in one frame, in the order of sending.
NotComposed == IF pc \in {"flush", "service", "cycle", "count", "switch"} THEN <<>> ELSE s_delivered
MessagesOnceInOrder == composed \o NotComposed \o s_incoming = [n \in 1..sent |-> n]

\* The scene is painted only in the size of the screen.
ScenePaintedInItsSize ==
  [][ paint /\ m_paintType # "WHITE" => drawn = size \/ "unreset" \in faults ]_vars

\* The loop waits only when the canvas is hidden or there is no activity.
PausesOnlyWhenIdle ==
  pc = "waiting" /\ ui = "idle" => isHidden \/ m_event = <<>>

\* What is asked of the loop is all done in the end, unless the canvas is hidden
\* or a wake-up got lost.
Work == m_event # <<>> \/ s_incoming # <<>> \/ s_delivered # <<>> \/ loaded \/ ctx # size
WorkIsDone ==
  Work ~> (~Work \/ isHidden \/ Ended \/ faults \cap {"missed", "overwritten", "cleared"} # {})

=============================================================================
