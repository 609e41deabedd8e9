# MeMoPlayer: specification and verification

MeMoPlayer plays compiled VRML scenes on Java phones (MIDP), on BlackBerry and,
through an adapter, on Android. A scene is a tree of nodes with scripts; the
player composes and paints it frame by frame, and loads images, texts, media and
remote data meanwhile. Nearly all of the code runs in one thread, the main loop.
What is hard to get right, and to test, is where this thread meets the others:
the user-interface thread of the phone, a thread that loads files, one that
writes the persistent store, one that runs remote calls, those of media and
connections.

This directory holds TLA+ models of these meeting points, of the scene that the
loop composes, and of the scripts from their text to their effect: the compiler, the
virtual machine and what the language means. They are translated from the source, with
the TLC configurations that check them and proofs that TLAPS checks.

Contents: 1 inventory, 2 plan, 3 modules, 4 runs, 5 bounds, 6 fairness,
7 windows of the code, 8 proofs, 9 what is not modelled, 10 how to run.

## 1. Inventory

Paths are relative to `src/java/src/memoplayer/` unless they start with `src/`.

| component | state | operations | meets | hard | correct when |
|---|---|---|---|---|---|
| Main loop and canvas: `MyCanvas`, `MiniPlayer`, `Event` | event queue, last event, size, `isHidden`, `composeAgain`, `forceUpdate`, `m_resizeCycle`, paint type | `addEvent`, `pickEvent`, `showNotify`, `hideNotify`, `sizeChanged`, `paint`, `wakeUp`, `play` | called by the phone's UI thread and by every background thread; calls scene, messages, data loaders | flags shared without a lock, sleep decided before the lock of the wait is taken, a resize in several steps | no event lost or out of order, presses released, no sleep with work to do, scene painted in its size |
| Messages: `Message` | `s_incoming`, `s_delivered` | `sendMessage`, `switchQueues`, traversal by nodes | any thread sends; nodes read while they compose | messages sent while a frame is composed | every message seen in exactly one frame, in order |
| Remote calls: `TaskQueue`, `Task`, `JsonTask`, `TaskListenerCb` | queue, table of indices, state and result of tasks, listeners | `addTask`, `runTaskNow`, `cancelTask`, `doJsonRpc`, worker `run` | script thread and worker; posts callbacks to scripts | handshake of pause and resume, cancel against start, callbacks that read shared parameters | one task at a time, none lost, added ones in order, every call returns |
| Script callbacks: `Script`, `ScriptCallback` | linked list of callbacks, pool of objects | `addCallback`, `invokeCallbacks`, `getWakeupTime` | any thread adds; the loop invokes and asks how long it may sleep | a function called back adds callbacks to the list that is walked | each invoked once, not before its time, in order, and never slept through |
| Persistent cache: `RMSCacheManager3`, `CacheManager` | record store, table of entries, queue of operations, thread | `setRecord`, `deleteRecord`, `getRecord`, `erase`, `flushRecords`, `closeAll` | script thread, writer thread, exit of the application | write-behind, records in pairs, table dropped and read again, kill between two writes | a read gives the last write, the store follows, a kill loses only what was not saved |
| File queue: `FileQueue`, `File` (queued part), `DataLoader` | queue per scene, `s_currentFile`, `s_t`, `s_quit`, request counts, blacklist | `setup`, `getFile`, `loadNext`, `startThread`, `run`, `stopThread`, `check`, `release` | loop and loading thread | statics without a lock, which outlive the application on Android | one file at a time, each wanted file loaded, each request answered |
| Time sensors: `TimeSensor` | times, started, active | `start`, `stop`, `activate`, `fieldChanged`, `getWakeupTime` | the scene they are registered in; scripts set their fields | restarts and stops set while it runs, the delayed end, a cycle of zero, times of another scene | a start is not slept through, each start has its end |
| Scenes: `Scene`, `Inline`, `Switch`, `Decoder`, `Context` | node tree, registered sensors, state of the load, own time | `start`, `stop`, `destroy`, `innerCompose`, `getSleepDuration`; load by a thread | loop, loading thread, nested scenes | state read while it is loaded, hidden and shown while it is loaded, destroy and replacement, a context shared by scenes | a scene is started exactly while it is shown and ready, an Inline does not load for ever, no sleep past what is due |
| Media: `MediaObject`, `MediaNode`, `MediaControl` | state, one-message slot, player, start and stop times | `open`, `close`, `setPause`, `setMediaTimePos`, thread `run`, `playerUpdate` | loop, a thread per medium, events of the platform | a slot that both sides overwrite, a close by three threads, waits of the loop for the player | no player left behind, a close ends the medium, a seek returns, a stop time is not slept through |
| Script calls and routes: `Script.invokeMethod`, `fieldChanged` | fields with observers, postponed calls, `m_invoking` | `initialize`, `fieldChanged`, `invokeMethod`, `invokePostponedCalls` | inside the loop, re-entrant | a call during a call, an exception out of a call | every change handled once, older first, and the script can be called again |
| Virtual machine: `Machine`, `Function`, `ByteCode`, `Register` | registers, frames, the field and the index in hand | `invoke`, an instruction per step | inside the loop; runs what the compiler wrote | growth of the registers under calls, one pushed field, integers of 32 bits | every function has its registers, and does what its text says |
| Namespaces and other caches: `Namespace`, `RMSCacheManager`, `RMSCacheManager2`, `FileCacheManager`, `CookyManager`, `JSPersist` | list of managers, tables | get, set, erase, flush | loop, tasks, threads | two more store formats, weak references | as for the persistent cache |
| Drawing, geometry, text, fonts, styles, values, interpolators, sensors | node fields, pixels | compose, render, activate | inside one frame | layout and arithmetic | sequential |
| Readers: XML, JSON, BML, CSS | a tree | parse, write | inside a task or a frame | malformed input | sequential |
| Network helpers: `SmartHttpConnection`, `Socket`, `Pushlet`, `IMHelper`, `Upload`, `MessagingHelper`, ... | connection, thread | open, read, send, close | report by messages and callbacks | platform connections | platform code |
| Android adapter: `src/android/j2ab_adapter` | opened stores, canvas, MIDlet | MIDP calls over Android | everything | statics that outlive the application; the count of open stores | a store stays open while it is used |
| Compiler of the scripts: `src/compiler/src` `Scripter.cpp`, `Code.cpp`, `CodeTables.cpp`, `Tokenizer.h` | registers in use, labels and the jumps that wait for them, variables with their block, table of integers | parse, generate, compile a function | off line; the machine runs its output | operators with their strengths, loops left from inside, registers freed by number | the bytecode is sound and means what the text means |
| Scene compiler and build tools: the rest of `src/compiler` | none at run time | VRML to binary scene, fonts | off line | unbounded text | sequential |

Interactions. The loop (`MyCanvas.play`) picks an event, composes the master
scene, which activates sensors, composes the nodes (scripts invoke their
callbacks there) and hands the next file to the loading thread; then it has the
scene painted, switches the message queues, asks the scene how long it may sleep
and sleeps or goes on; before the next frame it lets the data loaders look for
their answers. Every other thread leaves something (a message, a callback, an
answer, a loaded file) and calls `MiniPlayer.wakeUpCanvas`. Scripts reach the
persistent cache and the task queue synchronously; the writer thread of the cache
and the worker of the task queue are behind them.

`PROJECT.json` lists the components with their files, and the hazards, each at
the line where it bites.

## 2. Plan

Order: first the modules where two threads share state and a lost or doubled step
is visible to the user; then the state machines inside the loop; then the
platform layers.

Done (sections 3 and 4):

1. `TaskQueue` with its abstract specification `SerialExecutor`, `TaskQueueProofs`.
2. `ScriptCallbacks`, now a part of `Scene`.
3. `RMSCache3`, `RMSCache3Proofs`.
4. `FileQueue`, `FileQueueProofs`.
5. `CanvasLoop`, `CanvasLoopProofs`.
6. The scripts: `Scripter`, `Emitter`, `CodeGenerator` (compiler), `Machine`, `Register`
   (player), `ScriptSemantics` (reference), composed in `Scripts`; `CodeNotes`,
   `RegisterProofs`, `MachineProofs`.
7. The media: `MediaObject`, `MediaNode`, `MediaProofs`.
8. The scene: `Sleep`, `TimeSensor`, `Inline`, composed with `ScriptCallbacks` in `Scene`;
   `SceneProofs`.

To come:

9. `AndroidRecordStore`: opened and cached stores and their counts, under the
   calls that the cache managers make; then `Namespace` and `RMSCacheManager2`.
10. The reopening of a medium for a rotation (`MediaObject.java:479`), with a second
    thread per medium; the state space of a first version was too large (section 9).
11. Routes between nodes, and protos with shared fields.

Composition: `Scripts` puts the compiler, the machine and the reference semantics
together; `Scene` a script with its callbacks, an Inline with the scene in it and a
sensor in that scene; `MediaNode` extends `MediaObject`. `CanvasLoop` stands for the loop
in all of them: `FileQueue`, `Scene` and `MediaNode` contain the part of the frame that
calls them, and reduce the rest of the loop to "composed again and again", which is
what `WorkIsDone` of `CanvasLoop` is about. `TaskQueue` delivers its callbacks as
`ScriptCallbacks` invokes immediate ones.

Abstract specifications: `SerialExecutor` for the task queue, proved to be implemented;
`ScriptSemantics` for the compiler and the machine, compared with them after every call.
Worth adding: a key/value store with crashes for `RMSCache3`.

Theorems: every invariant and every action property of the runs is proved for all values
of the constants (section 8), but for two of the scripts, which are about what the
recursive compiler writes (`CodeIsSound`, `RunsAsWritten`). To be provable, modules take
their parameters as CONSTANTS with named assumptions, have one action per step of the
code, and no recursive operators (those of the compiler and of the reference semantics
are in modules of their own, which `Machine` does not extend).

## 3. Modules

A step of a model is what one thread does between two points where another one
can interfere: a synchronized block, or one access to an unprotected shared
variable. The variables keep the names of the fields. `map` in `PROJECT.json`
gives for each definition the lines it translates. Definitions whose comment
begins with "Mutant:" are wrong variants of the one that follows; the mutants of
`PROJECT.json` use them to show that the properties can fail. `MC...` modules give
the constants their values for TLC.

### TaskQueue, SerialExecutor

`TaskQueue.java`, `Task.java`, `JsonTask.java`, `TaskListenerCb.java`. Threads: "main"
runs the scripts, "worker" is the queue's. `m_state` is the handshake (STOPPED, WORK,
PAUSE, PAUSED), `queue` the circular list behind `m_tail`, `s_tasks` the table of the
indices scripts hold.

- Worker (`run`): `TakeTask`, `Sleep`, `Pause`, `Resume`, `AfterTask`.
- Script thread: `CallAsync` (addTask), `CallSync`, `WorkerPaused`, `Restart`
  (runTaskNow), `Cancel`, `CancelAll`, `GetResult`, `Clean`, `AddListener` (doJsonRpc).
  The cases of doJsonRpc fall through where the code lacks a break: cancel also cleans.
  It does so in a second locked part (`CancelAll`), and the worker may take a task
  between the two. `RemoveLink` is Link.remove on the circular list, which does not
  unlink the tail: the oldest link becomes the tail instead.
- Either thread running a task (`RunTask`): `Start`, `Decode`, `Finish`,
  `OnSuccess`, or `Fail`, `OnError`; each calls the listeners as `setState` does.
- `CancelOverflow`: cancelTask believes READY, but the worker has removed the task
  already, and `Link.remove` recurses for ever on the circular list that does not
  contain it. The script thread dies of it ("dead").

`SerialExecutor` is what the queue promises: one task at a time, added ones in order,
all of them may be dropped, one may be run between two others. A cancel drops all, in
two steps (`cancelling`): after the first the task is gone from the list, or, when it was
the last one, another has gone behind it, so that what starts before the second may be
the cancelled task or a younger one. Nothing is added meanwhile.

### ScriptCallbacks

A part of `Scene`, and the module of one finding of its own. `Script.addCallback`,
`invokeCallbacks`, `getWakeupTime`, `ScriptCallback`. The list and the pool are a heap
(`next`, `fn`, `time`), because objects go back to the pool while the list may still
begin with them, and only a heap shows what happens then.
`AddFromOutside` is another thread or an earlier part of the frame, `Compose` walks
the list (`InvokeNext`, `FunctionReturns`, `InvokeEnds`), `AddFromFunction` is
addCallback called by a function that is being invoked; the monitor is re-entrant.

### Sleep, TimeSensor, Inline, Scene

The main scene as the loop composes it, one play from start to end. `loop` is the
state of the loop: `phase`, `composeAgain`, `wake`, `event` and the clock. A frame is

- `Event`: scripts handle an event: they show or hide the Inline, give it another url,
  change the times of a sensor, or ask for a callback;
- `Switch`, `ComposeInline`: Switch.compose and Inline.compose. The methods of a node are
  operators that give the record `tree` after the call (`InlineStart`, `InlineStop`,
  `Reload`, `InnerCompose`, ...), so that a compose is one action with every call it makes;
- `Walk`, with the steps of `ScriptCallbacks`: the script invokes its callbacks, whose
  functions ask for others;
- `Decide`: getSleepDuration. `Sleep` says how the answers of getWakeupTime are put
  together and taken from the time of a scene to that of its parent.

`Thread(d)` is the thread of a decoder (`Open`, `ReadScene`, `Dies`, `Ends`), which shares
its state with the loop. A sensor is a record (`TimeSensor`) and its methods give the
record after the call. An exception of a sensor (a cycle of zero: getFraction divides by
it) leaves compose and ends the play: `Ended`. `WakeUp` is a wake-up while asleep.

### MediaObject, MediaNode

`MediaObject`: the actors are the loop, the thread of each medium and the thread that
tells the events of its player; `at` says where each is. The thread (`run`): test of
`m_running`, `pickMessage`, `postMessage` of the next message, the message (`createPlayer`,
`Advance`, close), `checkState`. `ClosePlayer` has three steps (stop, release, closed)
because the code sleeps between them, and is run by any of the three. Events of the
platform come when they like (`Incident`) and are delivered one by one (`playerUpdate`).
The loop's calls are `open`, `close`, `setPause`, `Restart` and `Seek` with its two waits,
a step per access to what is shared.

`MediaNode`: the node composes (`Frame`, `Compose`, `Control`), decides by a second reading
of the clock (`getWakeupTime`, `Decide`) and sleeps (`Wait`, `Resume`); `Tick` is time,
`Request` an input of the user.

### Compiler of the scripts: ByteCode, Emitter, Scripter, CodeGenerator

`Scripter` is the parser: functions from a parser state to the next, one per function
of `Scripter.cpp`, over tokens. It keeps what makes this parser peculiar: the precedences
with their bits, operators recognised by reading ahead and pushing back, an assignment
parsed as the access turned around, block levels, numbers given to functions before they
are parsed. `Emitter` is the class ByteCode of `Code.cpp` with its registers, labels and
patched jumps, `CodeGenerator` Code::generate and the compilation of a script. `Compile`
gives a bank of functions, byte for byte; it was compared with the output of the compiler
built from `src/compiler` for the programs of `MCScripts`. These three are recursive and
used by TLC only.

### Register, Machine

`Machine`: `frames` is the stack of calls, `regs` and `threshold` the registers with their
growth, `fields` those of the script, `posted` and `todo` the postponed calls. The scene
changes fields (`Calls`); `Instruction` has an action per group of instructions, and
`invokePostponedCalls` and `Invoked` end an invocation. An operand is found in the bytes
of the bank as Function.java finds it. `Register` is the arithmetic, of a width that is
a constant; its powers of two are a recursive function (`TwoTo`), which the provers can
reason about. Two instructions end all calls by an exception and leave the script marked
as running (`Throw`): an operand outside the array of registers that the function
captured (`OutOfBounds`), and a value put at the largest index of an array, whose length
is no integer (`ArrayTooLong`: `new int [offset+1]` in MFInt32.set). The first cannot
happen to a script whose functions fit into the growth (`FramesInRegisters`); the second
any script can do, and `CallsReturn` says so.

What the compiler promises of a bank is in two operators. `Verified`: every instruction
leads to instructions, and its operands are registers and functions that exist. `Noted`:
there are notes (`Notes`, a constant of the module), for every instruction the registers
that hold a value of the call and the objects that may be in use, which hold at the start
of a function, stay true from an instruction to all its successors, and have every
register that is read. `CodeNotes` finds the notes of a compiled bank by following all
its paths, for TLC; whether it does so rightly does not matter, as `CodeIsSound` checks
what it found.

### ScriptSemantics, CompiledScripts, Scripts

`ScriptSemantics` interprets a program as a tree, without registers or bytecode, and
prints it (`Source`) with parentheses only where the strengths of the operators need
them. `CompiledScripts` compiles that text; `Scripts` runs the machine on the result and
compares the fields with what the tree means (`RunsAsWritten`).

### RMSCache3

`RMSCacheManager3`. `rec` and `nextId` are the record store, a pair of records per
key; `obj` and `m_entries` the table; `queue` the operations to write. `Invoke` is a
call of a script (set, delete, get) with the reload it may need (`Load`, one access
to the store per step); `Flush` is flushRecords, by the thread or by the application,
one write per step: it opens the store (`FlushOp`) before it takes the monitor to read
the fields of the entry (`FlushFields`); `Worker` the thread with its delay, its last look and its end;
`finalClose` and `Joined` are closeAll; `Start` is a new start of the application
after its end or after a kill, which can happen between any two steps. `truth` is the
value each key was last given, `since` those it has had since it was last saved.

### FileQueue

`FileQueue`, `DataLoader`, and of `File` the requests, counts and queues. The loop's
part is `Match`, `Return`, `NewThread`, `WakeThread`, `LoadNext`, `Check`; requests
come and go with `Request`, `Release`, `StopScene`; `Exit` and `StartAgain` end and
start the application in the same process, as Android does. A loading thread
(`Run`) reads `s_currentFile` and `s_quit`, opens, loads, clears `s_currentFile` and
waits, a step per access. `Dies` is an Error thrown by the load. Opening and reading
is a step that succeeds or fails.

### CanvasLoop

`MyCanvas`, `Message`, `Event`. The user-interface thread (`ui`): `Report` an event
with its wake-up, `hideNotify`, `showNotify` with `releaseLastEvent`, `sizeChanged`
with the steps of `setSize`, `paint`. Background threads: `Send` a message or `Load`
a file, then `BgWake`. The loop (`pc`): `pickEvent`, `Compose`, `flushGraphics`,
`ServiceRepaints`, `ReadCycle`, `CountCycle`, `switchQueues`, `WriteAgain`, `Decide`,
`Wait`, `WaitEnds`, `Check`, `Resize`. `composeAgain |= switchQueues()` and
`m_resizeCycle++` are a read and a write. What a scene does in a frame is reduced to
what the loop sees of it: it may ask for another frame, and may send a message.
The platform reports events of a device in their order (pressed, dragged, released),
none while the canvas is hidden, and a device may be released meanwhile.

## 4. Runs

Every property is stated in words above its definition. `PROJECT.json` has one mutant
per property: a plausible bug that the property finds.

| run | shows | states, time |
|---|---|---|
| `taskqueue` | The two threads never execute tasks at the same time; a task is never forgotten or queued twice; the queue implements `SerialExecutor`; runTaskNow returns and added tasks end | 486 thousand, 1 min |
| `taskqueue_params` | *finding*: a callback of an "allStates" listener is called with a later state than the one it was posted for | |
| `scene` | A scene is started exactly while it is shown and ready; the canvas never sleeps past a callback, a start or an update; callbacks are invoked in order and all of them, but for those the walk loses; an Inline settles; sensors start and end in time | 247 thousand, 2 min |
| `scriptcallbacks_lost` | *finding*: callbacks asked for by a running callback are lost | |
| `rmscache3` | What is read was last written; the store follows; a kill leaves each key a value it has had since its last save; closeAll saves and returns; operations are done in the end | 467 thousand, 1 min |
| `rmscache3_deletions` | *finding*: a deletion followed by a set before the flush is never written, and the old value is stored beside the new one | |
| `filequeue` | A wanted file is not dropped; requests are answered; the thread ends | 394 thousand, 1 min |
| `filequeue_overlap` | *finding*: after a restart in the same process two threads load at the same time | |
| `canvasloop` | Events and messages arrive once and in order; presses are released; the scene is painted in the size of the screen; work is done in the end | 2.0 million, 2 min |
| `canvasloop_pause` | *finding*: the loop goes to sleep with an event in its queue | |
| `scripts` | The bytecode the compiler writes is sound; calls of any depth keep their registers; a function reads only what it has written; the fields hold what the text of the script says; calls return or throw | 108 thousand, 1 min |
| `media` | No player is left behind; a closed medium ends; a seek returns; a stop time is not slept through | 614 thousand, 1 min |

The findings are quoted in `PROJECT.json` with the comment or documentation each
contradicts. One more disagreement has no run: `Message.java:28` calls the queue
"LIFO, not a FIFO", and the code appends to its end and delivers in the order of
sending, which is what `MessagesOnceInOrder` states.

Observations without a run. `a + b >> c` is compiled as `a + b > c`: the second character
of a shift that ends an operand is not pushed back (`Scripter.cpp:552`). The order in
which two operands of one C++ call are evaluated decides a register
(`Scripter.cpp:892`); the model takes the order of the build. The cases of
TaskQueue.doJsonRpc lack breaks from `TaskQueue.java:205` on. A cancel of the youngest
task rotates the list (`Field.java:34`), and until cancelAll empties it the worker may
start the cancelled task before older ones. A sensor restarted with a
stop time of -1 (`TimeSensor.java:129`) follows no rule that the code states.
Script.getWakeupTime answers a duration where the others answer a time, which
makes the canvas wake up too early and does no harm.

## 5. Bounds

Every bound is a constant with a name, used in guards only.

- `TaskQueue`: three tasks, two indices, one listener. Three tasks let one run at once
  (runTaskNow), one be in the worker's hand and one in the queue; two indices fill the
  table (MAX_TASKS is 16). No other bound: the threads loop freely.
- `Scene`: the plays of `MCScene`, each with its own bounds: a script alone with four
  requests of callbacks (delays 1 and 2, two by a running function), where losing one takes
  two requests in the list and one more by a function, and a cell linked to itself
  takes a released cell to be used again; and an Inline with a remote or an
  embedded scene, whose sensor starts late and ends by its cycle, by a stop time or never,
  or has a cycle of zero, with two events or with an event and a callback. The clock goes
  to 3 in every play (`MaxTime` is its bound), `MaxScenes` is 2: one scene is replaced
  by another. Two events are a hide and a show, or a new url, at any moment of a load.
- `RMSCache3`: two keys, two values, three changing calls, one restart. A set, a
  deletion and another set of a key, with a drop and a reload of the table between
  any two, is the longest pattern that matters to a key; the second key shows that
  pairs are not mixed up and lets a pack move an entry. `IsMaster` is FALSE: the
  table of the master manager is never dropped, which is a subset of the behaviours.
- `FileQueue`: one scene, two urls, two requests, two threads, two sessions, one
  Error. One thread per session shows the overlap of two sessions; two requests share
  a url or follow each other. With two scenes the safety properties were checked
  once (1.7 million states).
- `CanvasLoop`: one device, two sizes, of which one is odd, three inputs (events,
  messages, files, changes of the canvas). Three inputs are a press with a hide and
  a show, a change of size with two wake-ups, or two messages of threads and one of
  the scene; every race of the loop needs one or two. With four inputs (24 million
  states), and with two devices, the safety properties were checked once.

- `MediaNode`: one opening of a medium, one incident of the platform, one request of
  the user, a clock of two values. The races are between the closers of one medium;
  that a second medium adds none is proved (`NoPlayerIsLeft` holds for any number).
- `Scripts`: 23 programs, of which 13 try all pairs of an operator with another and ten
  the loops, switches, scopes, calls, postponed calls, arrays, an array too long,
  conditions and assignments; two changes by the scene with values 0, 1 and 3; integers of
  16 bits instead of 32, so that products and shifts reach the limit (the theorems hold
  for any width); REGISTERS_BANK is the 16 of the player, and one program exceeds it.

CHECK_DEADLOCK is FALSE in all configurations: the program really stops (the
application exits, the play ends, the script thread dies of an overflow), and the
bounds stop the models.

## 6. Fairness

- Threads are scheduled: weak fairness of each thread's steps (`Main`, `Worker`,
  `Flush`, `Load`, `Run`, `Ui`, `BgWake`, `Loop`). Nothing is assumed of the inputs:
  events, calls, messages, kills and restarts may or may not come.
- A timed wait ends (`RMSCache3`, FLUSH_DELAY; `CanvasLoop`, WaitEnds); a wait without
  a time ends only by a notify.
- A connection answers or fails (`FileQueue` LoadNext to clear, `TaskQueue` Decode or
  Fail): the platform's connections time out.
- Data loaders are asked again and again (`FileQueue`): strong fairness of the frame's
  part for each scene, because the loop composes every scene in every frame, but other
  parts of the frame disable it in between. That the loop goes on is checked in
  `CanvasLoop`.
- Frames follow each other and read a clock that moves (`Scene`: weak fairness of the
  loop's step, strong fairness of a decision after which the clock is later; `MediaNode`:
  weak fairness of the step and of time). Events and wake-ups need not come: what must
  happen must be in the time the canvas allows itself to sleep.
- Media: threads are scheduled and events are told; players need not end or fail.
- Scripts: a call goes on until it is done (`Machine`), as it is a loop of its caller.

## 7. Windows of the code

Some interleavings break what the code promises and cannot be excluded, because the
code allows them. A model does not leave them out: a history variable (`faults`,
in `ScriptCallbacks` `stale`) records that a behaviour has met one, and the
properties that it breaks say so. Without it they would be false, and each run would
stop at the first window instead of showing that there is no other. In `Scene` and the
media (`windows`) it is kept per scene and per medium.

| module | window | what happens in the code |
|---|---|---|
| `ScriptCallbacks` | stale | a called function changes the list that invokeCallbacks walks: `m_cbList = cb` at the end overwrites what was put in front (finding) |
| `Scene` | early | an Inline hidden and shown again while its scene is read starts it at once (`Inline.java:98`), and again when it is ready |
| | dead | a connection that gives nothing: an exception ends the thread of the decoder, which never answers (`Decoder.java:79`) |
| | foreign | a scene of another url has left its decoder in the context (`Inline.java:114`): an embedded scene is looked for under the baseName of that one, on the network, and read by a thread as a remote one; it may be another scene, fail or never answer |
| | Divided | a cycle of zero: the exception ends the play (`TimeSensor.java:122`) |
| `MediaObject` | overwritten | the thread picks a message and posts the next one over a close that came in between (`MediaObject.java:842`) |
| | ended, paused, unchecked | the loop waits in a seek without a timeout, for a state that only an event brings, and the player has ended, was paused, or its start is not checked yet (`MediaObject.java:280`) |
| `MediaNode` | passed | the stop time comes between the clock of compose and that of getWakeupTime (`MediaNode.java:149`) |
| `RMSCache3` | replaced | a new entry takes the queue slot of the deletion of a stored one (finding) |
| | late | an operation is queued after the thread has looked for the last time and before it is seen dead: nobody is left to write it until the next one |
| | erased | the table is read while the erasing of the store is still queued: erased data is back |
| | overlap | the table is read or dropped while a flush uses the same store |
| | torn | a kill between the two records of a key, or inside a pack |
| `FileQueue` | vanished | `s_currentFile` becomes null between two reads in getFile |
| | died | an Error ends the loading thread with `s_currentFile` set |
| | restarted | a new session begins beside a thread of the last one (finding) |
| | left | the thread is stopped before it takes the file it was given |
| `CanvasLoop` | missed | a wake-up between the decision to sleep and the wait (finding) |
| | overwritten | `composeAgain \|= switchQueues()` writes over a wake-up |
| | cleared | `composeAgain = false` at the start of a frame forgets the wake-up for a file that came after this frame's check |
| | unseen | a press was queued, not yet picked, when the canvas was shown again: releaseLastEvent does not see it |
| | unreset | the loop asks for a paint between the halves of setSize |

## 8. Proofs

Assumptions are those of the modules: `NoTaskAssumption`, `SlotsAssumption`,
`ParametersAssumption`, `ConstantsAssumption`, `BoundsAssumption` (of `FileQueue` and of
`ScriptCallbacks`), `InlineAssumption`, `PlaysAssumption`, `MediaAssumption`,
`NodeAssumption`; TLC evaluates them in every run. They say that bounds are numbers and
that null and the erasing are no keys or data; `PlaysAssumption` also that the sensor of a
scene is one that was just decoded, as it is when its scene starts for the first time.
`WidthAssumption` gives an integer two bits at least, `RoutedFields` says that routes end
at single fields of the script and bring integers, `FieldKinds` that a field is single or
multiple and that only single ones have a function. The theorems of `MachineProofs` have a
hypothesis of their own, `Assumed` or `AssumedNoted`: the banks are as the compiler
promises, which `CodeIsSound` checks.

Where a list, a set or a number has to be measured, induction is over the natural numbers,
through the least element of a set of them (`Smallest`, `AllNaturals` in `SceneProofs`,
`EveryNatural` in `RegisterProofs`): the set is one of counterexamples, so that no
theorem with an operator as a parameter is needed.

`TaskQueueProofs`, for any tasks, indices and listeners:

- `TypeCorrect`: `Spec => []TypeOK`.
- `MutualExclusion`: `Spec => []NoConcurrentJobs`. The property is not inductive: that
  the worker is not executing follows from what the script thread has read in
  `m_state`. The invariant adds `Handshake` (PAUSED means that the worker waits,
  STOPPED that it has not been started; from the moment the script thread proceeds
  until it restarts the worker, `m_state` is one of them) and `HasTask` (an executing
  thread has a task). There is one lemma for the steps of a running task, one for
  the worker's and one for the script thread's.
- `TasksAreKept`: `Spec => []NoTaskLost`.
- `QueueIsAnExecutor`: `Spec => ImplementsExecutor`, the refinement of `SerialExecutor`.
  One invariant carries both: that of `MutualExclusion`, `NoTaskLost`, `Tracking`,
  which says where the threads may be and what the state of the task in their hand is
  there (a task of runTaskNow is NONE until it starts, one that runs is RUNNING, one that
  is over has completed), and `Indexed`: an index is of a task that was added, and no two
  of the same one, so that a cancelled task is not expected any more. A lemma per group of
  steps shows what it is to the executor: the start of the worker is `StartNext`, because the task in its hand
  is the head of `Pending`; the start of runTaskNow `RunNow`; the end of a task `End`;
  addTask `Add`; clean and `CancelAll` `DropAll`, which leaves the task in the hand;
  `Cancel` is the executor's: removing a link from the list or rotating it does the same
  to the sequence of pending tasks, behind the one in the hand (`RemoveBehind`,
  `TailRemoves`); all else leaves the variables of the executor as they are. Taking a task from the list to the hand
  does so because of what concatenation is (`HeadInHand`, `HandFirst`,
  `AppendToPending`).

`CanvasLoopProofs`, for any devices, sizes and bounds:

- `MessagesDelivered`: `Spec => []MessagesOnceInOrder`. The property says that the
  messages composed, those delivered to the frame and not composed yet, and those
  incoming are 1, 2, .. `sent` in a row. With the types of the queues and the places
  of the loop it is inductive: sending extends both sides (`Sending`), compose and
  switchQueues move a border (`ComposeKeepsIInv`, `SwitchKeepsIInv`), and a wake-up or
  another step leaves the loop on its side of compose (`Waking`, `Standing`).
- `SceneFitsScreen`: `Spec => ScenePaintedInItsSize`, an action property. `PaintInv` says
  what a frame on its way to the paint was composed for: the size of the screen, unless the
  count of white frames of the last setSize has not passed yet.
- `EventsOrdered`, `PressesReleased`: `Spec => []EventsInOrder`, `[]PressesAreReleased`.
  One invariant (`EventInv`): the queued events follow the picked ones and precede those to
  come; per device the last event queued says whether it is pressed, and only a drag is
  written over by a later one.
- `TypesKept`: `Spec => []TypeOK`.

`FileQueueProofs`, for any requests, threads, sessions and errors:

- `WantedFilesAreKept`: `Spec => []NoWantedFileDropped`. A File moves from the queue of its
  scene to the local of the canvas thread, to `s_currentFile`, to the thread. The invariant
  says that it is at one of these places at a time (`QueuedOnce`), that the next place is
  free when it moves (`HandOver`, `OneThread`: in a session that did not begin beside a
  thread of the last one there is one thread), and that the count of a queued File covers
  the DataLoaders that wait for it (`CountsCover`), so that popQueue does not skip it.
- `TypesKept`: `Spec => []TypeOK`.

`SceneProofs`, for any plays, scenes, callbacks and bounds:

- `CallbacksInOrder`: `SceneSpec => InvokedInOrder`, an action property. The list before the
  walk, or `m_cbList`, and the pool are lists without a common object and without a
  cycle (`Shape`, of any length); a function that adds callbacks again while the list is
  walked may hang them on an object that has gone to the pool, and from then on `stale` is
  set and only the shape is kept. Before that the list is sorted (`Contents`) and its head
  is the first of all that wait.
- `StartsAsShown`: `SceneSpec => []StartedAsShown`. What a scene was started is counted
  against what it may still be started (`MostStarts`): once for being shown, once for being
  loaded, of which a stop or a replacement takes one back.
- `SleepsNoLonger`: `SceneSpec => []SleepsUntilNeeded`. A frame that asks for no other
  one leaves no choice, url or scene to be composed (`Settled`), and the wake-up it
  decides on is not after the first callback or start that is due (`WakesUpFor`).
- `TypesKept`: `SceneSpec => []SceneTypeOK`.

`RMSCache3Proofs`, for any keys, values and bounds:

- `TypesKept`: `Spec => []TypeOK`, from `Kinds`, which holds whatever windows a behaviour
  has met: a queue has one operation per key, and all objects it refers to exist.
- `ReadsAreOfLastWrite`, `SavedOnceDone`, `KillsKeepSaved`, `ClosingSaves`: `Spec => []`
  of `ReadsLastWrite`, `SavedUnlessPending`, `KillKeepsSaved`, `CloseSaves`. None of them is
  inductive. `SoundInv`, which holds until a window is met, has a part for each of the
  things they depend on: the records are pairs, and each key has one, but for the name
  that a flush has just added (`RecordsInPairs`); the last value of a key is that of its
  last operation, in the queue or in the flush, or the stored one (`TruthFollows`); the
  entry of that operation knows the index of the pair, and an entry that takes the place
  of a deleted one has none (`Owners`); what is queued behind an erasing is new
  (`Erasing`); what the flush has read outside the monitor is still the data of the entry,
  unless an operation is queued that will write it again (`Writing`); the table holds the
  last values (`TableFollows`), nothing is queued without it (`Unloaded`), and while it is
  read it holds the pairs read so far (`Reading`); the queue is empty once nobody looks at
  it (`Looking`); what is stored, or about to be, is in `since` (`SavedValues`); the store
  stays open while the flush waits for the monitor (`Opened`, beside `SoundInv`). The
  steps of the flush have one lemma for the first access and one for the last
  (`NameIsSound`, `OperationIsSound`), and the four accesses are instances of them.

`RegisterProofs`, for every width of an integer, the 32 bits of Java among them:

- `OperationsFit`: every instruction on two registers, and the inversion, gives an integer
  of the width. The powers of two are known from their recursion (`PowersOfTwo`, `Widths`); a
  remainder by 2^w that is moved below 2^(w-1) is an integer of the width whatever it is
  the remainder of, which covers sums, products, shifts to the left and the operators on
  bits, whose sum over the bits is an integer (`SumsOfIntegers`, by the recursion of the
  fold); what a shift to the right or a division leaves is not larger than what was there,
  but for the smallest integer divided by -1, which the wrap brings back.
- `DivisionIsWhole`: `a = b * Div(a, b) + Mod(a, b)` for a positive `b`, and the rest is
  smaller than `b` and has the sign of `a`.
- `ComparisonsAreRight`: registers are found equal only when they are. They compare as
  their integers do when the difference fits, and the other way round when it does not:
  `testValue` looks at the sign of a difference that may have wrapped.

`MachineProofs`, for every bank of functions, every growth of the registers and every width:

- `RegistersSuffice`: `Spec => []FramesInRegisters`. If a bank is `Verified` and no function
  needs more than one register above the growth, then each function of the stack of
  calls has its registers in the array it captured. The invariant: a function starts
  below the threshold (`FrameOK`), the array exceeds the threshold by the registers of a
  function (`ArrayOK`), the program counters are at instructions, and the calls that are
  postponed are of functions of the script (`CallsOK`). That the compiler's banks are
  `Verified` is `CodeIsSound`, which TLC checks.
- `RegistersAreOwn`: `Spec => []ReadsOwnWrites`, for banks that are `Verified` and `Noted`.
  The invariant (`OwnInv`): what the notes say of the instruction a call is at is true of
  the call, and of each call below it too, but for the result that it waits for
  (`FramesNoted`, `Awaited`), which is there once the call above has ended if that function
  always leaves one. There is no bound on the registers here: a call that is outside its
  array ends by an exception before it reads.
- `TypesKept`: `Spec => []TypeOK`. A value is an integer of the width because it comes from
  a route, from the integers of the bank or from an operation (`OperationsFit`). For that
  every register that is read must have a value: the invariant (`TypeInv`) knows that an
  instruction inside the array of its function is inside the array there is now, which
  never gets shorter; that the length of an array is an integer, because a longer one
  throws; that postponed calls are of single fields, whose value is the argument; and
  that each call begins at most 255 registers above the one below it.
- `CallersKeepRegisters`: `Spec => [][RegistersKept]_vars`. While a call is on top of
  another, no step changes a register below its first parameter: calls begin at or above
  the one below them (`StartsAscend`), an instruction writes above its own beginning, and
  a growth copies what was there. With `RegistersAreOwn` this is the calling convention:
  a function neither sees nor spoils what its callers hold.

`MediaProofs`, for any number of media, requests and incidents:

- `MediaTyped`: `Spec => []TypeOK`.
- `NoPlayerIsLeft`: `Spec => []NoPlayerLeft`. A player that is not closed is `m_player` of
  its medium, and when `m_running` is false somebody is in the first two steps of
  closePlayer. For that nobody may clear `m_running` before the thread has made the
  player, which is what is known of a medium before CREATE is handled (`BeforeOK`).

Only model-checked: liveness (fairness and ENABLED are out of TLAPS's reach); what the
recursive compiler does with every text (induction over programs), so that `RunsAsWritten`
and `CodeIsSound` are checked on the programs of `MCScripts`; and the findings.

## 9. Not modelled

`PROJECT.json` gives the reason for every component. In short:

- planned: the Android stores, the other caches;
- sequential computation inside one frame or one task: drawing, text, values, readers; a
  model would repeat the code;
- the platform: connections, media players, phone services; they appear as steps
  that succeed, fail or throw;
- the scene compiler beside its scripts (`Types.cpp`, a table of the nodes with their
  fields, is the longest of its files), the preprocessor and the font extractor; vendored
  code. The headers of FreeType beside the font extractor, twice, and the tables and
  drawing code above make up most of the lines of the repository.

In the modelled components:

- `TaskQueue.quit` (no caller in the repository); the contents of requests, files and
  records beyond their identity; `getInstance` and `deleteAllRMS` of the caches;
- the first loading of a scene and the change to another scene in `MyCanvas.play`, the
  debugging console, BlackBerry variants of the canvas, the filter of messages by url;
- scripts: floats, strings and nodes as values, fields of structured types, comments, the
  old format of bytecode, the native functions beside Math.floor, builds with
  `api.jsonrpc`, where a function can be a value;
- scenes: protos, anchors, the links to the data of a file, the url a scene asks its
  parent to load, the list of loading scenes that progress bars show; Decoder.getDuration
  before the file is known. A running sensor changes its fraction in every frame, which
  keeps the canvas awake, so that its branch of getWakeupTime is not asked;
- media: the reopening for a rotation (with the second thread it starts a run exceeded 20
  million states; it is listed among the hazards), recording, snapshots, volume, the
  place on the screen, and MediaSensor, which only reads.

## 10. How to run

    tlc -workers 2 -config TaskQueue.cfg MCTaskQueue
    tlapm TaskQueueProofs.tla

and likewise with the other configurations and modules of the table in section 4
(`RMSCache3Deletions.cfg` with `MCRMSCache3`, and so on), and with the other seven proof
modules of section 8 (`SceneProofs` takes the longest, some minutes). A configuration of
a finding is expected to report a violation.
