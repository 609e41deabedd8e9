--------------------------- MODULE SerialExecutor ---------------------------
(***************************************************************************)
(* What TaskQueue.java promises: tasks run one at a time; added tasks run  *)
(* in the order they were added; a task may also be run at once, between   *)
(* two others. A task is cancelled with all others, in two steps: between  *)
(* them, and only then, the order is that of a list from which the task is *)
(* gone, or, if it was the last one, in which another one has gone behind  *)
(* it.                                                                     *)
(***************************************************************************)
EXTENDS Naturals, Sequences, SequencesExt

CONSTANT Tasks

VARIABLES
  pending,    \* added and not started, oldest first
  running,    \* at most one task
  completed,  \* tasks that have ended, with or without success
  cancelling  \* a task has been cancelled, and the others will be

vars == <<pending, running, completed, cancelling>>

Init == pending = <<>> /\ running = {} /\ completed = {} /\ cancelling = FALSE

IsPending(t) == \E i \in 1..Len(pending) : pending[i] = t
Fresh(t) == ~IsPending(t) /\ t \notin running \cup completed

Add(t) == /\ ~cancelling /\ Fresh(t)
          /\ pending' = Append(pending, t)
          /\ UNCHANGED <<running, completed, cancelling>>

\* The task that is ith behind all others.
ToEnd(i) == Append(RemoveAt(pending, i), pending[i])

\* A pending task is removed, unless it is the last one: then the first of the
\* others goes behind it, or the next when a thread has the first in its hand.
Cancel(t) == /\ ~cancelling /\ cancelling' = TRUE
             /\ \/ ~IsPending(t) /\ pending' = pending
                \/ \E i \in 1 .. Len(pending) - 1 : pending[i] = t /\ pending' = RemoveAt(pending, i)
                \/ /\ IsPending(t) /\ Last(pending) = t
                   /\ \E i \in {1, 2} \cap DOMAIN pending : pending' = ToEnd(i)
             /\ UNCHANGED <<running, completed>>

\* The next task may already be out of reach of a caller who drops them all.
DropAll == /\ pending' \in {<<>>} \cup {<<pending[i]>> : i \in {1} \cap DOMAIN pending}
           /\ cancelling' = FALSE
           /\ UNCHANGED <<running, completed>>

StartNext == /\ running = {} /\ pending # <<>>
             /\ running' = {Head(pending)}
             /\ pending' = Tail(pending)
             /\ UNCHANGED <<completed, cancelling>>

RunNow(t) == /\ ~cancelling /\ running = {} /\ Fresh(t)
             /\ running' = {t}
             /\ UNCHANGED <<pending, completed, cancelling>>

End == /\ running # {}
       /\ completed' = completed \cup running
       /\ running' = {}
       /\ UNCHANGED <<pending, cancelling>>

Next == \/ \E t \in Tasks : Add(t) \/ RunNow(t) \/ Cancel(t)
        \/ DropAll \/ StartNext \/ End

Spec == Init /\ [][Next]_vars

=============================================================================
