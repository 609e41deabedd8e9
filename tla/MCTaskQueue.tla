----------------------------- MODULE MCTaskQueue -----------------------------
(* Instances of TaskQueue for TLC. *)
EXTENDS TaskQueue

\* MAX_TASKS, reduced from 16 so that the table is full.
MCSlots == {0, 1}

=============================================================================
