--------------------------------- MODULE Sleep ---------------------------------
(* How long the canvas may sleep: what getWakeupTime answers in nodes, scenes   *)
(* and inlines, and how the answers are put together.                           *)
EXTENDS Integers

SLEEP_CANCELED == -1
SLEEP_FOREVER  == 1000000

\* A time of the scene, neither of the two above.
IsTime(w) == w \notin {SLEEP_CANCELED, SLEEP_FOREVER}

\* Scene.getWakeupTime: one node that cannot wait is enough, otherwise the first
\* time counts. Nobody waits for ever if there is nothing to wait for.
Earliest(W) ==
  IF SLEEP_CANCELED \in W THEN SLEEP_CANCELED
  ELSE CHOOSE w \in W \cup {SLEEP_FOREVER} : \A v \in W \cup {SLEEP_FOREVER} : w <= v

\* Inline.getWakeupTime: from the time of the inlined scene, started at init, to
\* the one of its parent.
InParent(w, init) == IF IsTime(w) THEN w + init ELSE w

\* Scene.getSleepDuration
Duration(w, t) == IF IsTime(w) THEN w - t ELSE w

===============================================================================
