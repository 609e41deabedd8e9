------------------------------- MODULE MCScene --------------------------------
(* Instances of Scene for TLC. *)
EXTENDS Scene

\* A script alone, which may be asked for many callbacks.
Callbacks == [ calls |-> 4, requests |-> 0, time |-> 3, url |-> "empty",
               sensor |-> TimeSensor(0, 0, FALSE, 0) ]

\* A scene in an Inline, whose sensor starts late, runs in a loop until a stop time, or
\* has a cycle of zero; one of them with a callback.
WithInline(url, sensor, events, asked) ==
  [ calls |-> asked, requests |-> events, time |-> 3, url |-> url, sensor |-> sensor ]

MCPlays ==
  { Callbacks,
    WithInline("remote", TimeSensor(1, 3, TRUE, 1), 2, 0),
    WithInline("embedded", TimeSensor(1, 0, FALSE, 2), 2, 0),
    WithInline("embedded", TimeSensor(1, 0, FALSE, 1), 1, 1),
    WithInline("embedded", TimeSensor(1, 0, TRUE, 0), 1, 0) }

===============================================================================
