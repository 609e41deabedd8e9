-------------------------------- MODULE MCMedia --------------------------------
(* A medium that starts at once and stops, or starts later and never stops: a  *)
(* stop time counts when it is after the start.                                *)
EXTENDS MediaNode

MCStartTimes == {0, 1}
MCStopTimes == {1}
MCRequests == {"stop", "play", "reload", "seek", "resume"}
===============================================================================
