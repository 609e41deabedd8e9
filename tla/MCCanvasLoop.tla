----------------------------- MODULE MCCanvasLoop -----------------------------
(* Instances of CanvasLoop for TLC. *)
EXTENDS CanvasLoop

\* Two sizes, one of them odd.
MCScreens == {<<2, 4>>, <<3, 2>>}
MCFirst == <<2, 4>>
=============================================================================
