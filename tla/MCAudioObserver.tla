--------------------------- MODULE MCAudioObserver ---------------------------
(* Model-checking instance of AudioObserver. *)
EXTENDS AudioObserver

CONSTANTS s1, s2, r1, r2, m1, quiet, loud

TwoSinks == {s1, s2}
ThreeSources == {r1, r2, m1}
OneMonitor == {m1}
TwoContents == {quiet, loud}
=============================================================================
