------------------------ MODULE MCWindowActivation ------------------------
(* Model-checking instances of WindowActivation. *)
EXTENDS WindowActivation

CONSTANTS w1, w2, http1, probe1

TwoWindows == {w1, w2}
OneWindow == {w1}
OneHttp == {http1}
OneProbe == {probe1}
NoProbe == {}
=============================================================================
