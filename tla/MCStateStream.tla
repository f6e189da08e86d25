--------------------------- MODULE MCStateStream ---------------------------
(* The model-checking instance of StateStream: both stores, and two        *)
(* clients of which one sends a second frame.                              *)
EXTENDS StateStream, TLC

CONSTANTS audio, window, c1, c2

BothStores == {audio, window}
TwoSockets == {c1, c2}
TwoFramesAndOne == (c1 :> 2) @@ (c2 :> 1)

(* The observers of the service only publish once they are ready. *)
ServiceReadiness == {TRUE}

=============================================================================
