---------------------------- MODULE MCDashboard ----------------------------
(* The model-checking instance of Dashboard: two services whose sinks      *)
(* differ, one of them amplified beyond the slider, and four desktops.     *)
EXTENDS Dashboard

CONSTANTS w1, w2, near, far

TwoServers == {near, far}
TwoWindows == {w1, w2}
AudioOfEach == [s \in TwoServers |-> [volume |-> IF s = near THEN 2 ELSE 0, muted |-> FALSE]]

Window(id, skip) == [id |-> id, skipTaskbar |-> skip]
Nothing == [active |-> {}, skipTaskbar |-> {}]
Active == [active |-> {TRUE}, skipTaskbar |-> {}]
Skipped == [active |-> {}, skipTaskbar |-> {TRUE}]

(* The first window is active, and by now the second. *)
Moved == [tracked |-> <<Window(w1, FALSE), Window(w2, FALSE)>>, activeId |-> w1,
          info |-> <<Nothing, Active>>]
(* A window the script does not track is active, and by now both others.   *)
Untracked == [tracked |-> <<Window(w1, FALSE), Window(w2, FALSE)>>, activeId |-> NoId,
              info |-> <<Active, Active>>]
(* A window is listed twice, once to be skipped. *)
Twice == [tracked |-> <<Window(w1, FALSE), Window(w2, FALSE), Window(w1, FALSE)>>, activeId |-> w1,
          info |-> <<Skipped, Nothing, Active>>]
(* The helper cannot read the list. *)
Unreadable == [tracked |-> <<Window(NoId, FALSE)>>, activeId |-> w1, info |-> <<Nothing>>]

FourDesktops == {Moved, Untracked, Twice, Unreadable}
=============================================================================
