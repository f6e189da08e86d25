-------------------------- MODULE WindowActivation --------------------------
(***************************************************************************)
(* Activating a window: POST /control/windows/{id}/active of the service   *)
(* (snapshot_http_server.cpp) and `window_probe activate`, the controller  *)
(* both use (kwin_script_window_backend.cpp), the queue of the helper      *)
(* (window_probe_helper.cpp) and the KWin script that polls it, activates  *)
(* the window and publishes the result, which returns to the service as a  *)
(* snapshot.                                                               *)
(*                                                                         *)
(* The service, the probe, the helper and KWin are processes of their own. *)
(* The controller makes two blocking calls; calls of the script to the     *)
(* helper are asynchronous and stay in order, as do the answers and the    *)
(* signals of the helper.                                                  *)
(***************************************************************************)
EXTENDS Naturals, Sequences, SequencesExt

CONSTANTS
  Windows,        (* the windows KWin tracks at first                        *)
  HttpRequests,   (* requests made over HTTP, handled one after the other    *)
  ProbeRequests,  (* requests of window_probe, each a process of its own     *)
  MaxChanges,     (* bound: windows the user closes or activates             *)
  MaxFaults       (* bound: helper ends, failed writes, KWin script reloads  *)

ASSUME BoundsAssumption == {MaxChanges, MaxFaults} \subseteq Nat

Requests == HttpRequests \cup ProbeRequests
None == "none"

ASSUME RequestsAssumption == HttpRequests \cap ProbeRequests = {}
ASSUME NoneAssumption == None \notin Windows \cup Requests

VARIABLES
  open,      (* the windows KWin tracks                                      *)
  active,    (* the active window                                            *)
  known,     (* the snapshot in the window store of the service              *)
  cache,     (* the cached snapshot file                                     *)
  target,    (* target[r]: the window request r names                        *)
  result,    (* result[r]: what r was answered, or how far it is             *)
  helper,    (* "up" or "down"                                               *)
  kept,      (* m_snapshot and m_ready of the helper                         *)
  queue,     (* m_activationRequests                                         *)
  calls,     (* calls of the script on their way to the helper               *)
  replies,   (* answers of TakeActivationRequest on their way to the script  *)
  inFlight,  (* activationPollInFlight                                       *)
  signals,   (* SnapshotChanged signals on their way to the service          *)
  accepted,  (* history: the accepted requests in the order of acceptance    *)
  attempted, (* history: the requests the script acted on, in order          *)
  changes,   (* how many changes the user has made                           *)
  faults     (* how many faults have happened                                *)

desktopVars == <<open, active>>
requestVars == <<target, result>>
helperVars == <<helper, kept, queue>>
scriptVars == <<calls, replies, inFlight>>
vars == <<open, active, known, cache, target, result, helper, kept, queue, calls,
          replies, inFlight, signals, accepted, attempted, changes, faults>>

(* A snapshot also tells how many activations had been attempted when it   *)
(* was taken, to see what has been published.                              *)
Snapshots ==
  [ready : {TRUE}, open : SUBSET Windows, active : Windows \cup {None}, attempts : Nat]
NoSnapshot == [ready |-> FALSE, open |-> {}, active |-> None, attempts |-> 0]
Current == [ready |-> TRUE, open |-> open', active |-> active', attempts |-> Len(attempted')]

Push(snapshot) == [call |-> "PushSnapshot", snapshot |-> snapshot]
(* A poll of a script that was unloaded meanwhile answers nobody. *)
Take(live) == [call |-> "TakeActivationRequest", live |-> live]
Pushes == [call : {"PushSnapshot"}, snapshot : Snapshots]
Takes == [call : {"TakeActivationRequest"}, live : BOOLEAN]

Results == {"none", "asking", "requesting", "accepted", "not_found", "not_ready", "not_activatable"}

TypeOK ==
  /\ open \subseteq Windows /\ active \in open \cup {None}
  /\ {known, cache, kept} \subseteq Snapshots \cup {NoSnapshot}
  /\ target \in [Requests -> Windows]
  /\ result \in [Requests -> Results]
  /\ helper \in {"up", "down"} /\ (helper = "down" => kept = NoSnapshot /\ queue = <<>>)
  /\ {queue, accepted, attempted} \subseteq Seq(Requests)
  /\ \A r \in Requests : r \in Range(accepted) <=> result[r] = "accepted"
  /\ calls \in Seq(Pushes \cup Takes)
  /\ replies \in Seq(Requests \cup {None}) /\ Len(replies) <= 1
  /\ inFlight \in BOOLEAN
  /\ signals \in Seq(Snapshots)
  /\ changes \in 0 .. MaxChanges
  /\ faults \in 0 .. MaxFaults

(* The backend is set up and its script starts: it pushes a snapshot and   *)
(* polls.  There may be a cached snapshot of before.                       *)
Init ==
  /\ open = Windows /\ active = None
  /\ cache \in {NoSnapshot, [ready |-> TRUE, open |-> Windows, active |-> None, attempts |-> 0]}
  /\ known = cache /\ kept = cache /\ helper = "up"
  /\ target \in [Requests -> Windows]
  /\ result = [r \in Requests |-> "none"]
  /\ queue = <<>> /\ replies = <<>> /\ signals = <<>>
  /\ accepted = <<>> /\ attempted = <<>>
  /\ calls = <<Push([ready |-> TRUE, open |-> open, active |-> active, attempts |-> 0]), Take(TRUE)>>
  /\ inFlight = TRUE
  /\ changes = 0 /\ faults = 0

-----------------------------------------------------------------------------
(* The requesters *)

Answer(r, answer) == result' = [result EXCEPT ![r] = answer]

(* A request begins: the service looks into its store, the probe into the  *)
(* cached snapshot.  The service handles one request at a time.            *)
Begin(r, snapshot) ==
  /\ result[r] = "none"
  /\ Answer(r, IF ~snapshot.ready THEN "not_ready"
               ELSE IF target[r] \notin snapshot.open THEN "not_found" ELSE "asking")
  /\ UNCHANGED <<desktopVars, known, cache, target, helperVars, scriptVars, signals,
                 accepted, attempted, changes, faults>>

ServiceBlocked == \E r \in HttpRequests : result[r] \in {"asking", "requesting"}

HttpActivate(r) == r \in HttpRequests /\ ~ServiceBlocked /\ Begin(r, known)

(* The probe waits for a cached snapshot (or times out, which is the same  *)
(* as never asking).                                                       *)
ProbeActivate(r) == r \in ProbeRequests /\ cache.ready /\ Begin(r, cache)

(* activateWindow: is there a helper, and has it a snapshot?  Looking at a *)
(* helper that is down starts it, too late for this request.               *)
HelperStarts == helper' = "up" /\ kept' = cache /\ UNCHANGED queue
HelperAnswers == IF helper = "up" THEN UNCHANGED helperVars ELSE HelperStarts

AskIsReady(r) ==
  /\ result[r] = "asking"
  /\ HelperAnswers
  /\ Answer(r, IF helper = "up" /\ kept.ready THEN "requesting" ELSE "not_ready")
  /\ UNCHANGED <<desktopVars, known, cache, target, scriptVars, signals,
                 accepted, attempted, changes, faults>>

(* RequestActivateWindow.  A helper that went down since is started by the *)
(* call, with the cached snapshot.                                         *)
RequestActivateWindow(r) ==
  /\ result[r] = "requesting"
  /\ LET ready == IF helper = "up" THEN kept.ready ELSE cache.ready IN
     \/ /\ ready
        /\ Answer(r, "accepted") /\ accepted' = Append(accepted, r)
        /\ queue' = Append(queue, r)
     \/ /\ ~ready
        /\ Answer(r, "not_activatable")
        /\ UNCHANGED <<accepted, queue>>
  /\ helper' = "up" /\ kept' = (IF helper = "up" THEN kept ELSE cache)
  /\ UNCHANGED <<desktopVars, known, cache, target, scriptVars, signals,
                 attempted, changes, faults>>

-----------------------------------------------------------------------------
(* The helper *)

Delivered(kinds) == calls # <<>> /\ Head(calls) \in kinds /\ calls' = Tail(calls)

(* PushSnapshot answers false and emits nothing when the cached snapshot    *)
(* cannot be written.                                                      *)
PushSnapshot ==
  /\ Delivered(Pushes)
  /\ helper' = "up" /\ UNCHANGED queue
  /\ kept' = Head(calls).snapshot
  /\ \/ cache' = kept' /\ signals' = Append(signals, kept') /\ UNCHANGED faults
     \/ faults < MaxFaults /\ faults' = faults + 1 /\ UNCHANGED <<cache, signals>>
  /\ UNCHANGED <<desktopVars, known, requestVars, replies, inFlight,
                 accepted, attempted, changes>>

TakeKeepingRequest ==
  /\ Delivered(Takes)
  /\ helper' = "up" /\ kept' = (IF helper = "up" THEN kept ELSE cache)
  /\ UNCHANGED queue
  /\ replies' = IF Head(calls).live
                  THEN Append(replies, IF queue = <<>> THEN None ELSE Head(queue)) ELSE replies
  /\ UNCHANGED <<desktopVars, known, cache, requestVars, inFlight, signals,
                 accepted, attempted, changes, faults>>

TakeNewestRequest ==
  /\ Delivered(Takes)
  /\ helper' = "up" /\ kept' = (IF helper = "up" THEN kept ELSE cache)
  /\ queue' = IF queue = <<>> THEN queue ELSE Front(queue)
  /\ replies' = IF Head(calls).live
                  THEN Append(replies, IF queue = <<>> THEN None ELSE Last(queue)) ELSE replies
  /\ UNCHANGED <<desktopVars, known, cache, requestVars, inFlight, signals,
                 accepted, attempted, changes, faults>>

TakeActivationRequest ==
  /\ Delivered(Takes)
  /\ helper' = "up" /\ kept' = (IF helper = "up" THEN kept ELSE cache)
  /\ queue' = IF queue = <<>> THEN queue ELSE Tail(queue)
  /\ replies' = IF Head(calls).live
                  THEN Append(replies, IF queue = <<>> THEN None ELSE Head(queue)) ELSE replies
  /\ UNCHANGED <<desktopVars, known, cache, requestVars, inFlight, signals,
                 accepted, attempted, changes, faults>>

(* Shutdown, or a crash: the queue is gone, and so is the answer to every  *)
(* call that was read already; KWin drops the callback of a failed call,   *)
(* and the controller answers not_ready.                                   *)
HelperEnds ==
  /\ helper = "up"
  /\ faults < MaxFaults /\ faults' = faults + 1
  /\ helper' = "down" /\ kept' = NoSnapshot /\ queue' = <<>>
  /\ \E lost \in SUBSET {r \in Requests : result[r] \in {"asking", "requesting"}} :
       result' = [r \in Requests |-> IF r \in lost THEN "not_ready" ELSE result[r]]
  /\ \E n \in 0 .. Len(calls) : calls' = SubSeq(calls, n + 1, Len(calls))
  /\ UNCHANGED <<desktopVars, known, cache, target, replies, inFlight, signals,
                 accepted, attempted, changes>>

-----------------------------------------------------------------------------
(* The KWin script *)

PollTickUnguarded ==
  /\ inFlight' = TRUE
  /\ Len(calls) < 3
  /\ calls' = Append(calls, Take(TRUE))
  /\ UNCHANGED <<desktopVars, known, cache, requestVars, helperVars, replies, signals,
                 accepted, attempted, changes, faults>>

(* pollActivationRequest from the 100 ms timer; the flag keeps polls apart. *)
PollTick ==
  /\ ~inFlight
  /\ inFlight' = TRUE
  /\ calls' = Append(calls, Take(TRUE))
  /\ UNCHANGED <<desktopVars, known, cache, requestVars, helperVars, replies, signals,
                 accepted, attempted, changes, faults>>

(* The callback without a request waits for the next tick. *)
NothingToActivate ==
  /\ replies # <<>> /\ Head(replies) = None
  /\ replies' = Tail(replies)
  /\ inFlight' = FALSE
  /\ UNCHANGED <<desktopVars, known, cache, requestVars, helperVars, calls, signals,
                 accepted, attempted, changes, faults>>

ActivateWithoutPublishing ==
  /\ replies # <<>> /\ Head(replies) # None
  /\ replies' = Tail(replies)
  /\ attempted' = Append(attempted, Head(replies))
  /\ active' = IF target[Head(replies)] \in open THEN target[Head(replies)] ELSE active
  /\ UNCHANGED open
  /\ calls' = Append(calls, Take(TRUE))
  /\ inFlight' = TRUE
  /\ UNCHANGED <<known, cache, requestVars, helperVars, signals, accepted, changes, faults>>

(* The callback with a request: activateWindowById, which publishes the    *)
(* outcome even when the window is gone, and the next poll at once.        *)
ActivateAndPoll ==
  /\ replies # <<>> /\ Head(replies) # None
  /\ replies' = Tail(replies)
  /\ attempted' = Append(attempted, Head(replies))
  /\ active' = IF target[Head(replies)] \in open THEN target[Head(replies)] ELSE active
  /\ UNCHANGED open
  /\ calls' = calls \o <<Push(Current), Take(TRUE)>>
  /\ inFlight' = TRUE
  /\ UNCHANGED <<known, cache, requestVars, helperVars, signals, accepted, changes, faults>>

Change ==
  /\ changes < MaxChanges /\ changes' = changes + 1
  /\ UNCHANGED attempted
  /\ calls' = Append(calls, Push(Current))
  /\ UNCHANGED <<known, cache, requestVars, helperVars, replies, inFlight, signals,
                 accepted, faults>>

WindowCloses(w) ==
  /\ w \in open
  /\ open' = open \ {w}
  /\ active' \in IF active = w THEN open' \cup {None} ELSE {active}
  /\ Change

UserActivates(w) == w \in open \ {active} /\ active' = w /\ UNCHANGED open /\ Change

(* window_probe setup reloads the script: its callbacks are forgotten and  *)
(* the new one pushes and polls at once.                                   *)
ScriptReloads ==
  /\ faults < MaxFaults /\ faults' = faults + 1
  /\ UNCHANGED <<desktopVars, attempted>>
  /\ calls' = [i \in DOMAIN calls |-> IF calls[i] \in Takes THEN Take(FALSE) ELSE calls[i]]
                \o <<Push(Current), Take(TRUE)>>
  /\ inFlight' = TRUE
  /\ replies' = <<>>
  /\ UNCHANGED <<known, cache, requestVars, helperVars, signals, accepted, changes>>

-----------------------------------------------------------------------------
(* The observer and store of the service, unless a request blocks it. *)
HandleSnapshotChanged ==
  /\ ~ServiceBlocked
  /\ signals # <<>>
  /\ known' = Head(signals) /\ signals' = Tail(signals)
  /\ UNCHANGED <<desktopVars, cache, requestVars, helperVars, scriptVars,
                 accepted, attempted, changes, faults>>

Next ==
  \/ \E r \in HttpRequests : HttpActivate(r)
  \/ \E r \in ProbeRequests : ProbeActivate(r)
  \/ \E r \in Requests : AskIsReady(r)
  \/ \E r \in Requests : RequestActivateWindow(r)
  \/ PushSnapshot
  \/ TakeActivationRequest
  \/ HelperEnds
  \/ PollTick
  \/ NothingToActivate
  \/ ActivateAndPoll
  \/ \E w \in Windows : WindowCloses(w)
  \/ \E w \in Windows : UserActivates(w)
  \/ ScriptReloads
  \/ HandleSnapshotChanged

Spec == Init /\ [][Next]_vars

(* Every process runs, every call, answer and signal is delivered and the  *)
(* timer of the script ticks.  Nobody has to make requests or changes.     *)
Fairness ==
  /\ \A r \in Requests : WF_vars(AskIsReady(r)) /\ WF_vars(RequestActivateWindow(r))
  /\ WF_vars(PushSnapshot) /\ WF_vars(TakeActivationRequest)
  /\ WF_vars(PollTick) /\ WF_vars(NothingToActivate) /\ WF_vars(ActivateAndPoll)
  /\ WF_vars(HandleSnapshotChanged)

FairSpec == Spec /\ Fairness

-----------------------------------------------------------------------------
Requested(replied) == IF replied # <<>> /\ Head(replied) # None THEN <<Head(replied)>> ELSE <<>>

(* Requests are attempted in the order in which they were accepted, each   *)
(* at most once, whatever the requesters interleave with and even when the *)
(* helper ends or the script is reloaded: what was attempted, then what is *)
(* being answered, then what is queued is part of the order of acceptance  *)
(* (RequestActivateWindow, TakeActivationRequest, pollActivationRequest).  *)
UnderWay == attempted \o Requested(replies) \o queue
AttemptedInOrder ==
  /\ \A i, j \in DOMAIN UnderWay :
       i < j => \E a, b \in DOMAIN accepted :
                  a < b /\ accepted[a] = UnderWay[i] /\ accepted[b] = UnderWay[j]
  /\ \A a, b \in DOMAIN accepted : accepted[a] = accepted[b] => a = b

(* While no helper ends and no script is reloaded none is skipped either.  *)
NoneSkipped == faults = 0 => UnderWay = accepted

(* One poll of the running script is on its way at any time, and while its *)
(* flag is down none is.                                                   *)
OnePollInFlight ==
  LET polls == {i \in DOMAIN calls : calls[i] = Take(TRUE)}
  IN  /\ \A i, j \in polls : i = j
      /\ replies # <<>> => polls = {}
      /\ ~inFlight => polls = {} /\ replies = <<>>

(* What the HTTP API says of an accepted request: its outcome is published *)
(* later through the normal snapshot flow (specs/openapi.yaml).            *)
AcceptedIsPublished ==
  \A r \in Requests :
    (result[r] = "accepted") ~> (\E i \in 1 .. known.attempts : attempted[i] = r)

(* It is so unless the helper ends, the script is reloaded or a snapshot   *)
(* is lost.                                                                *)
AcceptedIsPublishedWithoutFaults == [](faults = 0) => AcceptedIsPublished

(* And then, once the user is quiet, the store shows the windows as KWin   *)
(* has them, activated or not.                                             *)
StoreCatchesUp == [](faults = 0) => <>[](known.open = open /\ known.active = active)
=============================================================================
