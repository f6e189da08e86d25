------------------------------ MODULE ProbeRun ------------------------------
(***************************************************************************)
(* One run of a probe tool: audio_probe, audio_control_probe or            *)
(* window_probe, from the start queued by its main() to the end of its     *)
(* event loop (audio_probe_runner.cpp, audio_control_probe_runner.cpp,     *)
(* window_probe_runner.cpp).                                               *)
(*                                                                         *)
(* A run races its startup timer against what it waits for: PulseAudio, or *)
(* the snapshot cached by the window helper.  finished() makes the loop    *)
(* leave, but events that are due in the same pass are still dispatched.   *)
(***************************************************************************)
EXTENDS Integers, Sequences, SequencesExt

CONSTANTS
  MaxContextChanges, (* bound: changes of the state of the PulseAudio context *)
  MaxPrinted         (* bound: lines printed in watch mode                    *)

ASSUME BoundsAssumption == {MaxContextChanges, MaxPrinted} \subseteq Nat

AudioProbes == {"audio", "audioWatch"}
WindowProbes == {"windowList", "windowActivate"} (* list, active; activate     *)
BackendCommands == {"windowSetup"}               (* setup, status, teardown    *)
Probes == AudioProbes \cup {"audioControl"} \cup WindowProbes \cup BackendCommands

NoCode == -1

VARIABLES
  probe,    (* the tool and its command                                       *)
  loop,     (* the event loop: "running", "leaving" once finished, "ended"    *)
  pending,  (* single shots of length 0: "start", and "submit" of audioControl *)
  run,      (* the runner: m_finished, the exit code, m_startupTimer, m_initialState- *)
            (* or m_initialSnapshotPublished; what it printed and asked for   *)
  polling,  (* m_pollTimer of the cache: "off", "on" or "restarted"           *)
  ready,    (* the source has its initial state                               *)
  context,  (* the PulseAudio context                                         *)
  cache,    (* the cached snapshot: "missing", "invalid", or with or without  *)
            (* the window that is to be activated                             *)
  timedOut, (* history: the startup timer expired                             *)
  settled,  (* history: the context was once ready or failed                  *)
  changes

vars == <<probe, loop, pending, run, polling, ready, context, cache, timedOut, settled, changes>>
external == <<context, cache, settled, changes>>

Successes == {"initial", "change", "accepted", "done"}
Refusals == {"notReady", "refused"}
Errors == {"timedOut", "connectionFailed", "notConfigured"}

TypeOK ==
  /\ probe \in Probes
  /\ loop \in {"running", "leaving", "ended"}
  /\ pending \subseteq {"start", "submit"}
  /\ run.finished \in BOOLEAN /\ run.timer \in BOOLEAN /\ run.published \in BOOLEAN
  /\ run.exitCode \in {NoCode, 0, 1} /\ run.submissions \in 0 .. 2
  /\ run.printed \in BoundedSeq(Successes \cup Refusals, MaxPrinted + 1)
  /\ run.errors \subseteq Errors
  /\ polling \in {"off", "on", "restarted"}
  /\ {ready, timedOut, settled} \subseteq BOOLEAN
  /\ context \in {"connecting", "ready", "failed"}
  /\ cache \in {"missing", "invalid", "with", "without"}
  /\ changes \in 0 .. MaxContextChanges

(* The connection to PulseAudio has been begun, and may have failed at once. *)
Init ==
  /\ probe \in Probes
  /\ loop = "running" /\ pending = {"start"}
  /\ run = [finished |-> FALSE, exitCode |-> NoCode, timer |-> FALSE, published |-> FALSE,
            printed |-> <<>>, errors |-> {}, submissions |-> 0]
  /\ polling = "off" /\ ready = FALSE
  /\ context \in {"connecting", "failed"} /\ cache \in {"missing", "invalid", "with", "without"}
  /\ timedOut = FALSE /\ settled = (context # "connecting") /\ changes = 0

-----------------------------------------------------------------------------
(* What the runners do: each yields the runner afterwards. *)

FinishAnyway(r, code) == [r EXCEPT !.finished = TRUE, !.exitCode = code, !.timer = FALSE]
Finish(r, code) ==
  IF r.finished THEN r
  ELSE [r EXCEPT !.finished = TRUE, !.exitCode = code, !.timer = FALSE]

Printed(r, what) == [r EXCEPT !.printed = Append(@, what)]
Report(r, error) == [r EXCEPT !.errors = @ \cup {error}]

(* A result is printed, and finishes the run with the exit code it stands for. *)
Conclude(r, what) == Finish(Printed(r, what), IF what \in Successes THEN 0 ELSE 1)

(* AudioControlProbeRunner::submitRequest; the answers of the controllers. *)
ControllerAnswers(c) == IF c = "ready" THEN {"accepted", "refused"} ELSE {"notReady"}
SubmitAgain(r, c) ==
  { Conclude([r EXCEPT !.submissions = @ + 1], a) : a \in ControllerAnswers(c) }
SubmitRequest(r, c) ==
  IF r.finished THEN {r}
  ELSE { Conclude([r EXCEPT !.submissions = @ + 1], a) : a \in ControllerAnswers(c) }

(* WindowProbeRunner::executeWindowActivation *)
ExecuteWindowActivation(r) ==
  IF cache = "with"
  THEN { Conclude([r EXCEPT !.submissions = @ + 1], a) : a \in {"accepted", "refused", "notReady"} }
  ELSE { Conclude(r, "refused") }

(* publishInitialState and publishInitialSnapshot *)
PublishAndStay(r) ==
  IF r.published THEN {r}
  ELSE LET p == [r EXCEPT !.published = TRUE, !.timer = FALSE]
       IN  IF probe = "windowActivate" THEN ExecuteWindowActivation(p)
           ELSE { Printed(p, "initial") }
PublishInitial(r) ==
  IF r.published THEN {r}
  ELSE LET p == [r EXCEPT !.published = TRUE, !.timer = FALSE]
       IN  IF probe = "windowActivate" THEN ExecuteWindowActivation(p)
           ELSE { IF probe = "audioWatch" THEN Printed(p, "initial") ELSE Conclude(p, "initial") }

(* The handler of connectionFailed *)
ConnectionFailed(r, isReady) ==
  LET reported == Report(r, "connectionFailed")
  IN  IF isReady THEN reported ELSE Finish(reported, 1)

(* Every handler ends here: once the runner is finished, the loop leaves. *)
Becomes(runs) ==
  /\ run' \in runs
  /\ loop' = IF run'.finished THEN "leaving" ELSE loop

-----------------------------------------------------------------------------
(* Handlers *)

Dispatching == loop # "ended"

(* readKWinScriptCachedSnapshot: a snapshot, an error, or neither *)
CachedSnapshot ==
  CASE cache \in {"with", "without"} -> "snapshot"
    [] cache = "invalid" -> "error"
    [] cache = "missing" -> "none"

(* KWinScriptWindowProbeSource::Impl::pollCache, with what becomes of the  *)
(* timer on an error.                                                      *)
PollCache(r, pollingOnError) ==
  /\ ready' = (ready \/ CachedSnapshot = "snapshot")
  /\ CASE CachedSnapshot = "snapshot" -> Becomes(PublishInitial(r)) /\ polling' = "off"
       [] CachedSnapshot = "error" -> Becomes({ConnectionFailed(r, ready)}) /\ polling' = pollingOnError
       [] CachedSnapshot = "none" -> Becomes({r}) /\ polling' = "on"

StartAudio ==
  /\ probe \in AudioProbes
  /\ LET r == [run EXCEPT !.timer = TRUE]
     IN  Becomes({ IF context = "failed" THEN ConnectionFailed(r, ready) ELSE r })
  /\ UNCHANGED <<polling, ready>>

StartControlUngated ==
  /\ pending' = {"submit"} /\ Becomes({run})
StartControl ==
  IF ~run.finished /\ context = "connecting"
  THEN pending' = {} /\ Becomes({[run EXCEPT !.timer = TRUE]})
  ELSE /\ pending' = IF run.finished THEN {} ELSE {"submit"}
       /\ Becomes({IF run.finished THEN Finish(run, 1) ELSE run})

(* The script or the helper is not installed, or the script is disabled. *)
BackendReadinessError ==
  /\ Becomes({Finish(Report(run, "notConfigured"), 1)})
  /\ UNCHANGED <<polling, ready>>

(* The source starts to poll unless the first poll found a snapshot, also  *)
(* when that poll failed.                                                  *)
StartWindow ==
  /\ probe \in WindowProbes
  /\ \/ BackendReadinessError
     \/ PollCache([run EXCEPT !.timer = TRUE], "restarted")

StartCommand ==
  /\ probe \in BackendCommands
  /\ Becomes({Conclude(run, "done"), Conclude(run, "refused")})
  /\ UNCHANGED <<polling, ready>>

Start ==
  /\ Dispatching /\ "start" \in pending
  /\ \/ (StartAudio \/ StartWindow \/ StartCommand) /\ pending' = {}
     \/ probe = "audioControl" /\ StartControl /\ UNCHANGED <<polling, ready>>
  /\ UNCHANGED <<probe, timedOut, external>>

(* The request that was queued by the start. *)
SubmitSoon ==
  /\ Dispatching /\ "submit" \in pending
  /\ pending' = {}
  /\ Becomes(SubmitRequest(run, context))
  /\ UNCHANGED <<probe, polling, ready, timedOut, external>>

StartupTimeout ==
  /\ Dispatching /\ run.timer
  /\ timedOut' = TRUE
  /\ LET r == [run EXCEPT !.timer = FALSE]
     IN  Becomes(CASE probe = "audioControl" -> SubmitRequest(r, context)
                   [] probe # "audioControl" ->
                        { IF ready THEN r ELSE Finish(Report(r, "timedOut"), 1) })
  /\ UNCHANGED <<probe, pending, polling, ready, external>>

(* The poll timer; it is not due any more in the pass that restarted it. *)
Poll ==
  /\ Dispatching /\ polling = "on"
  /\ PollCache(run, "off")
  /\ UNCHANGED <<probe, pending, timedOut, external>>

(* PulseAudioStateObserver publishes its initial state, then changes. *)
ObserverPublishes ==
  /\ Dispatching /\ probe \in AudioProbes
  /\ "start" \notin pending /\ context = "ready" /\ ~ready
  /\ ready' = TRUE
  /\ Becomes(PublishInitial(run))
  /\ UNCHANGED <<probe, pending, polling, timedOut, external>>
ObserverChanges ==
  /\ Dispatching /\ probe \in AudioProbes /\ ready
  /\ Len(run.printed) < MaxPrinted
  /\ Becomes({ IF probe = "audioWatch" THEN Printed(run, "change") ELSE run })
  /\ UNCHANGED <<probe, pending, polling, ready, timedOut, external>>

(* The state of the PulseAudio context changes, which the observer and the *)
(* submission gate hear of.                                                *)
ContextChanges ==
  /\ Dispatching /\ probe \in AudioProbes \cup {"audioControl"}
  /\ changes < MaxContextChanges /\ changes' = changes + 1
  /\ \E c \in {"connecting", "ready", "failed"} \ {context} :
       /\ context = "ready" => c = "failed"
       /\ context' = c
       /\ settled' = (settled \/ c # "connecting")
       /\ Becomes(CASE probe = "audioControl" ->
                         IF c # "connecting" THEN SubmitRequest(run, c) ELSE {run}
                    [] probe \in AudioProbes ->
                         { IF c = "failed" /\ ~ready /\ "start" \notin pending
                           THEN ConnectionFailed(run, ready) ELSE run })
  /\ UNCHANGED <<probe, pending, polling, ready, cache, timedOut>>

(* Other processes write the cache (external). *)
CacheWritten ==
  /\ Dispatching /\ probe \in WindowProbes
  /\ \E c \in {"with", "without", "invalid"} \ {cache} : cache' = c
  /\ UNCHANGED <<probe, loop, pending, run, polling, ready, context, timedOut, settled, changes>>

(* QCoreApplication::exit takes effect when the pass is over. *)
Leave ==
  /\ loop = "leaving" /\ loop' = "ended"
  /\ UNCHANGED <<probe, pending, run, polling, ready, timedOut, external>>

Next ==
  \/ Start \/ SubmitSoon \/ StartupTimeout \/ Poll
  \/ ObserverPublishes \/ ObserverChanges
  \/ ContextChanges \/ CacheWritten
  \/ Leave

Spec == Init /\ [][Next]_vars

(* The event loop dispatches what is due, and timers expire. *)
FairSpec ==
  Spec /\ WF_vars(Start) /\ WF_vars(SubmitSoon) /\ WF_vars(StartupTimeout) /\ WF_vars(Leave)

-----------------------------------------------------------------------------
(* Properties *)

(* Whatever the start, the gate, the timers and the sources make of each   *)
(* other, a request is submitted at most once and a one-shot run prints    *)
(* one result: an increment is not applied twice (m_finished,              *)
(* m_initialSnapshotPublished).                                            *)
OneOutcome ==
  /\ run.submissions <= 1
  /\ probe # "audioWatch" => Len(run.printed) <= 1

(* The exit code tells what the run printed first, to scripts that only    *)
(* look at the code: 0 only after a result that is a success, 1 only after *)
(* a refusal or an error message (finish, exitCodeForResult).              *)
ExitCodeTellsOutcome ==
  /\ run.exitCode = 0 => run.printed # <<>> /\ run.printed[1] \in Successes
  /\ run.exitCode = 1 => \/ run.errors # {}
                         \/ run.printed # <<>> /\ run.printed[1] \in Refusals

(* audio_control_probe does not submit its request before PulseAudio can   *)
(* be ready, unless it waited for as long as --timeout-ms lets it          *)
(* (shouldSubmitRequest).                                                  *)
WaitsForPulseAudio ==
  probe = "audioControl" /\ run.submissions > 0 => settled \/ timedOut

(* Every run ends, but that of a probe that watches: PulseAudio and the    *)
(* helper may stay silent, and the timer that would end the run is stopped *)
(* at some places (m_startupTimer).                                        *)
RunsEnd == probe # "audioWatch" ~> loop = "ended"
=============================================================================
