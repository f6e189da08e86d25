--------------------------- MODULE ProbeRunProofs ---------------------------
(***************************************************************************)
(* Proofs about ProbeRun, for any number of changes and of printed lines:  *)
(* a run of a probe has one outcome, its exit code tells which, and        *)
(* audio_control_probe waits for PulseAudio.                               *)
(***************************************************************************)
EXTENDS ProbeRun, TLAPS

Results == Successes \cup Refusals

Runs ==
  [finished : BOOLEAN, exitCode : {NoCode, 0, 1}, timer : BOOLEAN, published : BOOLEAN,
   printed : Seq(Results), errors : SUBSET Errors, submissions : {0, 1}]

(* The exit code is set with the end of the run, and told truly. *)
Sound(r) ==
  /\ r \in Runs
  /\ r.finished <=> r.exitCode # NoCode
  /\ r.exitCode = 0 => r.printed # <<>> /\ r.printed[1] \in Successes
  /\ r.exitCode = 1 => \/ r.errors # {}
                       \/ r.printed # <<>> /\ r.printed[1] \in Refusals

NothingYet(r) == r.printed = <<>> /\ r.submissions = 0

(* What guards a probe against a second outcome: that it has published, or *)
(* for audio_control_probe, that it has finished.                          *)
Guarded(p, r, isReady) ==
  /\ p \in AudioProbes => r.submissions = 0 /\ (r.published <=> isReady)
  /\ (p \in AudioProbes \cup WindowProbes /\ ~r.published) => NothingYet(r)
  /\ (p = "audioControl" /\ ~r.finished) => NothingYet(r)
  /\ p \in BackendCommands => r.submissions = 0

Printable(p, r) ==
  /\ Len(r.printed) <= MaxPrinted + 1
  /\ p # "audioWatch" => Len(r.printed) <= 1

RunInv(p, r, isReady) == Sound(r) /\ Guarded(p, r, isReady) /\ Printable(p, r)

(* PulseAudio was heard of before a request is queued. *)
QueueInv ==
  /\ pending \subseteq {"start", "submit"}
  /\ "submit" \in pending => probe = "audioControl" /\ settled
  /\ (probe \in BackendCommands /\ "start" \in pending) => run.printed = <<>>
  /\ context # "connecting" => settled

SourcesInv ==
  /\ probe \in Probes
  /\ loop \in {"running", "leaving", "ended"}
  /\ polling \in {"off", "on", "restarted"}
  /\ polling # "off" => probe \in WindowProbes
  /\ ready \in BOOLEAN /\ timedOut \in BOOLEAN /\ settled \in BOOLEAN
  /\ context \in {"connecting", "ready", "failed"}
  /\ cache \in {"missing", "invalid", "with", "without"}
  /\ changes \in 0 .. MaxContextChanges

IInv == SourcesInv /\ QueueInv /\ RunInv(probe, run, ready) /\ WaitsForPulseAudio

-----------------------------------------------------------------------------
(* The runner *)

LEMMA AppendedTo ==
  ASSUME NEW S, NEW q \in Seq(S), NEW x \in S
  PROVE  /\ Append(q, x) \in Seq(S) /\ Append(q, x) # <<>>
         /\ Len(Append(q, x)) = Len(q) + 1
         /\ q = <<>> => Append(q, x)[1] = x
         /\ q # <<>> => Append(q, x)[1] = q[1]
<1>1. Append(q, x) \in Seq(S) /\ Len(Append(q, x)) = Len(q) + 1
  OBVIOUS
<1>2. q = <<>> => Append(q, x)[1] = x
  OBVIOUS
<1>3. q # <<>> => Append(q, x)[1] = q[1]
  OBVIOUS
<1>4. Append(q, x) # <<>>
  <2>1. Len(q) \in Nat /\ Len(<<>>) = 0
    OBVIOUS
  <2> QED
    BY <1>1, <2>1
<1> QED BY <1>1, <1>2, <1>3, <1>4

LEMMA FinishSound ==
  ASSUME NEW r, Sound(r), NEW code \in {0, 1},
         code = 0 => r.printed # <<>> /\ r.printed[1] \in Successes,
         code = 1 => r.errors # {} \/ (r.printed # <<>> /\ r.printed[1] \in Refusals)
  PROVE  /\ Sound(Finish(r, code)) /\ Finish(r, code).finished
         /\ Finish(r, code).printed = r.printed
         /\ Finish(r, code).submissions = r.submissions
         /\ Finish(r, code).published = r.published
<1> DEFINE f == Finish(r, code)
<1>1. r \in Runs
  BY DEF Sound
<1>2. CASE r.finished
  BY <1>2 DEF Finish
<1>3. CASE ~r.finished
  <2>1. f = [r EXCEPT !.finished = TRUE, !.exitCode = code, !.timer = FALSE]
    BY <1>3 DEF Finish
  <2>2. /\ f.finished = TRUE /\ f.exitCode = code /\ f.timer = FALSE /\ f.errors = r.errors
        /\ f.printed = r.printed /\ f.submissions = r.submissions /\ f.published = r.published
    BY <1>1, <2>1 DEF Runs
  <2>3. f \in Runs
    BY <1>1, <2>1 DEF Runs
  <2> HIDE DEF f
  <2>4. f.exitCode # NoCode
    BY <2>2 DEF NoCode
  <2>5. Sound(f)
    BY <2>2, <2>3, <2>4 DEF Sound
  <2> QED BY <2>2, <2>5 DEF f
<1> QED BY <1>2, <1>3

LEMMA PrintedSound ==
  ASSUME NEW r, Sound(r), NEW what \in Results
  PROVE  /\ Sound(Printed(r, what))
         /\ Printed(r, what).printed # <<>>
         /\ Len(Printed(r, what).printed) = Len(r.printed) + 1
         /\ r.printed = <<>> => Printed(r, what).printed[1] = what
         /\ Printed(r, what) = [r EXCEPT !.printed = Printed(r, what).printed]
<1> DEFINE p == Append(r.printed, what)
<1>1. r \in Runs /\ r.printed \in Seq(Results)
  BY DEF Sound, Runs
<1>2. /\ p \in Seq(Results) /\ p # <<>> /\ Len(p) = Len(r.printed) + 1
      /\ r.printed = <<>> => p[1] = what
      /\ r.printed # <<>> => p[1] = r.printed[1]
  BY <1>1, AppendedTo DEF Runs
<1>3. Printed(r, what) = [r EXCEPT !.printed = p]
  BY DEF Printed
<1> HIDE DEF p
<1>4. Printed(r, what).printed = p
  BY <1>1, <1>3 DEF Runs
<1>5. Sound([r EXCEPT !.printed = p])
  BY <1>1, <1>2 DEF Sound, Runs
<1> QED
  BY <1>2, <1>3, <1>4, <1>5

LEMMA ConcludeSound ==
  ASSUME NEW r, Sound(r), r.printed = <<>>, NEW what \in Results
  PROVE  /\ Sound(Conclude(r, what))
         /\ Len(Conclude(r, what).printed) = 1
         /\ Conclude(r, what).finished
         /\ Conclude(r, what).submissions = r.submissions
         /\ Conclude(r, what).published = r.published
<1> DEFINE p == Printed(r, what)
           code == IF what \in Successes THEN 0 ELSE 1
<1>1. /\ Sound(p) /\ p.printed # <<>> /\ p.printed[1] = what
      /\ Len(p.printed) = Len(r.printed) + 1
      /\ p = [r EXCEPT !.printed = p.printed]
  BY PrintedSound
<1>2. p.submissions = r.submissions /\ p.published = r.published
  BY <1>1 DEF Sound, Runs
<1>3. Len(r.printed) = 0
  OBVIOUS
<1>4. /\ code \in {0, 1}
      /\ code = 0 => what \in Successes
      /\ code = 1 => what \in Refusals
  BY DEF Results
<1>5. Conclude(r, what) = Finish(p, code)
  BY DEF Conclude
<1> HIDE DEF p, code
<1>6. /\ Sound(Finish(p, code)) /\ Finish(p, code).finished
      /\ Finish(p, code).printed = p.printed
      /\ Finish(p, code).submissions = p.submissions
      /\ Finish(p, code).published = p.published
  BY <1>1, <1>4, FinishSound
<1> QED
  BY <1>1, <1>2, <1>3, <1>5, <1>6

(* What stays of a runner that reports an error and may finish with it. *)
LEMMA ErrorSound ==
  ASSUME NEW r, Sound(r), NEW error \in Errors
  PROVE  \A x \in {Report(r, error), Finish(Report(r, error), 1)} :
           /\ Sound(x) /\ x.printed = r.printed
           /\ x.submissions = r.submissions /\ x.published = r.published
           /\ r.finished => x.finished
<1>1. /\ Sound(Report(r, error)) /\ Report(r, error).errors # {}
      /\ Report(r, error) = [r EXCEPT !.errors = Report(r, error).errors]
  BY DEF Report, Sound, Runs
<1>2. ASSUME NEW e, Sound(e), e.errors # {}
      PROVE  /\ Sound(Finish(e, 1)) /\ Finish(e, 1).printed = e.printed
             /\ Finish(e, 1).submissions = e.submissions /\ Finish(e, 1).published = e.published
             /\ e.finished => Finish(e, 1).finished
  BY <1>2, FinishSound
<1>3. /\ Report(r, error).printed = r.printed /\ Report(r, error).finished = r.finished
      /\ Report(r, error).submissions = r.submissions /\ Report(r, error).published = r.published
  BY <1>1 DEF Sound, Runs
<1> QED
  BY <1>1, <1>2, <1>3

LEMMA ErrorKeeps ==
  ASSUME NEW p, NEW isReady, NEW r, RunInv(p, r, isReady), NEW error \in Errors
  PROVE  \A x \in {Report(r, error), Finish(Report(r, error), 1)} :
           RunInv(p, x, isReady) /\ x.printed = r.printed /\ x.submissions = r.submissions
<1>1. Sound(r)
  BY DEF RunInv
<1>2. ASSUME NEW x \in {Report(r, error), Finish(Report(r, error), 1)}
      PROVE  RunInv(p, x, isReady) /\ x.printed = r.printed /\ x.submissions = r.submissions
  <2>1. /\ Sound(x) /\ x.printed = r.printed
        /\ x.submissions = r.submissions /\ x.published = r.published
        /\ r.finished => x.finished
    BY <1>1, ErrorSound
  <2> QED
    BY <2>1 DEF RunInv, Guarded, Printable, NothingYet
<1> QED BY <1>2

(* The startup timer is started and stopped. *)
LEMMA TimerKeeps ==
  ASSUME NEW p, NEW isReady, NEW r, RunInv(p, r, isReady), NEW t \in BOOLEAN
  PROVE  /\ RunInv(p, [r EXCEPT !.timer = t], isReady)
         /\ [r EXCEPT !.timer = t].printed = r.printed
         /\ [r EXCEPT !.timer = t].submissions = r.submissions
<1> DEFINE x == [r EXCEPT !.timer = t]
<1>1. r \in Runs
  BY DEF RunInv, Sound
<1>2. /\ x \in Runs /\ x.finished = r.finished /\ x.exitCode = r.exitCode
      /\ x.printed = r.printed /\ x.errors = r.errors
      /\ x.submissions = r.submissions /\ x.published = r.published
  BY <1>1 DEF Runs
<1> HIDE DEF x
<1>3. RunInv(p, x, isReady)
  BY <1>2 DEF RunInv, Sound, Guarded, Printable, NothingYet
<1> QED BY <1>2, <1>3 DEF x

(* Asking a controller *)

(* A request that is submitted, and its answer printed. *)
LEMMA SubmissionSound ==
  ASSUME NEW r, Sound(r), NothingYet(r), NEW what \in Results
  PROVE  /\ Sound(Conclude([r EXCEPT !.submissions = @ + 1], what))
         /\ Len(Conclude([r EXCEPT !.submissions = @ + 1], what).printed) = 1
         /\ Conclude([r EXCEPT !.submissions = @ + 1], what).finished
         /\ Conclude([r EXCEPT !.submissions = @ + 1], what).published = r.published
<1> DEFINE s == [r EXCEPT !.submissions = @ + 1]
<1>1. r \in Runs /\ r.submissions = 0 /\ r.printed = <<>>
  BY DEF Sound, NothingYet
<1>2. /\ s \in Runs /\ s.finished = r.finished /\ s.exitCode = r.exitCode
      /\ s.printed = r.printed /\ s.errors = r.errors /\ s.published = r.published
  BY <1>1 DEF Runs
<1> HIDE DEF s
<1>3. Sound(s) /\ s.printed = <<>>
  BY <1>1, <1>2 DEF Sound
<1>4. /\ Sound(Conclude(s, what)) /\ Len(Conclude(s, what).printed) = 1
      /\ Conclude(s, what).finished /\ Conclude(s, what).published = s.published
  BY <1>3, ConcludeSound
<1> QED BY <1>2, <1>4 DEF s

(* audio_control_probe submits its request once. *)
LEMMA SubmitKeeps ==
  ASSUME MaxPrinted \in Nat, NEW isReady, NEW r, RunInv("audioControl", r, isReady), NEW c
  PROVE  \A x \in SubmitRequest(r, c) :
           RunInv("audioControl", x, isReady) /\ x.finished
<1>1. CASE r.finished
  BY <1>1 DEF SubmitRequest
<1>2. CASE ~r.finished
  <2>1. Sound(r) /\ NothingYet(r)
    BY <1>2 DEF RunInv, Guarded
  <2>2. ControllerAnswers(c) \subseteq Results
    BY DEF ControllerAnswers, Results, Successes, Refusals
  <2>3. ASSUME NEW x \in SubmitRequest(r, c)
        PROVE  RunInv("audioControl", x, isReady) /\ x.finished
    <3>1. PICK a \in ControllerAnswers(c) : x = Conclude([r EXCEPT !.submissions = @ + 1], a)
      BY <1>2, <2>3 DEF SubmitRequest
    <3>2. a \in Results
      BY <2>2
    <3>3. Sound(x) /\ Len(x.printed) = 1 /\ x.finished
      BY <2>1, <3>1, <3>2, SubmissionSound
    <3> QED
      BY <3>3 DEF RunInv, Guarded, Printable, AudioProbes, WindowProbes, BackendCommands
  <2> QED BY <2>3
<1> QED BY <1>1, <1>2

(* window_probe looks for the window that it is to activate. *)
LEMMA ActivationKeeps ==
  ASSUME NEW r, Sound(r), NothingYet(r)
  PROVE  \A x \in ExecuteWindowActivation(r) :
           Sound(x) /\ Len(x.printed) = 1 /\ x.published = r.published
<1>1. ASSUME NEW x \in ExecuteWindowActivation(r)
      PROVE  Sound(x) /\ Len(x.printed) = 1 /\ x.published = r.published
  <2>1. {"accepted", "refused", "notReady"} \subseteq Results
    BY DEF Results, Successes, Refusals
  <2>2. CASE cache = "with"
    <3>1. PICK a \in {"accepted", "refused", "notReady"} :
            x = Conclude([r EXCEPT !.submissions = @ + 1], a)
      BY <1>1, <2>2 DEF ExecuteWindowActivation
    <3>2. a \in Results
      BY <2>1
    <3> QED
      BY <3>1, <3>2, SubmissionSound
  <2>3. CASE cache # "with"
    <3>1. x = Conclude(r, "refused")
      BY <1>1, <2>3 DEF ExecuteWindowActivation
    <3>2. r.printed = <<>> /\ "refused" \in Results
      BY <2>1 DEF NothingYet
    <3> QED
      BY <3>1, <3>2, ConcludeSound
  <2> QED BY <2>2, <2>3
<1> QED BY <1>1

(* What the source has to say at first is printed, and acted upon, once.   *)
LEMMA PublishKeeps ==
  ASSUME MaxPrinted \in Nat, probe \in AudioProbes \cup WindowProbes,
         NEW isReady, NEW r, RunInv(probe, r, isReady), NEW after, after = TRUE
  PROVE  \A x \in PublishInitial(r) : RunInv(probe, x, after) /\ x.published
<1>1. CASE r.published
  BY <1>1 DEF PublishInitial, RunInv, Guarded
<1>2. CASE ~r.published
  <2> DEFINE p == [r EXCEPT !.published = TRUE, !.timer = FALSE]
  <2>1. Sound(r) /\ NothingYet(r) /\ r \in Runs
    BY <1>2 DEF RunInv, Guarded, Sound
  <2>2. /\ p \in Runs /\ p.finished = r.finished /\ p.exitCode = r.exitCode
        /\ p.printed = r.printed /\ p.errors = r.errors
        /\ p.submissions = r.submissions /\ p.published = TRUE
    BY <2>1 DEF Runs
  <2>3. PublishInitial(r) =
          IF probe = "windowActivate" THEN ExecuteWindowActivation(p)
          ELSE { IF probe = "audioWatch" THEN Printed(p, "initial") ELSE Conclude(p, "initial") }
    BY <1>2 DEF PublishInitial
  <2> HIDE DEF p
  <2>4. Sound(p) /\ NothingYet(p)
    BY <2>1, <2>2 DEF Sound, NothingYet
  <2>5. p.printed = <<>> /\ p.submissions = 0 /\ Len(p.printed) = 0
    BY <2>4 DEF NothingYet
  <2>6. "initial" \in Results
    BY DEF Results, Successes
  <2>7. ASSUME NEW x \in PublishInitial(r) PROVE RunInv(probe, x, after) /\ x.published
    <3>1. CASE probe = "windowActivate"
      <4>1. Sound(x) /\ Len(x.printed) = 1 /\ x.published
        BY <2>2, <2>3, <2>4, <2>7, <3>1, ActivationKeeps
      <4> QED
        BY <3>1, <4>1 DEF RunInv, Guarded, Printable, AudioProbes, WindowProbes, BackendCommands
    <3>2. CASE probe = "audioWatch"
      <4>1. x = Printed(p, "initial")
        BY <2>3, <2>7, <3>2
      <4>2. /\ Sound(Printed(p, "initial"))
            /\ Len(Printed(p, "initial").printed) = Len(p.printed) + 1
            /\ Printed(p, "initial") = [p EXCEPT !.printed = Printed(p, "initial").printed]
        BY <2>4, <2>6, PrintedSound
      <4>3. Printed(p, "initial").published /\ Printed(p, "initial").submissions = 0
        BY <2>2, <2>5, <4>2 DEF Runs
      <4>4. Sound(x) /\ Len(x.printed) = 1 /\ x.published /\ x.submissions = 0
        BY <2>5, <4>1, <4>2, <4>3
      <4> QED
        BY <3>2, <4>4 DEF RunInv, Guarded, Printable, AudioProbes, WindowProbes, BackendCommands
    <3>3. CASE probe \notin {"windowActivate", "audioWatch"}
      <4>1. x = Conclude(p, "initial")
        BY <2>3, <2>7, <3>3
      <4>2. Sound(x) /\ Len(x.printed) = 1 /\ x.published /\ x.submissions = 0
        BY <2>2, <2>4, <2>5, <2>6, <4>1, ConcludeSound
      <4> QED
        BY <3>3, <4>2 DEF RunInv, Guarded, Printable, AudioProbes, WindowProbes, BackendCommands
    <3> QED BY <3>1, <3>2, <3>3
  <2> QED BY <2>7
<1> QED BY <1>1, <1>2

LEMMA FailureKeeps ==
  ASSUME NEW p, NEW isReady, NEW r, RunInv(p, r, isReady)
  PROVE  /\ RunInv(p, ConnectionFailed(r, isReady), isReady)
         /\ ConnectionFailed(r, isReady).printed = r.printed
         /\ ConnectionFailed(r, isReady).submissions = r.submissions
<1>1. "connectionFailed" \in Errors
  BY DEF Errors
<1>2. ConnectionFailed(r, isReady)
        \in {Report(r, "connectionFailed"), Finish(Report(r, "connectionFailed"), 1)}
  BY DEF ConnectionFailed
<1> QED BY <1>1, <1>2, ErrorKeeps

(* It does not matter to the other probes whether their source is ready.   *)
LEMMA ReadyOfAudio ==
  ASSUME NEW p, p \notin AudioProbes, NEW r, NEW isReady, NEW after, RunInv(p, r, isReady)
  PROVE  RunInv(p, r, after)
  BY DEF RunInv, Guarded

-----------------------------------------------------------------------------
(* Steps *)

LEMMA PollCacheKeeps ==
  ASSUME IInv, probe \in WindowProbes, NEW r, RunInv(probe, r, ready),
         NEW pollingOnError \in {"off", "restarted"}, PollCache(r, pollingOnError)
  PROVE  /\ RunInv(probe, run', ready') /\ ready' \in BOOLEAN
         /\ loop' \in {"running", "leaving", "ended"}
         /\ polling' \in {"off", "on", "restarted"}
<1>1. /\ loop \in {"running", "leaving", "ended"} /\ ready \in BOOLEAN
      /\ cache \in {"missing", "invalid", "with", "without"}
  BY DEF IInv, SourcesInv
<1>2. ready' \in BOOLEAN
  BY DEF PollCache
<1>3. CachedSnapshot \in {"snapshot", "error", "none"}
  BY <1>1 DEF CachedSnapshot
<1>4. MaxPrinted \in Nat /\ probe \in AudioProbes \cup WindowProbes /\ probe \notin AudioProbes
  BY BoundsAssumption DEF AudioProbes, WindowProbes
<1>5. CASE CachedSnapshot = "snapshot"
  <2>1. Becomes(PublishInitial(r)) /\ polling' = "off"
    BY <1>5 DEF PollCache
  <2>2. PICK after : after = TRUE
    OBVIOUS
  <2>3. RunInv(probe, run', after)
    BY <1>4, <2>1, <2>2, PublishKeeps DEF Becomes
  <2> QED
    BY <1>1, <1>2, <1>4, <2>1, <2>3, ReadyOfAudio DEF Becomes
<1>6. CASE CachedSnapshot = "error"
  <2>1. Becomes({ConnectionFailed(r, ready)}) /\ polling' = pollingOnError
    BY <1>6 DEF PollCache
  <2>2. RunInv(probe, run', ready)
    BY <2>1, FailureKeeps DEF Becomes
  <2> QED
    BY <1>1, <1>2, <1>4, <2>1, <2>2, ReadyOfAudio DEF Becomes
<1>7. CASE CachedSnapshot = "none"
  <2>1. Becomes({r}) /\ polling' = "on"
    BY <1>7 DEF PollCache
  <2> QED
    BY <1>1, <1>2, <1>4, <2>1, ReadyOfAudio DEF Becomes
<1> QED BY <1>3, <1>5, <1>6, <1>7

(* What is left to show of a step of the runner. *)
LEMMA RunnerStep ==
  ASSUME IInv, probe' = probe, RunInv(probe, run', ready'),
         loop' \in {"running", "leaving", "ended"}, ready' \in BOOLEAN,
         polling' = polling \/ (polling' \in {"off", "on", "restarted"} /\ probe \in WindowProbes),
         QueueInv', WaitsForPulseAudio',
         timedOut' \in BOOLEAN, settled' \in BOOLEAN, changes' \in 0 .. MaxContextChanges,
         context' \in {"connecting", "ready", "failed"},
         cache' \in {"missing", "invalid", "with", "without"}
  PROVE  IInv'
<1>1. SourcesInv'
  BY DEF IInv, SourcesInv
<1> QED BY <1>1 DEF IInv

LEMMA StartSafe == ASSUME IInv, Start PROVE IInv'
<1> USE DEF IInv
<1>1. /\ probe' = probe /\ timedOut' = timedOut /\ context' = context /\ cache' = cache
      /\ settled' = settled /\ changes' = changes /\ "start" \in pending
  BY DEF Start, external
<1>2. SourcesInv /\ QueueInv /\ RunInv(probe, run, ready) /\ WaitsForPulseAudio
  OBVIOUS
<1>3. CASE pending' = {} /\ StartAudio
  <2> DEFINE r == [run EXCEPT !.timer = TRUE]
             f == IF context = "failed" THEN ConnectionFailed(r, ready) ELSE r
  <2>1. probe \in AudioProbes /\ Becomes({f}) /\ polling' = polling /\ ready' = ready
    BY <1>3 DEF StartAudio
  <2>2. RunInv(probe, r, ready)
    BY <1>2, TimerKeeps
  <2> HIDE DEF r
  <2>3. RunInv(probe, f, ready)
    BY <2>2, FailureKeeps
  <2> HIDE DEF f
  <2>4. RunInv(probe, run', ready') /\ loop' \in {"running", "leaving", "ended"}
    BY <1>2, <2>1, <2>3 DEF Becomes, SourcesInv
  <2>5. QueueInv' /\ WaitsForPulseAudio'
    BY <1>1, <1>2, <1>3, <2>1 DEF QueueInv, WaitsForPulseAudio, AudioProbes
  <2> QED
    BY <1>1, <1>2, <2>1, <2>4, <2>5, RunnerStep DEF SourcesInv
<1>4. CASE pending' = {} /\ StartWindow
  <2>1. probe \in WindowProbes
    BY <1>4 DEF StartWindow
  <2>2. /\ RunInv(probe, run', ready') /\ loop' \in {"running", "leaving", "ended"}
        /\ ready' \in BOOLEAN
        /\ polling' = polling \/ polling' \in {"off", "on", "restarted"}
    <3>1. CASE BackendReadinessError
      <4>1. "notConfigured" \in Errors
        BY DEF Errors
      <4>2. RunInv(probe, Finish(Report(run, "notConfigured"), 1), ready)
        BY <1>2, <4>1, ErrorKeeps
      <4> QED
        BY <1>2, <3>1, <4>2 DEF BackendReadinessError, Becomes, SourcesInv
    <3>2. CASE PollCache([run EXCEPT !.timer = TRUE], "restarted")
      <4>1. RunInv(probe, [run EXCEPT !.timer = TRUE], ready)
        BY <1>2, TimerKeeps
      <4> QED
        BY <2>1, <3>2, <4>1, PollCacheKeeps
    <3> QED
      BY <1>4, <3>1, <3>2 DEF StartWindow
  <2>3. QueueInv' /\ WaitsForPulseAudio'
    BY <1>1, <1>2, <1>4, <2>1 DEF QueueInv, WaitsForPulseAudio, WindowProbes
  <2> QED
    BY <1>1, <1>2, <2>1, <2>2, <2>3, RunnerStep DEF SourcesInv
<1>5. CASE pending' = {} /\ StartCommand
  <2>1. /\ probe \in BackendCommands /\ polling' = polling /\ ready' = ready
        /\ Becomes({Conclude(run, "done"), Conclude(run, "refused")})
    BY <1>5 DEF StartCommand
  <2>2. run.printed = <<>> /\ Sound(run) /\ run.submissions = 0
    BY <1>1, <1>2, <2>1 DEF QueueInv, RunInv, Guarded
  <2>3. "done" \in Results /\ "refused" \in Results
    BY DEF Results, Successes, Refusals
  <2>4. Sound(run') /\ Len(run'.printed) = 1 /\ run'.submissions = 0
    BY <2>1, <2>2, <2>3, ConcludeSound DEF Becomes
  <2>5. RunInv(probe, run', ready')
    BY <2>1, <2>4, BoundsAssumption
       DEF RunInv, Guarded, Printable, AudioProbes, WindowProbes, BackendCommands
  <2>6. loop' \in {"running", "leaving", "ended"}
    BY <1>2, <2>1 DEF Becomes, SourcesInv
  <2>7. QueueInv' /\ WaitsForPulseAudio'
    BY <1>1, <1>2, <1>5, <2>1 DEF QueueInv, WaitsForPulseAudio, BackendCommands
  <2> QED
    BY <1>1, <1>2, <2>1, <2>5, <2>6, <2>7, RunnerStep DEF SourcesInv
<1>6. CASE probe = "audioControl" /\ StartControl /\ UNCHANGED <<polling, ready>>
  <2>1. RunInv(probe, [run EXCEPT !.timer = TRUE], ready)
        /\ [run EXCEPT !.timer = TRUE].submissions = run.submissions
    BY <1>2, TimerKeeps
  <2>2. run.finished => Finish(run, 1) = run
    BY DEF Finish
  <2>3. /\ RunInv(probe, run', ready) /\ run'.submissions = run.submissions
        /\ loop' \in {"running", "leaving", "ended"}
    BY <1>2, <1>6, <2>1, <2>2 DEF StartControl, Becomes, SourcesInv
  <2>4. pending' \subseteq {"submit"} /\ ("submit" \in pending' => settled)
    BY <1>2, <1>6 DEF StartControl, QueueInv, SourcesInv
  <2>5. QueueInv' /\ WaitsForPulseAudio'
    BY <1>1, <1>2, <1>6, <2>3, <2>4 DEF QueueInv, WaitsForPulseAudio
  <2> QED
    BY <1>1, <1>2, <1>6, <2>3, <2>5, RunnerStep DEF SourcesInv
<1> QED
  BY <1>3, <1>4, <1>5, <1>6 DEF Start

LEMMA SubmitSoonSafe == ASSUME IInv, SubmitSoon PROVE IInv'
<1>1. /\ SourcesInv /\ QueueInv /\ RunInv(probe, run, ready)
      /\ probe = "audioControl" /\ settled
  BY DEF IInv, SubmitSoon, QueueInv
<1>2. /\ Becomes(SubmitRequest(run, context)) /\ pending' = {}
      /\ UNCHANGED <<probe, polling, ready, timedOut, context, cache, settled, changes>>
  BY DEF SubmitSoon, external
<1>3. RunInv(probe, run', ready') /\ loop' \in {"running", "leaving", "ended"}
  BY <1>1, <1>2, BoundsAssumption, SubmitKeeps DEF Becomes
<1>4. QueueInv' /\ WaitsForPulseAudio'
  BY <1>1, <1>2 DEF QueueInv, WaitsForPulseAudio
<1> QED
  BY <1>1, <1>2, <1>3, <1>4, RunnerStep DEF SourcesInv

LEMMA StartupTimeoutSafe == ASSUME IInv, StartupTimeout PROVE IInv'
<1> DEFINE r == [run EXCEPT !.timer = FALSE]
<1>1. SourcesInv /\ QueueInv /\ RunInv(probe, run, ready) /\ loop \in {"running", "leaving", "ended"}
  BY DEF IInv, SourcesInv
<1>2. /\ timedOut' = TRUE
      /\ UNCHANGED <<probe, pending, polling, ready, context, cache, settled, changes>>
  BY DEF StartupTimeout, external
<1>3. RunInv(probe, r, ready) /\ r.printed = run.printed
  BY <1>1, TimerKeeps
<1>4. CASE probe = "audioControl"
  <2>1. Becomes(SubmitRequest(r, context))
    BY <1>4 DEF StartupTimeout
  <2> HIDE DEF r
  <2>2. RunInv(probe, run', ready') /\ loop' \in {"running", "leaving", "ended"}
    BY <1>1, <1>2, <1>3, <1>4, <2>1, BoundsAssumption, SubmitKeeps DEF Becomes
  <2>3. QueueInv' /\ WaitsForPulseAudio'
    BY <1>1, <1>2, <1>4 DEF QueueInv, WaitsForPulseAudio, BackendCommands
  <2> QED
    BY <1>1, <1>2, <2>2, <2>3, RunnerStep DEF SourcesInv
<1>5. CASE probe # "audioControl"
  <2>1. Becomes({ IF ready THEN r ELSE Finish(Report(r, "timedOut"), 1) })
    BY <1>5 DEF StartupTimeout
  <2> HIDE DEF r
  <2>2. "timedOut" \in Errors
    BY DEF Errors
  <2>3. /\ RunInv(probe, run', ready') /\ run'.printed = run.printed
        /\ loop' \in {"running", "leaving", "ended"}
    BY <1>1, <1>2, <1>3, <2>1, <2>2, ErrorKeeps DEF Becomes
  <2>4. QueueInv' /\ WaitsForPulseAudio'
    BY <1>1, <1>2, <1>5, <2>3 DEF QueueInv, WaitsForPulseAudio
  <2> QED
    BY <1>1, <1>2, <2>3, <2>4, RunnerStep DEF SourcesInv
<1> QED BY <1>4, <1>5

LEMMA PollSafe == ASSUME IInv, Poll PROVE IInv'
<1>1. /\ SourcesInv /\ QueueInv /\ RunInv(probe, run, ready) /\ probe \in WindowProbes
  BY DEF IInv, SourcesInv, Poll
<1>2. /\ PollCache(run, "off")
      /\ UNCHANGED <<probe, pending, timedOut, context, cache, settled, changes>>
  BY DEF Poll, external
<1>3. /\ RunInv(probe, run', ready') /\ ready' \in BOOLEAN
      /\ loop' \in {"running", "leaving", "ended"}
      /\ polling' \in {"off", "on", "restarted"}
  BY <1>1, <1>2, PollCacheKeeps
<1>4. QueueInv' /\ WaitsForPulseAudio'
  BY <1>1, <1>2 DEF QueueInv, WaitsForPulseAudio, WindowProbes, BackendCommands
<1> QED
  BY <1>1, <1>2, <1>3, <1>4, RunnerStep DEF SourcesInv

LEMMA ObserverSafe == ASSUME IInv, ObserverPublishes \/ ObserverChanges PROVE IInv'
<1>1. SourcesInv /\ QueueInv /\ RunInv(probe, run, ready) /\ loop \in {"running", "leaving", "ended"}
  BY DEF IInv, SourcesInv
<1>2. /\ UNCHANGED <<probe, pending, polling, timedOut, context, cache, settled, changes>>
      /\ probe \in AudioProbes
  BY DEF ObserverPublishes, ObserverChanges, external
<1>3. MaxPrinted \in Nat
  BY BoundsAssumption
<1>4. QueueInv' /\ WaitsForPulseAudio'
  BY <1>1, <1>2 DEF QueueInv, WaitsForPulseAudio, AudioProbes, BackendCommands
<1>5. CASE ObserverPublishes
  <2>1. ready' = TRUE /\ Becomes(PublishInitial(run))
    BY <1>5 DEF ObserverPublishes
  <2>2. RunInv(probe, run', ready') /\ loop' \in {"running", "leaving", "ended"}
    BY <1>1, <1>2, <1>3, <2>1, PublishKeeps DEF Becomes
  <2> QED
    BY <1>1, <1>2, <1>4, <2>1, <2>2, RunnerStep DEF SourcesInv
<1>6. CASE ObserverChanges
  <2>1. /\ ready /\ ready' = ready /\ Len(run.printed) < MaxPrinted
        /\ Becomes({ IF probe = "audioWatch" THEN Printed(run, "change") ELSE run })
    BY <1>6 DEF ObserverChanges
  <2>2. RunInv(probe, run', ready') /\ loop' \in {"running", "leaving", "ended"}
    <3>1. CASE probe = "audioWatch"
      <4> DEFINE p == Printed(run, "change")
      <4>1. "change" \in Results /\ Sound(run) /\ run.submissions = 0 /\ run.published
        BY <1>1, <1>2, <2>1 DEF Results, Successes, RunInv, Guarded
      <4>2. /\ Sound(p) /\ Len(p.printed) = Len(run.printed) + 1
            /\ p = [run EXCEPT !.printed = p.printed]
        BY <4>1, PrintedSound
      <4>3. p.submissions = 0 /\ p.published
        BY <4>1, <4>2 DEF Sound, Runs
      <4>4. run' = p
        BY <2>1, <3>1 DEF Becomes
      <4>5. run.printed \in Seq(Results)
        BY <4>1 DEF Sound, Runs
      <4> HIDE DEF p
      <4>6. Len(p.printed) <= MaxPrinted + 1
        BY <1>3, <2>1, <4>2, <4>5
      <4>7. RunInv(probe, p, ready)
        BY <2>1, <3>1, <4>2, <4>3, <4>6
           DEF RunInv, Guarded, Printable, AudioProbes, WindowProbes, BackendCommands
      <4> QED
        BY <1>1, <2>1, <4>4, <4>7 DEF Becomes
    <3>2. CASE probe # "audioWatch"
      BY <1>1, <2>1, <3>2 DEF Becomes
    <3> QED BY <3>1, <3>2
  <2> QED
    BY <1>1, <1>2, <1>4, <2>1, <2>2, RunnerStep DEF SourcesInv
<1> QED BY <1>5, <1>6

LEMMA ContextChangesSafe == ASSUME IInv, ContextChanges PROVE IInv'
<1>1. SourcesInv /\ QueueInv /\ RunInv(probe, run, ready) /\ WaitsForPulseAudio
  BY DEF IInv
<1>2. PICK c \in {"connecting", "ready", "failed"} \ {context} :
        /\ context' = c
        /\ settled' = (settled \/ c # "connecting")
        /\ Becomes(CASE probe = "audioControl" ->
                         IF c # "connecting" THEN SubmitRequest(run, c) ELSE {run}
                    [] probe \in AudioProbes ->
                         { IF c = "failed" /\ ~ready /\ "start" \notin pending
                           THEN ConnectionFailed(run, ready) ELSE run })
  BY DEF ContextChanges
<1>3. /\ UNCHANGED <<probe, pending, polling, ready, cache, timedOut>>
      /\ changes < MaxContextChanges /\ changes' = changes + 1
      /\ probe \in AudioProbes \cup {"audioControl"}
  BY DEF ContextChanges
<1>4. /\ RunInv(probe, run', ready) /\ loop' \in {"running", "leaving", "ended"}
      /\ probe = "audioControl" => c # "connecting" \/ run' = run
  <2>1. CASE probe = "audioControl"
    <3>1. Becomes(IF c # "connecting" THEN SubmitRequest(run, c) ELSE {run})
      BY <1>2, <2>1 DEF AudioProbes
    <3>2. \A x \in SubmitRequest(run, c) : RunInv(probe, x, ready)
      BY <1>1, <2>1, BoundsAssumption, SubmitKeeps
    <3> QED
      BY <1>1, <3>1, <3>2 DEF Becomes, SourcesInv
  <2>2. CASE probe \in AudioProbes
    <3>1. Becomes({ IF c = "failed" /\ ~ready /\ "start" \notin pending
                    THEN ConnectionFailed(run, ready) ELSE run })
      BY <1>2, <2>2 DEF AudioProbes
    <3>2. RunInv(probe, ConnectionFailed(run, ready), ready)
      BY <1>1, FailureKeeps
    <3> QED
      BY <1>1, <2>2, <3>1, <3>2 DEF Becomes, SourcesInv, AudioProbes
  <2> QED BY <1>3, <2>1, <2>2
<1>5. settled' \in BOOLEAN /\ (c # "connecting" => settled') /\ (settled => settled')
  BY <1>1, <1>2 DEF SourcesInv
<1>6. QueueInv'
  BY <1>1, <1>2, <1>3, <1>5 DEF QueueInv, AudioProbes, BackendCommands
<1>7. WaitsForPulseAudio'
  BY <1>1, <1>3, <1>4, <1>5 DEF WaitsForPulseAudio
<1>8. changes' \in 0 .. MaxContextChanges
  BY <1>1, <1>3, BoundsAssumption DEF SourcesInv
<1> QED
  BY <1>1, <1>2, <1>3, <1>4, <1>5, <1>6, <1>7, <1>8, RunnerStep DEF SourcesInv

(* Steps that leave the runner alone. *)
LEMMA OtherSafe ==
  ASSUME IInv, CacheWritten \/ Leave \/ UNCHANGED vars
  PROVE  IInv'
<1>1. SourcesInv /\ QueueInv /\ RunInv(probe, run, ready) /\ WaitsForPulseAudio
  BY DEF IInv
<1>2. UNCHANGED <<probe, pending, run, polling, ready, context, timedOut, settled, changes>>
  BY DEF CacheWritten, Leave, vars, external
<1>3. /\ loop' \in {"running", "leaving", "ended"}
      /\ cache' \in {"missing", "invalid", "with", "without"}
  BY <1>1 DEF CacheWritten, Leave, vars, external, SourcesInv
<1>4. RunInv(probe, run', ready') /\ QueueInv' /\ WaitsForPulseAudio'
  BY <1>1, <1>2 DEF QueueInv, WaitsForPulseAudio
<1> QED
  BY <1>1, <1>2, <1>3, <1>4, RunnerStep DEF SourcesInv

LEMMA InitSafe == Init => IInv
<1> SUFFICES ASSUME Init PROVE IInv
  OBVIOUS
<1>1. SourcesInv /\ QueueInv /\ WaitsForPulseAudio
  <2>1. (context # "connecting" => settled) /\ settled \in BOOLEAN
    BY DEF Init
  <2>2. /\ context \in {"connecting", "ready", "failed"} /\ polling = "off" /\ pending = {"start"}
        /\ probe \in Probes /\ loop = "running" /\ cache \in {"missing", "invalid", "with", "without"}
    BY DEF Init
  <2>3. SourcesInv
    <3>1. ready \in BOOLEAN /\ timedOut \in BOOLEAN
      BY DEF Init
    <3>2. changes \in 0 .. MaxContextChanges
      BY BoundsAssumption DEF Init
    <3> QED
      BY <2>1, <2>2, <3>1, <3>2 DEF SourcesInv
  <2>4. run.printed = <<>> /\ run.submissions = 0
    BY DEF Init
  <2> QED
    BY <2>1, <2>2, <2>3, <2>4 DEF QueueInv, WaitsForPulseAudio
<1>2. /\ run \in Runs /\ run.printed = <<>> /\ run.submissions = 0 /\ run.exitCode = NoCode
      /\ run.finished = FALSE /\ run.published = FALSE /\ ready = FALSE
  BY DEF Init, Runs
<1>3. Sound(run)
  BY <1>2 DEF Sound, NoCode
<1>4. Len(run.printed) = 0
  BY <1>2
<1>5. RunInv(probe, run, ready)
  BY <1>2, <1>3, <1>4, BoundsAssumption DEF RunInv, Guarded, Printable, NothingYet
<1> QED BY <1>1, <1>5 DEF IInv

LEMMA Invariance == Spec => []IInv
<1>1. IInv /\ [Next]_vars => IInv'
  BY StartSafe, SubmitSoonSafe, StartupTimeoutSafe, PollSafe, ObserverSafe, ContextChangesSafe,
     OtherSafe DEF Next
<1> QED BY <1>1, InitSafe, PTL DEF Spec

-----------------------------------------------------------------------------
(* Theorems *)

(* What a run keeps: its runner, the lines that it printed, its timers and *)
(* the state of its sources.                                               *)
THEOREM TypeCorrect == Spec => []TypeOK
<1>1. ASSUME IInv PROVE TypeOK
  <2>1. SourcesInv /\ pending \subseteq {"start", "submit"} /\ run \in Runs
        /\ Len(run.printed) <= MaxPrinted + 1
    BY <1>1 DEF IInv, QueueInv, RunInv, Sound, Printable
  <2>2. run.printed \in BoundedSeq(Results, MaxPrinted + 1)
    <3> DEFINE q == run.printed
    <3>1. q \in Seq(Results) /\ Len(q) <= MaxPrinted + 1 /\ MaxPrinted \in Nat
      BY <2>1, BoundsAssumption DEF Runs
    <3>2. Len(q) \in 0 .. MaxPrinted + 1 /\ q \in [1 .. Len(q) -> Results]
      BY <3>1
    <3> QED
      BY <3>1, <3>2 DEF BoundedSeq, SeqOf
  <2> QED
    BY <2>1, <2>2 DEF SourcesInv, Runs, TypeOK, Results
<1> QED BY <1>1, Invariance, PTL

(* Whatever the start, the gate, the timers and the sources make of each   *)
(* other, a run submits at most one request, and prints one result unless  *)
(* it watches (m_finished, m_initialSnapshotPublished).                    *)
THEOREM OneResult == Spec => []OneOutcome
<1>1. ASSUME IInv PROVE OneOutcome
  <2>1. run \in Runs /\ (probe # "audioWatch" => Len(run.printed) <= 1)
    BY <1>1 DEF IInv, RunInv, Sound, Printable
  <2>2. run.submissions \in {0, 1}
    BY <2>1 DEF Runs
  <2> QED
    BY <2>1, <2>2 DEF OneOutcome
<1> QED BY <1>1, Invariance, PTL

(* The exit code tells scripts what the run printed first, or that it      *)
(* reported an error (finish, exitCodeForResult).                          *)
THEOREM ExitCodeTrue == Spec => []ExitCodeTellsOutcome
<1>1. IInv => ExitCodeTellsOutcome
  BY DEF IInv, RunInv, Sound, ExitCodeTellsOutcome
<1> QED BY <1>1, Invariance, PTL

(* audio_control_probe has heard of PulseAudio, or has waited for as long  *)
(* as it may, before it submits its request (shouldSubmitRequest).         *)
THEOREM Waits == Spec => []WaitsForPulseAudio
<1>1. IInv => WaitsForPulseAudio
  BY DEF IInv
<1> QED BY <1>1, Invariance, PTL
=============================================================================
