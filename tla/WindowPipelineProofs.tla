----------------------- MODULE WindowPipelineProofs -----------------------
(***************************************************************************)
(* Proofs about WindowPipeline, for any number of desktop states, faults   *)
(* and window_probe commands: its variables keep their types, and what a   *)
(* running observer shows is never behind the helper's cache file.         *)
(***************************************************************************)
EXTENDS WindowPipeline, SequenceTheorems, TLAPS

-----------------------------------------------------------------------------
(* What is left of a sequence of steps *)

LEMMA SuffixStep ==
  ASSUME NEW S, NEW s \in Seq(S), NEW t \in Suffixes(s), t # <<>>
  PROVE  /\ t \in Seq(S)
         /\ Len(t) \in 1 .. Len(s)
         /\ Head(t) = s[Len(s) + 1 - Len(t)]
         /\ Tail(t) \in Suffixes(s)
         /\ Len(Tail(t)) = Len(t) - 1
<1>1. PICK i \in 1 .. Len(s) : t = SubSeq(s, i, Len(s))
  BY DEF Suffixes
<1>2. /\ t \in Seq(S) /\ Len(t) = Len(s) + 1 - i /\ Len(s) \in Nat
      /\ \A j \in 1 .. Len(t) : t[j] = s[i + j - 1]
  <2>1. \A j \in i .. Len(s) : s[j] \in S
    BY ElementOfSeq
  <2> QED
    BY <1>1, <2>1, SubSeqProperties
<1>3. /\ Head(t) = t[1] /\ Tail(t) \in Seq(S) /\ Len(Tail(t)) = Len(t) - 1
  BY <1>2, HeadTailProperties
<1>4. Head(t) = s[Len(s) + 1 - Len(t)]
  BY <1>2, <1>3
<1>5. Tail(t) = SubSeq(s, i + 1, Len(s))
  BY <1>1, HeadTailOfSubSeq
<1>6. CASE i < Len(s)
  <2>1. i + 1 \in 1 .. Len(s)
    BY <1>2, <1>6
  <2>2. Tail(t) \in Suffixes(s)
    BY <1>5, <2>1 DEF Suffixes
  <2> QED
    BY <1>2, <1>3, <1>4, <2>2
<1>7. CASE ~(i < Len(s))
  <2>1. i = Len(s)
    BY <1>2, <1>7
  <2>5. Len(t) = 1
    BY <1>2, <2>1
  <2>4. Len(Tail(t)) = 0
    BY <1>3, <2>5
  <2>2. Tail(t) = <<>>
    BY <1>3, <2>4, EmptySeq
  <2>3. Tail(t) \in Suffixes(s)
    BY <2>2 DEF Suffixes
  <2> QED
    BY <1>2, <1>3, <1>4, <2>3
<1> QED
  BY <1>6, <1>7

LEMMA WholeIsSuffix ==
  ASSUME NEW S, NEW s \in Seq(S), s # <<>>
  PROVE  s \in Suffixes(s)
<1>1. Len(s) \in Nat \ {0}
  BY EmptySeq
<1>2. 1 \in 1 .. Len(s) /\ SubSeq(s, 1, Len(s)) = s
  BY <1>1, SubSeqFull
<1> QED
  BY <1>2 DEF Suffixes

(* The steps by name, and those a start adds to a setup.                   *)
StepNames == {"install", "stopHelper", "unload", "enable", "reconfigure", "startScripts", "disable",
              "remove", "subscribe", "readCache", "askHelper"}

OwnSteps == <<"subscribe", "readCache", "askHelper">>

LEMMA SetupOrder ==
  /\ SetupSteps \in Seq(StepNames) /\ Len(SetupSteps) = 6
  /\ SetupSteps[1] = "install" /\ SetupSteps[2] = "stopHelper" /\ SetupSteps[3] = "unload"
  /\ SetupSteps[4] = "enable" /\ SetupSteps[5] = "reconfigure" /\ SetupSteps[6] = "startScripts"
BY DEF SetupSteps, StepNames

LEMMA OwnOrder ==
  /\ OwnSteps \in Seq(StepNames) /\ Len(OwnSteps) = 3
  /\ OwnSteps[1] = "subscribe" /\ OwnSteps[2] = "readCache" /\ OwnSteps[3] = "askHelper"
BY DEF OwnSteps, StepNames

LEMMA TeardownOrder ==
  TeardownSteps \in Seq(StepNames) /\ Len(TeardownSteps) = 5
BY DEF TeardownSteps, StepNames

LEMMA StartOrder ==
  /\ StartSteps \in Seq(StepNames) /\ Len(StartSteps) = 9
  /\ StartSteps[1] = "install" /\ StartSteps[2] = "stopHelper" /\ StartSteps[3] = "unload"
  /\ StartSteps[4] = "enable" /\ StartSteps[5] = "reconfigure" /\ StartSteps[6] = "startScripts"
  /\ StartSteps[7] = "subscribe" /\ StartSteps[8] = "readCache" /\ StartSteps[9] = "askHelper"
<1>1. StartSteps = SetupSteps \o OwnSteps
  BY DEF StartSteps, OwnSteps
<1>2. SetupSteps \in Seq(StepNames) /\ OwnSteps \in Seq(StepNames)
  BY SetupOrder, OwnOrder
<1>3. Len(SetupSteps) = 6 /\ Len(OwnSteps) = 3
  BY SetupOrder, OwnOrder
<1>4. /\ StartSteps \in Seq(StepNames)
      /\ Len(StartSteps) = Len(SetupSteps) + Len(OwnSteps)
  BY <1>1, <1>2, ConcatProperties
<1>5. \A i \in 1 .. Len(SetupSteps) + Len(OwnSteps) :
        StartSteps[i] = IF i <= Len(SetupSteps) THEN SetupSteps[i] ELSE OwnSteps[i - Len(SetupSteps)]
  BY <1>1, <1>2, ConcatProperties
<1>6. Len(StartSteps) = 9
  BY <1>3, <1>4
<1>7. /\ \A i \in 1 .. 6 : StartSteps[i] = SetupSteps[i]
      /\ \A i \in 7 .. 9 : StartSteps[i] = OwnSteps[i - 6]
  BY <1>3, <1>5
<1>8. StartSteps[7] = OwnSteps[1] /\ StartSteps[8] = OwnSteps[2] /\ StartSteps[9] = OwnSteps[3]
  BY <1>7
<1> QED
  BY <1>4, <1>6, <1>7, <1>8, SetupOrder, OwnOrder

LEMMA Steps ==
  /\ SetupSteps \in Seq(StepNames) /\ SetupSteps # <<>>
  /\ TeardownSteps \in Seq(StepNames) /\ TeardownSteps # <<>>
  /\ StartSteps \in Seq(StepNames) /\ StartSteps # <<>>
<1>1. \A seq : Len(seq) \in {5, 6, 9} => seq # <<>>
  <2>1. Len(<<>>) = 0
    OBVIOUS
  <2> QED
    BY <2>1
<1>2. SetupSteps # <<>>
  BY <1>1, SetupOrder
<1>3. TeardownSteps # <<>>
  BY <1>1, TeardownOrder
<1>4. StartSteps # <<>>
  BY <1>1, StartOrder
<1> QED
  BY <1>2, <1>3, <1>4, SetupOrder, TeardownOrder, StartOrder

-----------------------------------------------------------------------------
(* Types *)

(* The conjuncts of TypeOK, by the group of variables they are about.      *)
KwinInv ==
  /\ desk \in FirstDesk .. MaxDesk
  /\ loaded \in BOOLEAN /\ reload \in BOOLEAN
  /\ pushes \in Seq(FirstDesk .. MaxDesk)

FileInv ==
  /\ scriptFiles \in BOOLEAN /\ serviceFile \in BOOLEAN /\ enabled \in BOOLEAN
  /\ cache \in Snapshots

HelperInv == helper \in {"up", "down"} /\ kept \in Snapshots /\ (helper = "down" => kept = NoSnapshot)

ObserverInv ==
  /\ subscribed \in BOOLEAN
  /\ signals \in Seq(FirstDesk .. MaxDesk)
  /\ published \in Snapshots

TodoInv ==
  /\ DOMAIN todo = Processes
  /\ todo["service"] \in Suffixes(StartSteps)
  /\ todo["probe"] \in Suffixes(SetupSteps) \cup Suffixes(TeardownSteps)

CountInv == failed \subseteq Processes /\ commands \in 0 .. MaxCommands /\ faults \in 0 .. MaxFaults

Parts == KwinInv /\ FileInv /\ HelperInv /\ ObserverInv /\ TodoInv /\ CountInv

LEMMA TypeParts == (TypeOK <=> Parts) /\ (TypeOK' <=> Parts')
BY DEF TypeOK, Parts, KwinInv, FileInv, HelperInv, ObserverInv, TodoInv, CountInv

LEMMA Bounds ==
  /\ MaxDesk \in Nat /\ FirstDesk \in Nat /\ FirstDesk <= MaxDesk
  /\ NoSnapshot \in Snapshots /\ PreviousSession \in Snapshots
  /\ FirstDesk .. MaxDesk \subseteq Snapshots
  /\ NoSnapshot < FirstDesk /\ PreviousSession < FirstDesk
  /\ MaxCommands \in Nat /\ MaxFaults \in Nat
BY BoundsAssumption DEF NoSnapshot, PreviousSession, FirstDesk, Snapshots

LEMMA TypeInit == Init => TypeOK
<1> SUFFICES ASSUME Init PROVE TypeOK
  OBVIOUS
<1>7. <<>> \in Seq(FirstDesk .. MaxDesk)
  BY EmptySeq
<1>8. FirstDesk \in FirstDesk .. MaxDesk
  BY Bounds
<1>1. KwinInv
  BY <1>7, <1>8 DEF Init, KwinInv
<1>2. FileInv
  BY Bounds DEF Init, FileInv
<1>3. HelperInv
  BY Bounds DEF Init, HelperInv
<1>4. ObserverInv
  BY <1>7, Bounds DEF Init, ObserverInv
<1>5. TodoInv
  <2>1. DOMAIN todo = Processes /\ todo["service"] = StartSteps /\ todo["probe"] = <<>>
    BY DEF Init, Processes
  <2>2. StartSteps \in Suffixes(StartSteps)
    BY Steps, WholeIsSuffix
  <2>3. <<>> \in Suffixes(SetupSteps)
    BY DEF Suffixes
  <2> QED
    BY <2>1, <2>2, <2>3 DEF TodoInv
<1>6. CountInv
  BY Bounds DEF Init, CountInv
<1> QED
  BY <1>1, <1>2, <1>3, <1>4, <1>5, <1>6, TypeParts DEF Parts

LEMMA TodoTail ==
  ASSUME TodoInv, NEW p \in Processes, todo[p] # <<>>, todo' = [todo EXCEPT ![p] = Tail(@)]
  PROVE  TodoInv'
<1>1. DOMAIN todo' = Processes /\ todo'[p] = Tail(todo[p])
      /\ \A q \in Processes : q # p => todo'[q] = todo[q]
  BY DEF TodoInv
<1>2. CASE p = "service"
  <2>1. Tail(todo["service"]) \in Suffixes(StartSteps)
    BY <1>2, Steps, SuffixStep DEF TodoInv
  <2> QED
    BY <1>1, <1>2, <2>1 DEF TodoInv, Processes
<1>3. CASE p = "probe"
  <2>1. CASE todo["probe"] \in Suffixes(SetupSteps)
    <3>1. Tail(todo["probe"]) \in Suffixes(SetupSteps)
      BY <1>3, <2>1, Steps, SuffixStep
    <3> QED
      BY <1>1, <1>3, <3>1 DEF TodoInv, Processes
  <2>2. CASE todo["probe"] \in Suffixes(TeardownSteps)
    <3>1. Tail(todo["probe"]) \in Suffixes(TeardownSteps)
      BY <1>3, <2>2, Steps, SuffixStep
    <3> QED
      BY <1>1, <1>3, <3>1 DEF TodoInv, Processes
  <2> QED
    BY <2>1, <2>2 DEF TodoInv
<1> QED
  BY <1>2, <1>3 DEF Processes

LEMMA TodoDropped ==
  ASSUME TodoInv, NEW p \in Processes, todo' = [todo EXCEPT ![p] = <<>>]
  PROVE  TodoInv'
<1>1. DOMAIN todo' = Processes /\ todo'[p] = <<>>
      /\ \A q \in Processes : q # p => todo'[q] = todo[q]
  BY DEF TodoInv
<1>2. <<>> \in Suffixes(StartSteps) /\ <<>> \in Suffixes(SetupSteps)
  BY DEF Suffixes
<1> QED
  BY <1>1, <1>2 DEF TodoInv, Processes

(* Every step of a process takes the next of its steps, or gives up.       *)
StepTaken(p) == todo[p] # <<>> /\ todo' = [todo EXCEPT ![p] = Tail(@)]
StepsDropped(p) == todo[p] # <<>> /\ todo' = [todo EXCEPT ![p] = <<>>]

LEMMA TodoMoves ==
  ASSUME [Next]_vars
  PROVE  \/ RunProbe
         \/ todo' = todo /\ failed' = failed
         \/ \E p \in Processes : StepTaken(p) /\ failed' = failed
         \/ \E p \in Processes : StepsDropped(p) /\ failed' = failed \cup {p}
<1>1. ASSUME NEW p \in Processes, Step(p)
      PROVE  \/ StepTaken(p) /\ failed' = failed
             \/ StepsDropped(p) /\ failed' = failed \cup {p}
  BY <1>1 DEF Step, StepTaken, StepsDropped, InstallFiles, StopHelper, UnloadScript, SetEnabled,
              ReconfigureKWin, StartScripts, RemoveFiles, Does, GivesUp, SkipsWithFault
<1>2. CASE Subscribe \/ ReadCache \/ AskHelper
  BY <1>2 DEF Subscribe, ReadCache, AskHelper, Does, GivesUp, SkipsWithFault, StepTaken,
              StepsDropped, Service, Processes
<1>3. CASE DeskChanges \/ ReloadScripts \/ LosePush \/ HandleSnapshotChanged
  BY <1>3 DEF DeskChanges, ReloadScripts, LosePush, HandleSnapshotChanged, controlVars
<1>4. CASE PushSnapshot \/ HelperCrashes
  BY <1>4 DEF PushSnapshot, TakesPush, HelperCrashes
<1>5. CASE UNCHANGED vars
  BY <1>5 DEF vars
<1> QED
  BY <1>1, <1>2, <1>3, <1>4, <1>5 DEF Next

LEMMA TodoNext ==
  ASSUME TodoInv, [Next]_vars
  PROVE  TodoInv'
<1>1. CASE RunProbe
  <2>1. PICK command \in Commands : todo' = [todo EXCEPT !["probe"] = CommandSteps(command)]
    BY <1>1 DEF RunProbe
  <2>2. SetupSteps \in Suffixes(SetupSteps) /\ TeardownSteps \in Suffixes(TeardownSteps)
    BY Steps, WholeIsSuffix
  <2>3. /\ DOMAIN todo' = Processes /\ todo'["probe"] = CommandSteps(command)
        /\ todo'["service"] = todo["service"]
    BY <2>1 DEF TodoInv, Processes
  <2>4. CommandSteps(command) \in {SetupSteps, TeardownSteps}
    BY DEF CommandSteps
  <2> QED
    BY <2>2, <2>3, <2>4 DEF TodoInv
<1>2. CASE todo' = todo
  BY <1>2 DEF TodoInv
<1>3. CASE \E p \in Processes : StepTaken(p)
  BY <1>3, TodoTail DEF StepTaken
<1>4. CASE \E p \in Processes : StepsDropped(p)
  BY <1>4, TodoDropped DEF StepsDropped
<1> QED
  BY <1>1, <1>2, <1>3, <1>4, TodoMoves

LEMMA FaultNext ==
  ASSUME CountInv, Fault
  PROVE  commands' \in 0 .. MaxCommands /\ faults' \in 0 .. MaxFaults
BY Bounds DEF CountInv, Fault

LEMMA CountNext ==
  ASSUME CountInv, [Next]_vars
  PROVE  CountInv'
<1>1. failed' \subseteq Processes
  BY TodoMoves DEF CountInv, RunProbe
<1>2. commands' \in 0 .. MaxCommands /\ faults' \in 0 .. MaxFaults
  <2>1. CASE RunProbe
    BY <2>1, Bounds DEF RunProbe, CountInv
  <2>2. ASSUME NEW p \in Processes, Step(p)
        PROVE  Fault \/ UNCHANGED <<commands, faults>>
    BY <2>2 DEF Step, InstallFiles, StopHelper, UnloadScript, SetEnabled,
                ReconfigureKWin, StartScripts, RemoveFiles, Does, GivesUp, SkipsWithFault
  <2>3. CASE Subscribe \/ ReadCache \/ AskHelper
    <3>1. Fault \/ UNCHANGED <<commands, faults>>
      BY <2>3 DEF Subscribe, ReadCache, AskHelper, Does, GivesUp, SkipsWithFault
    <3> QED
      BY <3>1, FaultNext DEF CountInv
  <2>4. CASE DeskChanges \/ ReloadScripts \/ LosePush \/ HandleSnapshotChanged
    BY <2>4 DEF DeskChanges, ReloadScripts, LosePush, HandleSnapshotChanged, controlVars, CountInv
  <2>5. CASE PushSnapshot \/ HelperCrashes
    <3>1. Fault \/ UNCHANGED <<commands, faults>>
      BY <2>5 DEF PushSnapshot, HelperCrashes
    <3> QED
      BY <3>1, FaultNext DEF CountInv
  <2>6. CASE UNCHANGED vars
    BY <2>6 DEF vars, CountInv
  <2> QED
    BY <2>1, <2>2, <2>3, <2>4, <2>5, <2>6, FaultNext DEF Next, CountInv
<1> QED
  BY <1>1, <1>2 DEF CountInv

(* What a step may do to the pushes under way.                             *)
PushesShrink == \E n \in 0 .. Len(pushes) : pushes' = SubSeq(pushes, n + 1, Len(pushes))
PushTaken == pushes # <<>> /\ pushes' = Tail(pushes)

LEMMA PushesMove ==
  ASSUME [Next]_vars
  PROVE  \/ desk' = desk /\ pushes' = pushes
         \/ desk' = desk /\ PushesShrink
         \/ desk' = desk /\ PushTaken
         \/ desk' = desk /\ pushes' = Append(pushes, desk)
         \/ /\ desk < MaxDesk /\ desk' = desk + 1 /\ pushes' \in {pushes, Append(pushes, desk')}
            /\ UNCHANGED <<cache, helper, kept>>
<1>1. ASSUME NEW p \in Processes, Step(p)
      PROVE  desk' = desk /\ (pushes' = pushes \/ PushesShrink)
  BY <1>1 DEF Step, InstallFiles, StopHelper, UnloadScript, SetEnabled, ReconfigureKWin,
              StartScripts, RemoveFiles, HelperStops, PushesShrink, kwinVars
<1>2. CASE Subscribe \/ ReadCache \/ AskHelper \/ HandleSnapshotChanged \/ RunProbe
  BY <1>2 DEF Subscribe, ReadCache, AskHelper, HandleSnapshotChanged, RunProbe, kwinVars
<1>3. CASE DeskChanges
  BY <1>3 DEF DeskChanges, PublishFromScript, fileVars, helperVars
<1>4. CASE ReloadScripts
  BY <1>4 DEF ReloadScripts, PublishFromScript
<1>5. CASE PushSnapshot \/ LosePush
  BY <1>5 DEF PushSnapshot, TakesPush, LosePush, PushTaken
<1>6. CASE HelperCrashes
  BY <1>6 DEF HelperCrashes, HelperStops, PushesShrink
<1>7. CASE UNCHANGED vars
  BY <1>7 DEF vars
<1> QED
  BY <1>1, <1>2, <1>3, <1>4, <1>5, <1>6, <1>7 DEF Next

LEMMA Rest ==
  ASSUME NEW S, NEW n \in Nat, NEW s \in Seq(S), n <= Len(s)
  PROVE  LET t == SubSeq(s, n + 1, Len(s))
         IN  /\ t \in Seq(S)
             /\ DOMAIN t = 1 .. (Len(s) - n) /\ DOMAIN s = 1 .. Len(s)
             /\ \A i \in DOMAIN t : i + n \in DOMAIN s /\ t[i] = s[i + n]
OBVIOUS

LEMMA KwinNext ==
  ASSUME KwinInv, [Next]_vars, FileInv
  PROVE  KwinInv'
<1>1. desk' \in FirstDesk .. MaxDesk
  BY PushesMove, Bounds DEF KwinInv
<1>2. loaded' \in BOOLEAN /\ reload' \in BOOLEAN
  <2>1. ASSUME NEW p \in Processes, Step(p)
        PROVE  loaded' \in {loaded, FALSE} /\ reload' \in {reload, TRUE}
    BY <2>1 DEF Step, InstallFiles, StopHelper, UnloadScript, SetEnabled, ReconfigureKWin,
                StartScripts, RemoveFiles, kwinVars
  <2>2. CASE Subscribe \/ ReadCache \/ AskHelper \/ HandleSnapshotChanged \/ RunProbe
    BY <2>2 DEF Subscribe, ReadCache, AskHelper, HandleSnapshotChanged, RunProbe, kwinVars, KwinInv
  <2>3. CASE DeskChanges \/ PushSnapshot \/ LosePush \/ HelperCrashes
    BY <2>3 DEF DeskChanges, PushSnapshot, TakesPush, LosePush, HelperCrashes, KwinInv
  <2>4. CASE ReloadScripts
    BY <2>4, Zenon DEF ReloadScripts
  <2>5. CASE UNCHANGED vars
    BY <2>5 DEF vars, KwinInv
  <2> QED
    BY <2>1, <2>2, <2>3, <2>4, <2>5 DEF Next, KwinInv
<1>3. pushes' \in Seq(FirstDesk .. MaxDesk)
  <2>1. CASE PushesShrink
    <3>1. PICK n \in 0 .. Len(pushes) : pushes' = SubSeq(pushes, n + 1, Len(pushes))
      BY <2>1 DEF PushesShrink
    <3>2. n \in Nat /\ n <= Len(pushes) /\ pushes \in Seq(FirstDesk .. MaxDesk)
      BY <3>1 DEF KwinInv
    <3> QED
      BY <3>1, <3>2, Rest
  <2>2. CASE PushTaken
    BY <2>2, HeadTailProperties DEF PushTaken, KwinInv
  <2>3. CASE pushes' \in {pushes, Append(pushes, desk')}
    <3>1. pushes \in Seq(FirstDesk .. MaxDesk)
      BY DEF KwinInv
    <3>2. Append(pushes, desk') \in Seq(FirstDesk .. MaxDesk)
      BY <1>1, <3>1, AppendProperties
    <3> QED
      BY <2>3, <3>1, <3>2
  <2> QED
    <3>1. pushes' \in {pushes, Append(pushes, desk')} \/ PushesShrink \/ PushTaken
      BY PushesMove
    <3> QED
      BY <2>1, <2>2, <2>3, <3>1
<1> QED
  BY <1>1, <1>2, <1>3 DEF KwinInv

LEMMA FileNext ==
  ASSUME FileInv, KwinInv, [Next]_vars
  PROVE  FileInv'
<1>1. ASSUME NEW p \in Processes, Step(p)
      PROVE  FileInv'
  BY <1>1, Bounds DEF Step, InstallFiles, StopHelper, UnloadScript, SetEnabled, ReconfigureKWin,
              StartScripts, RemoveFiles, fileVars, FileInv
<1>2. CASE Subscribe \/ ReadCache \/ AskHelper \/ HandleSnapshotChanged \/ RunProbe
  BY <1>2 DEF Subscribe, ReadCache, AskHelper, HandleSnapshotChanged, RunProbe, fileVars, FileInv
<1>3. CASE DeskChanges \/ ReloadScripts \/ LosePush \/ HelperCrashes
  BY <1>3 DEF DeskChanges, ReloadScripts, LosePush, HelperCrashes, fileVars, FileInv
<1>4. CASE PushSnapshot
  <2>1. Head(pushes) \in Snapshots
    BY <1>4, Bounds, HeadTailProperties DEF PushSnapshot, TakesPush, KwinInv
  <2>2. cache' \in {cache, Head(pushes)}
    BY <1>4 DEF PushSnapshot
  <2> QED
    BY <1>4, <2>1, <2>2 DEF PushSnapshot, TakesPush, FileInv
<1>5. CASE UNCHANGED vars
  BY <1>5 DEF vars, FileInv
<1> QED
  BY <1>1, <1>2, <1>3, <1>4, <1>5 DEF Next

(* What a step may do to the helper and its cache file.                    *)
LEMMA HelperMoves ==
  ASSUME [Next]_vars, ~PushSnapshot
  PROVE  /\ cache' \in {cache, NoSnapshot}
         /\ \/ helper' = helper /\ kept' = kept
            \/ helper' = "down" /\ kept' = NoSnapshot
            \/ helper' = "up" /\ kept' = cache /\ cache' = cache
<1>1. ASSUME NEW p \in Processes, Step(p)
      PROVE  /\ cache' \in {cache, NoSnapshot}
             /\ \/ helper' = helper /\ kept' = kept
                \/ helper' = "down" /\ kept' = NoSnapshot
                \/ helper' = "up" /\ kept' = cache /\ cache' = cache
  BY <1>1 DEF Step, InstallFiles, StopHelper, UnloadScript, SetEnabled, ReconfigureKWin,
              StartScripts, RemoveFiles, HelperStops, HelperStartsLate, helperVars, fileVars
<1>2. CASE Subscribe \/ ReadCache \/ HandleSnapshotChanged \/ RunProbe
  BY <1>2 DEF Subscribe, ReadCache, HandleSnapshotChanged, RunProbe, helperVars, fileVars
<1>3. CASE DeskChanges \/ ReloadScripts \/ LosePush
  BY <1>3 DEF DeskChanges, ReloadScripts, LosePush, helperVars, fileVars
<1>4. CASE AskHelper
  BY <1>4 DEF AskHelper, HelperStartsLate, helperVars, fileVars
<1>5. CASE HelperCrashes
  BY <1>5 DEF HelperCrashes, HelperStops, fileVars
<1>6. CASE UNCHANGED vars
  BY <1>6 DEF vars
<1> QED
  BY <1>1, <1>2, <1>3, <1>4, <1>5, <1>6 DEF Next

LEMMA PushHandled ==
  ASSUME PushSnapshot
  PROVE  /\ helper' = "up" /\ desk' = desk /\ PushTaken
         /\ UNCHANGED <<todo, failed, subscribed, published>>
         /\ \/ kept' = Head(pushes) /\ cache' = kept' /\ Emit(kept')
            \/ kept' \in {Head(pushes), KeptOnCall} /\ UNCHANGED <<cache, signals>>
BY DEF PushSnapshot, TakesPush, PushTaken

LEMMA HelperNext ==
  ASSUME TypeOK, [Next]_vars
  PROVE  HelperInv'
<1>1. KwinInv /\ FileInv /\ HelperInv
  BY TypeParts DEF Parts
<1>2. CASE PushSnapshot
  <2>1. Head(pushes) \in Snapshots /\ cache \in Snapshots /\ kept \in Snapshots
    BY <1>1, <1>2, Bounds, PushHandled, HeadTailProperties DEF PushTaken, KwinInv, FileInv, HelperInv
  <2>2. helper' = "up" /\ kept' \in {Head(pushes), cache, kept}
    BY <1>2, PushHandled DEF KeptOnCall
  <2> QED
    BY <2>1, <2>2 DEF HelperInv
<1>3. CASE ~PushSnapshot
  BY <1>1, <1>3, HelperMoves, Bounds DEF HelperInv, FileInv
<1> QED
  BY <1>2, <1>3

(* What a step may do to the observer.                                     *)
LEMMA ObserverMoves ==
  ASSUME [Next]_vars, ~PushSnapshot, ~HandleSnapshotChanged, ~Subscribe, ~ReadCache, ~AskHelper
  PROVE  UNCHANGED observerVars
<1>1. ASSUME NEW p \in Processes, Step(p)
      PROVE  UNCHANGED observerVars
  BY <1>1 DEF Step, InstallFiles, StopHelper, UnloadScript, SetEnabled, ReconfigureKWin,
              StartScripts, RemoveFiles
<1>2. CASE RunProbe \/ DeskChanges \/ ReloadScripts \/ LosePush \/ HelperCrashes
  BY <1>2 DEF RunProbe, DeskChanges, ReloadScripts, LosePush, HelperCrashes
<1>3. CASE UNCHANGED vars
  BY <1>3 DEF vars, observerVars
<1> QED
  BY <1>1, <1>2, <1>3 DEF Next

LEMMA ObserverNext ==
  ASSUME TypeOK, [Next]_vars
  PROVE  ObserverInv'
<1>1. KwinInv /\ FileInv /\ HelperInv /\ ObserverInv
  BY TypeParts DEF Parts
<1>2. CASE PushSnapshot
  <2>1. Head(pushes) \in FirstDesk .. MaxDesk
    BY <1>1, <1>2, PushHandled, HeadTailProperties DEF PushTaken, KwinInv
  <2>2. Append(signals, Head(pushes)) \in Seq(FirstDesk .. MaxDesk)
    BY <1>1, <2>1, AppendProperties DEF ObserverInv
  <2>3. signals' \in {signals, Append(signals, Head(pushes))} /\ UNCHANGED <<subscribed, published>>
    BY <1>2, PushHandled DEF Emit
  <2> QED
    BY <1>1, <2>2, <2>3 DEF ObserverInv
<1>3. CASE HandleSnapshotChanged
  <2>1. Head(signals) \in FirstDesk .. MaxDesk /\ Tail(signals) \in Seq(FirstDesk .. MaxDesk)
    BY <1>1, <1>3, HeadTailProperties DEF HandleSnapshotChanged, ObserverInv
  <2> QED
    BY <1>1, <1>3, <2>1, Bounds DEF HandleSnapshotChanged, ObserverInv
<1>4. CASE Subscribe
  BY <1>1, <1>4 DEF Subscribe, ObserverInv
<1>5. CASE ReadCache
  BY <1>1, <1>5 DEF ReadCache, ObserverInv, FileInv
<1>6. CASE AskHelper
  <2>1. UNCHANGED <<subscribed, signals>> /\ published' \in {published, kept}
    BY <1>6 DEF AskHelper
  <2> QED
    BY <1>1, <2>1 DEF ObserverInv, HelperInv
<1>7. CASE UNCHANGED observerVars
  BY <1>1, <1>7 DEF ObserverInv, observerVars
<1> QED
  BY <1>2, <1>3, <1>4, <1>5, <1>6, <1>7, ObserverMoves

LEMMA TypeNext == TypeOK /\ [Next]_vars => TypeOK'
<1> SUFFICES ASSUME TypeOK, [Next]_vars PROVE TypeOK'
  OBVIOUS
<1>1. Parts
  BY TypeParts
<1>2. KwinInv' /\ FileInv' /\ HelperInv' /\ ObserverInv' /\ TodoInv' /\ CountInv'
  BY <1>1, KwinNext, FileNext, HelperNext, ObserverNext, TodoNext, CountNext DEF Parts
<1> QED
  BY <1>2, TypeParts DEF Parts

(* Types, for any bounds: what KWin, the helper and the service pass to    *)
(* one another are desktop states, whatever fails or is run in between.    *)
THEOREM TypeCorrect == Spec => []TypeOK
<1> QED
  BY TypeInit, TypeNext, PTL DEF Spec

-----------------------------------------------------------------------------
(* The observer and the cache *)

(* D-Bus keeps the order of the script's pushes, so they are sorted; none  *)
(* is older than the cache, and a live helper keeps nothing older than it. *)
OrderInv ==
  /\ cache <= desk
  /\ \A i \in DOMAIN pushes : cache <= pushes[i] /\ pushes[i] <= desk
  /\ \A i, j \in DOMAIN pushes : i <= j => pushes[i] <= pushes[j]
  /\ helper = "up" => cache <= kept

(* The latest signal under way shows what was cached last.                 *)
SignalInv ==
  /\ subscribed \/ signals = <<>>
  /\ signals # <<>> => cache <= Last(signals)

(* How much of its start is left tells what the observer has done: it      *)
(* subscribes before it reads the cache, and publishes nothing before.     *)
StartInv ==
  /\ Service \notin failed /\ Len(todo[Service]) <= 2 => subscribed
  /\ Len(todo[Service]) >= 2 => published = NoSnapshot
  /\ Service \notin failed /\ Len(todo[Service]) <= 1 /\ WillPublish # NoSnapshot
       => cache <= WillPublish

IInv == TypeOK /\ OrderInv /\ SignalInv /\ StartInv

LEMMA OrderNext ==
  ASSUME TypeOK, OrderInv, [Next]_vars
  PROVE  OrderInv'
<1>1. KwinInv /\ FileInv /\ HelperInv
  BY TypeParts DEF Parts
<1>2. /\ desk \in Nat /\ cache \in Nat /\ kept \in Nat /\ NoSnapshot = 0
      /\ pushes \in Seq(FirstDesk .. MaxDesk) /\ \A i \in DOMAIN pushes : pushes[i] \in Nat
      /\ Len(pushes) \in Nat /\ DOMAIN pushes = 1 .. Len(pushes)
  BY <1>1, Bounds, ElementOfSeq DEF KwinInv, FileInv, HelperInv, Snapshots, NoSnapshot
<1>3. /\ desk <= desk' /\ desk' \in Nat
      /\ \A i \in DOMAIN pushes' : pushes'[i] <= desk' /\ cache <= pushes'[i]
      /\ \A i, j \in DOMAIN pushes' : i <= j => pushes'[i] <= pushes'[j]
  <2>1. CASE desk' = desk /\ pushes' = pushes
    BY <1>2, <2>1 DEF OrderInv
  <2>2. CASE desk' = desk /\ PushesShrink
    <3>1. PICK n \in 0 .. Len(pushes) : pushes' = SubSeq(pushes, n + 1, Len(pushes))
      BY <2>2 DEF PushesShrink
    <3>2. n \in Nat /\ n <= Len(pushes)
      BY <1>2, <3>1
    <3>3. /\ DOMAIN pushes' = 1 .. (Len(pushes) - n)
          /\ \A i \in DOMAIN pushes' : i + n \in DOMAIN pushes /\ pushes'[i] = pushes[i + n]
      BY <1>2, <3>1, <3>2, Rest
    <3>4. \A i \in DOMAIN pushes' : pushes'[i] <= desk' /\ cache <= pushes'[i]
      BY <2>2, <3>3 DEF OrderInv
    <3>5. ASSUME NEW i \in DOMAIN pushes', NEW j \in DOMAIN pushes', i <= j
          PROVE  pushes'[i] <= pushes'[j]
      <4>1. i + n \in DOMAIN pushes /\ j + n \in DOMAIN pushes /\ i + n <= j + n
        BY <1>2, <3>2, <3>3, <3>5
      <4> QED BY <3>3, <4>1 DEF OrderInv
    <3> QED
      BY <1>2, <2>2, <3>4, <3>5
  <2>3. CASE desk' = desk /\ PushTaken
    <3>1. /\ DOMAIN pushes' = 1 .. (Len(pushes) - 1)
          /\ \A i \in DOMAIN pushes' : i + 1 \in DOMAIN pushes /\ pushes'[i] = pushes[i + 1]
      BY <1>2, <2>3, HeadTailProperties DEF PushTaken
    <3>2. \A i \in DOMAIN pushes' : pushes'[i] <= desk' /\ cache <= pushes'[i]
      BY <2>3, <3>1 DEF OrderInv
    <3>3. ASSUME NEW i \in DOMAIN pushes', NEW j \in DOMAIN pushes', i <= j
          PROVE  pushes'[i] <= pushes'[j]
      <4>1. i + 1 \in DOMAIN pushes /\ j + 1 \in DOMAIN pushes /\ i + 1 <= j + 1
        BY <1>2, <3>1, <3>3
      <4> QED BY <3>1, <4>1 DEF OrderInv
    <3> QED
      BY <1>2, <2>3, <3>2, <3>3
  <2>4. ASSUME desk' \in Nat, desk <= desk', pushes' = Append(pushes, desk')
        PROVE  /\ \A i \in DOMAIN pushes' : pushes'[i] <= desk' /\ cache <= pushes'[i]
               /\ \A i, j \in DOMAIN pushes' : i <= j => pushes'[i] <= pushes'[j]
    <3>1. /\ DOMAIN pushes' = 1 .. (Len(pushes) + 1)
          /\ \A i \in DOMAIN pushes : pushes'[i] = pushes[i]
          /\ pushes'[Len(pushes) + 1] = desk'
      BY <1>2, <2>4
    <3> QED
      BY <1>2, <2>4, <3>1 DEF OrderInv
  <2>5. CASE desk' = desk /\ pushes' = Append(pushes, desk)
    BY <1>2, <2>4, <2>5
  <2>6. CASE desk' = desk + 1 /\ pushes' \in {pushes, Append(pushes, desk')}
    <3>1. desk' \in Nat /\ desk <= desk'
      BY <1>2, <2>6
    <3>2. CASE pushes' = pushes
      BY <1>2, <3>1, <3>2 DEF OrderInv
    <3> QED
      BY <2>4, <2>6, <3>1, <3>2
  <2> QED
    BY <2>1, <2>2, <2>3, <2>5, <2>6, PushesMove
<1>4. CASE ~PushSnapshot
  <2>1. cache' \in {cache, 0} /\ cache' <= cache
    BY <1>2, <1>4, HelperMoves DEF NoSnapshot
  <2>2. helper' = "up" => cache' <= kept'
    BY <1>2, <1>4, HelperMoves DEF OrderInv
  <2>3. cache' \in Nat /\ \A i \in DOMAIN pushes' : pushes'[i] \in Nat
    <3>1. KwinInv'
      BY <1>1, KwinNext
    <3> QED
      BY <1>2, <2>1, <3>1, Bounds, ElementOfSeq DEF KwinInv
  <2> QED
    BY <1>2, <1>3, <2>1, <2>2, <2>3 DEF OrderInv
<1>5. CASE PushSnapshot
  <2>1. /\ pushes # <<>> /\ desk' = desk /\ helper' = "up"
        /\ Head(pushes) = pushes[1] /\ 1 \in DOMAIN pushes
        /\ DOMAIN pushes' = 1 .. (Len(pushes) - 1)
        /\ \A i \in DOMAIN pushes' : i + 1 \in DOMAIN pushes /\ pushes'[i] = pushes[i + 1]
    BY <1>2, <1>5, PushHandled, HeadTailProperties, EmptySeq DEF PushTaken
  <2>2. \A i \in DOMAIN pushes' : pushes[1] <= pushes'[i]
    BY <1>2, <2>1 DEF OrderInv
  <2>3. cache <= pushes[1] /\ pushes[1] <= desk /\ cache <= KeptOnCall
    BY <1>2, <1>1, <2>1 DEF OrderInv, KeptOnCall, HelperInv
  <2>4. CASE kept' = Head(pushes) /\ cache' = kept'
    BY <1>2, <1>3, <2>1, <2>2, <2>3, <2>4 DEF OrderInv
  <2>5. CASE kept' \in {Head(pushes), KeptOnCall} /\ cache' = cache
    BY <1>2, <1>3, <2>1, <2>3, <2>5 DEF OrderInv
  <2> QED
    BY <1>5, <2>4, <2>5, PushHandled
<1> QED
  BY <1>4, <1>5

LEMMA LastOf ==
  ASSUME NEW S, NEW s \in Seq(S), NEW x \in S
  PROVE  /\ Append(s, x) # <<>> /\ Last(Append(s, x)) = x
         /\ s # <<>> /\ Tail(s) # <<>> => Last(Tail(s)) = Last(s)
         /\ s # <<>> /\ Tail(s) = <<>> => Head(s) = Last(s)
<1>1. Append(s, x) # <<>> /\ Last(Append(s, x)) = x
  BY AppendProperties DEF Last
<1>2. ASSUME s # <<>>
      PROVE  /\ Tail(s) \in Seq(S) /\ Len(s) \in Nat \ {0}
             /\ Len(Tail(s)) = Len(s) - 1
             /\ \A i \in 1 .. Len(Tail(s)) : Tail(s)[i] = s[i + 1]
  BY <1>2, HeadTailProperties, EmptySeq
<1>3. ASSUME s # <<>>, Tail(s) # <<>> PROVE Last(Tail(s)) = Last(s)
  <2>1. Len(Tail(s)) \in Nat \ {0}
    BY <1>2, <1>3, EmptySeq
  <2>2. Tail(s)[Len(s) - 1] = s[Len(s)]
    BY <1>2, <1>3, <2>1
  <2> QED
    BY <1>2, <1>3, <2>2 DEF Last
<1>4. ASSUME s # <<>>, Tail(s) = <<>> PROVE Head(s) = Last(s)
  <2>3. Len(<<>>) = 0
    OBVIOUS
  <2>1. Len(Tail(s)) = 0
    BY <1>4, <2>3
  <2>2. Len(s) = 1
    BY <1>2, <1>4, <2>1
  <2> QED
    BY <2>2 DEF Last
<1> QED
  BY <1>1, <1>3, <1>4

(* What a step may do to the signals under way.                            *)
LEMMA SignalMoves ==
  ASSUME TypeOK, [Next]_vars, ~PushSnapshot
  PROVE  \/ signals' = signals /\ (subscribed => subscribed')
         \/ HandleSnapshotChanged
<1>1. CASE Subscribe
  <2>1. signals' = signals /\ subscribed' \in {subscribed, TRUE}
    BY <1>1 DEF Subscribe
  <2> QED
    BY <2>1
<1>2. CASE ReadCache \/ AskHelper
  BY <1>2 DEF ReadCache, AskHelper
<1>3. CASE UNCHANGED observerVars
  BY <1>3 DEF observerVars
<1> QED
  BY <1>1, <1>2, <1>3, ObserverMoves

LEMMA SignalNext ==
  ASSUME TypeOK, OrderInv, SignalInv, [Next]_vars
  PROVE  SignalInv'
<1>1. KwinInv /\ FileInv /\ ObserverInv
  BY TypeParts DEF Parts
<1>2. /\ cache \in Nat /\ NoSnapshot = 0
      /\ signals \in Seq(FirstDesk .. MaxDesk)
      /\ signals # <<>> => Last(signals) \in Nat
  <2>1. signals # <<>> => Len(signals) \in 1 .. Len(signals)
    BY <1>1, EmptySeq DEF ObserverInv
  <2> QED
    BY <1>1, <2>1, Bounds, ElementOfSeq DEF FileInv, ObserverInv, Snapshots, NoSnapshot, Last
<1>3. CASE PushSnapshot
  <2>1. Head(pushes) \in FirstDesk .. MaxDesk
    BY <1>1, <1>3, PushHandled, HeadTailProperties DEF PushTaken, KwinInv
  <2>2. CASE cache' = Head(pushes) /\ Emit(Head(pushes))
    <3>1. CASE subscribed
      <4>1. signals' = Append(signals, Head(pushes)) /\ subscribed'
        BY <1>3, <2>2, <3>1, PushHandled DEF Emit
      <4>2. signals' # <<>> /\ Last(signals') = Head(pushes)
        BY <1>2, <2>1, <4>1, LastOf
      <4>3. cache' <= Last(signals')
        BY <2>1, <2>2, <4>2, Bounds
      <4> QED
        BY <4>1, <4>3 DEF SignalInv
    <3>2. CASE ~subscribed
      BY <1>3, <2>2, <3>2, PushHandled DEF Emit, SignalInv
    <3> QED
      BY <3>1, <3>2
  <2>3. CASE UNCHANGED <<cache, signals>>
    BY <1>3, <2>3, PushHandled DEF SignalInv
  <2> QED
    BY <1>3, <2>2, <2>3, PushHandled
<1>4. CASE ~PushSnapshot /\ ~HandleSnapshotChanged
  <2>1. cache' \in {cache, 0} /\ signals' = signals /\ (subscribed => subscribed')
    BY <1>2, <1>4, HelperMoves, SignalMoves
  <2> QED
    BY <1>2, <2>1 DEF SignalInv
<1>5. CASE HandleSnapshotChanged
  <2>1. /\ signals # <<>> /\ signals' = Tail(signals) /\ subscribed' = subscribed
        /\ cache' = cache
    BY <1>5 DEF HandleSnapshotChanged, fileVars
  <2>2. signals' # <<>> => Last(signals') = Last(signals)
    BY <1>2, <2>1, ElementOfSeq, LastOf, HeadTailProperties
  <2> QED
    BY <2>1, <2>2 DEF SignalInv
<1> QED
  BY <1>3, <1>4, <1>5

(* What is left of the start tells its next step.                          *)
LEMMA ServiceAt ==
  ASSUME TypeOK, todo[Service] # <<>>
  PROVE  /\ Len(todo[Service]) \in 1 .. 9
         /\ Head(todo[Service]) = "subscribe" => Len(todo[Service]) = 3
         /\ Head(todo[Service]) = "readCache" => Len(todo[Service]) = 2
         /\ Head(todo[Service]) = "askHelper" => Len(todo[Service]) = 1
         /\ Head(todo[Service]) \notin {"subscribe", "readCache", "askHelper"}
              => Len(todo[Service]) >= 4
         /\ Len(Tail(todo[Service])) = Len(todo[Service]) - 1
<1>1. todo[Service] \in Suffixes(StartSteps)
  BY DEF TypeOK, Service
<1>2. StartSteps \in Seq(StepNames) /\ Len(StartSteps) = 9
  BY StartOrder
<1>3. /\ Len(todo[Service]) \in 1 .. Len(StartSteps)
      /\ Head(todo[Service]) = StartSteps[Len(StartSteps) + 1 - Len(todo[Service])]
      /\ Len(Tail(todo[Service])) = Len(todo[Service]) - 1
  BY <1>1, <1>2, SuffixStep
<1>4. PICK left \in 1 .. 9 :
        /\ Len(todo[Service]) = left
        /\ Head(todo[Service]) = StartSteps[10 - left]
        /\ Len(Tail(todo[Service])) = left - 1
  <2>1. Len(todo[Service]) \in 1 .. 9
    BY <1>2, <1>3
  <2>2. Head(todo[Service]) = StartSteps[10 - Len(todo[Service])]
    BY <1>2, <1>3
  <2> QED
    BY <1>3, <2>1, <2>2
<1>5. CASE left \in {1, 2, 3}
  <2>1. \/ left = 1 /\ Head(todo[Service]) = "askHelper"
        \/ left = 2 /\ Head(todo[Service]) = "readCache"
        \/ left = 3 /\ Head(todo[Service]) = "subscribe"
    BY <1>4, <1>5, StartOrder
  <2> QED
    BY <1>4, <2>1
<1>6. CASE left \in 4 .. 9
  <2>1. 10 - left \in 1 .. 6
    BY <1>6
  <2>2. \A i \in 1 .. 6 : StartSteps[i] \notin {"subscribe", "readCache", "askHelper"}
    BY StartOrder
  <2>3. Head(todo[Service]) \notin {"subscribe", "readCache", "askHelper"}
    BY <1>4, <2>1, <2>2
  <2> QED
    BY <1>4, <1>6, <2>3
<1> QED
  BY <1>5, <1>6

(* Until it has set up the backend, the service takes a step or gives up;  *)
(* then only the three steps of its own move it.                           *)
LEMMA ServiceMoves ==
  ASSUME TypeOK, [Next]_vars, ~Subscribe, ~ReadCache, ~AskHelper
  PROVE  \/ todo'[Service] = todo[Service] /\ (Service \in failed => Service \in failed')
         \/ /\ Len(todo[Service]) >= 4 /\ Len(todo'[Service]) = Len(todo[Service]) - 1
            /\ Len(todo[Service]) \in Nat
         \/ Service \in failed' /\ todo'[Service] = <<>>
<1>1. DOMAIN todo = Processes /\ Service \in Processes
  BY DEF TypeOK, Service, Processes
<1>2. ASSUME NEW p \in Processes, Step(p), p = Service
      PROVE  /\ todo[Service] # <<>>
             /\ Head(todo[Service]) \notin {"subscribe", "readCache", "askHelper"}
             /\ \/ todo' = [todo EXCEPT ![Service] = Tail(@)]
                \/ todo' = [todo EXCEPT ![Service] = <<>>] /\ failed' = failed \cup {Service}
  BY <1>2 DEF Step, InstallFiles, StopHelper, UnloadScript, SetEnabled, ReconfigureKWin,
              StartScripts, RemoveFiles, Does, GivesUp, SkipsWithFault
<1>3. CASE Step(Service)
  <2>1. CASE todo' = [todo EXCEPT ![Service] = Tail(@)]
    <3>1. todo'[Service] = Tail(todo[Service])
      BY <1>1, <2>1
    <3>2. Len(todo[Service]) >= 4 /\ Len(todo[Service]) \in 1 .. 9
          /\ Len(Tail(todo[Service])) = Len(todo[Service]) - 1
      BY <1>1, <1>2, <1>3, ServiceAt
    <3> QED
      BY <3>1, <3>2
  <2>2. CASE todo' = [todo EXCEPT ![Service] = <<>>] /\ failed' = failed \cup {Service}
    BY <1>1, <2>2
  <2> QED
    BY <1>1, <1>2, <1>3, <2>1, <2>2
<1>4. CASE RunProbe
  BY <1>1, <1>4 DEF RunProbe, Service
<1>5. ASSUME NEW p \in Processes, Step(p), p # Service
      PROVE  todo'[Service] = todo[Service] /\ (Service \in failed => Service \in failed')
  BY <1>1, <1>5 DEF Step, InstallFiles, StopHelper, UnloadScript, SetEnabled, ReconfigureKWin,
                    StartScripts, RemoveFiles, Does, GivesUp, SkipsWithFault
<1>6. CASE DeskChanges \/ ReloadScripts \/ LosePush \/ HandleSnapshotChanged
  BY <1>6 DEF DeskChanges, ReloadScripts, LosePush, HandleSnapshotChanged, controlVars
<1>7. CASE PushSnapshot \/ HelperCrashes
  BY <1>7 DEF PushSnapshot, TakesPush, HelperCrashes
<1>8. CASE UNCHANGED vars
  BY <1>8 DEF vars
<1> QED
  BY <1>3, <1>4, <1>5, <1>6, <1>7, <1>8 DEF Next

LEMMA StartNext ==
  ASSUME TypeOK, OrderInv, SignalInv, StartInv, [Next]_vars
  PROVE  StartInv'
<1>1. KwinInv /\ FileInv /\ HelperInv /\ ObserverInv
  BY TypeParts DEF Parts
<1>2. KwinInv' /\ FileInv' /\ ObserverInv' /\ SignalInv'
  BY TypeNext, TypeParts, SignalNext DEF Parts
<1>3. /\ cache \in Nat /\ cache' \in Nat /\ kept \in Nat /\ NoSnapshot = 0
      /\ published \in Nat
      /\ signals \in Seq(FirstDesk .. MaxDesk)
  BY <1>1, <1>2, Bounds DEF FileInv, ObserverInv, HelperInv, Snapshots, NoSnapshot
<1>0. DOMAIN todo = Processes /\ Service \in Processes
  BY DEF TypeOK, Service, Processes
<1>12. Len(<<>>) = 0
  OBVIOUS
<1>4. CASE PushSnapshot
  <2>1. todo' = todo /\ failed' = failed /\ subscribed' = subscribed /\ published' = published
    BY <1>4, PushHandled
  <2>2. Head(pushes) \in FirstDesk .. MaxDesk
    BY <1>1, <1>4, PushHandled, HeadTailProperties DEF PushTaken, KwinInv
  <2>3. CASE cache' = Head(pushes) /\ Emit(Head(pushes))
    <3>1. CASE subscribed
      <4>1. signals' = Append(signals, Head(pushes))
        BY <2>3, <3>1 DEF Emit
      <4>2. signals' # <<>> /\ Last(signals') = Head(pushes)
        BY <1>3, <2>2, <4>1, LastOf
      <4>3. WillPublish' = cache'
        BY <2>3, <4>2 DEF WillPublish
      <4>4. cache' <= WillPublish'
        BY <1>3, <4>3
      <4> QED
        BY <2>1, <3>1, <4>4 DEF StartInv
    <3>2. CASE ~subscribed
      BY <2>1, <3>2 DEF StartInv, SignalInv
    <3> QED
      BY <3>1, <3>2
  <2>4. CASE UNCHANGED <<cache, signals>>
    BY <2>1, <2>4 DEF StartInv, WillPublish
  <2> QED
    BY <1>4, <2>3, <2>4, PushHandled
<1>5. CASE HandleSnapshotChanged
  <2>1. /\ signals # <<>> /\ published' = Head(signals) /\ signals' = Tail(signals)
        /\ UNCHANGED <<cache, subscribed, todo, failed>> /\ todo[Service] = <<>>
    BY <1>5 DEF HandleSnapshotChanged, fileVars, controlVars
  <2>2. WillPublish' = Last(signals) /\ WillPublish = Last(signals)
    BY <1>3, <2>1, LastOf, ElementOfSeq, HeadTailProperties DEF WillPublish
  <2> QED
    BY <1>12, <2>1, <2>2 DEF StartInv
<1>6. CASE Subscribe
  <2>1. /\ todo[Service] # <<>> /\ Head(todo[Service]) = "subscribe"
        /\ UNCHANGED <<signals, published, cache>>
        /\ \/ todo' = [todo EXCEPT ![Service] = Tail(@)] /\ subscribed' = TRUE
           \/ todo' = [todo EXCEPT ![Service] = <<>>] /\ failed' = failed \cup {Service}
    BY <1>6 DEF Subscribe, Does, GivesUp, fileVars
  <2>2. Len(todo[Service]) = 3 /\ Len(Tail(todo[Service])) = 2
    BY <2>1, ServiceAt
  <2>3. published' = NoSnapshot
    BY <2>1, <2>2 DEF StartInv
  <2>4. CASE todo' = [todo EXCEPT ![Service] = Tail(@)] /\ subscribed' = TRUE
    <3>1. Len(todo'[Service]) = 2
      BY <1>0, <2>2, <2>4
    <3>2. ~(Len(todo'[Service]) <= 1)
      BY <3>1
    <3>3. subscribed'
      BY <2>4
    <3> QED
      BY <2>3, <3>2, <3>3 DEF StartInv
  <2>5. CASE todo' = [todo EXCEPT ![Service] = <<>>] /\ failed' = failed \cup {Service}
    BY <2>3, <2>5 DEF StartInv
  <2> QED
    BY <2>1, <2>4, <2>5
<1>7. CASE ReadCache
  <2>1. /\ todo[Service] # <<>> /\ Head(todo[Service]) = "readCache"
        /\ UNCHANGED <<subscribed, signals, cache, failed>>
        /\ todo' = [todo EXCEPT ![Service] = Tail(@)]
        /\ published' \in {published, cache}
    BY <1>7 DEF ReadCache, Does, SkipsWithFault, fileVars
  <2>2. Len(todo[Service]) = 2 /\ Len(Tail(todo[Service])) = 1
    BY <2>1, ServiceAt
  <2>3. Len(todo'[Service]) = 1 /\ published = NoSnapshot
    BY <1>0, <2>1, <2>2 DEF StartInv
  <2>4. Service \notin failed' => subscribed'
    BY <2>1, <2>2 DEF StartInv
  <2>5. WillPublish' # NoSnapshot => cache' <= WillPublish'
    BY <1>3, <2>1, <2>3 DEF WillPublish, SignalInv
  <2> QED
    BY <2>3, <2>4, <2>5 DEF StartInv
<1>8. CASE AskHelper
  <2>1. /\ todo[Service] # <<>> /\ Head(todo[Service]) = "askHelper"
        /\ UNCHANGED <<subscribed, signals, cache, failed>>
        /\ todo' = [todo EXCEPT ![Service] = Tail(@)]
        /\ published' = published \/ (helper = "up" /\ published' = kept)
    BY <1>8 DEF AskHelper, Does, SkipsWithFault, fileVars
  <2>2. Len(todo[Service]) = 1 /\ Len(Tail(todo[Service])) = 0
    BY <2>1, ServiceAt
  <2>3. Len(todo'[Service]) = 0
    BY <1>0, <2>1, <2>2
  <2>4. Service \notin failed' => subscribed'
    BY <2>1, <2>2 DEF StartInv
  <2>5. Service \notin failed' /\ WillPublish' # NoSnapshot => cache' <= WillPublish'
    <3>1. CASE published' = published
      BY <2>1, <2>2, <3>1 DEF WillPublish, StartInv
    <3>2. CASE helper = "up" /\ published' = kept
      BY <1>3, <2>1, <3>2 DEF WillPublish, SignalInv, OrderInv
    <3> QED
      BY <2>1, <3>1, <3>2
  <2> QED
    BY <2>3, <2>4, <2>5 DEF StartInv
<1>9. CASE /\ ~PushSnapshot /\ ~HandleSnapshotChanged
           /\ ~Subscribe /\ ~ReadCache /\ ~AskHelper
  <2>1. UNCHANGED <<subscribed, signals, published>> /\ cache' \in {cache, 0}
    BY <1>3, <1>9, ObserverMoves, HelperMoves DEF observerVars
  <2>2. WillPublish' = WillPublish
    BY <2>1 DEF WillPublish
  <2>3. WillPublish \in Nat
    BY <1>3, ElementOfSeq, EmptySeq, Bounds DEF WillPublish, Last
  <2>4. cache <= WillPublish => cache' <= WillPublish
    BY <1>3, <2>1, <2>3
  <2>5. CASE todo'[Service] = todo[Service] /\ (Service \in failed => Service \in failed')
    BY <2>1, <2>2, <2>4, <2>5 DEF StartInv
  <2>6. CASE /\ Len(todo[Service]) >= 4 /\ Len(todo'[Service]) = Len(todo[Service]) - 1
             /\ Len(todo[Service]) \in Nat
    BY <2>1, <2>6 DEF StartInv
  <2>7. CASE Service \in failed' /\ todo'[Service] = <<>>
    BY <1>12, <2>7 DEF StartInv
  <2> QED
    BY <1>9, <2>5, <2>6, <2>7, ServiceMoves
<1> QED
  BY <1>4, <1>5, <1>6, <1>7, <1>8, <1>9

LEMMA Inductive == IInv /\ [Next]_vars => IInv'
BY TypeNext, OrderNext, SignalNext, StartNext DEF IInv

LEMMA InvInit == Init => IInv
<1> SUFFICES ASSUME Init PROVE IInv
  OBVIOUS
<1>1. TypeOK
  BY TypeInit
<1>2. /\ pushes = <<>> /\ signals = <<>> /\ helper = "down" /\ desk = FirstDesk
      /\ cache \in {NoSnapshot, PreviousSession} /\ published = NoSnapshot
      /\ todo[Service] = StartSteps
  BY DEF Init, Service, Processes
<1>3. OrderInv
  BY <1>2, Bounds DEF OrderInv, NoSnapshot, PreviousSession, FirstDesk
<1>4. SignalInv
  BY <1>2 DEF SignalInv
<1>5. StartInv
  BY <1>2, StartOrder DEF StartInv
<1> QED
  BY <1>1, <1>3, <1>4, <1>5 DEF IInv

LEMMA NotBehind == IInv => ObserverNotBehindCache
<1> SUFFICES ASSUME IInv, Running, WillPublish # NoSnapshot PROVE WillPublish >= cache
  BY DEF ObserverNotBehindCache
<1>1. Len(<<>>) = 0
  OBVIOUS
<1>2. cache <= WillPublish
  BY <1>1 DEF IInv, StartInv, Running
<1> QED
  BY <1>2

(* What a running observer shows, or is about to show, is never behind the *)
(* cache file: nothing falls between subscribing and reading the cache     *)
(* (KWinScriptWindowObserver::start), and PushSnapshot signals whatever it *)
(* caches - after any failure, restart of the helper, setup or teardown.   *)
THEOREM NeverBehind == Spec => []ObserverNotBehindCache
<1> QED
  BY InvInit, Inductive, NotBehind, PTL DEF Spec

=============================================================================
