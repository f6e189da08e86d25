----------------------- MODULE WindowActivationProofs -----------------------
(***************************************************************************)
(* Proofs about WindowActivation, for any windows and requests and any     *)
(* number of changes and faults: its variables keep their types, the       *)
(* script polls one request at a time, requests are attempted in the order *)
(* of their acceptance, and without faults none is skipped.                *)
(***************************************************************************)
EXTENDS WindowActivation, SequenceTheorems, TLAPS

-----------------------------------------------------------------------------
(* Sequences *)

LEMMA RangeOfAppend ==
  ASSUME NEW S, NEW s \in Seq(S), NEW x \in S
  PROVE  Range(Append(s, x)) = Range(s) \cup {x}
<1>1. /\ DOMAIN Append(s, x) = 1 .. (Len(s) + 1) /\ DOMAIN s = 1 .. Len(s) /\ Len(s) \in Nat
      /\ \A i \in DOMAIN s : Append(s, x)[i] = s[i]
      /\ Append(s, x)[Len(s) + 1] = x
  OBVIOUS
<1> QED
  BY <1>1 DEF Range

LEMMA Rest ==
  ASSUME NEW S, NEW n \in Nat, NEW s \in Seq(S), n <= Len(s)
  PROVE  LET t == SubSeq(s, n + 1, Len(s))
         IN  /\ t \in Seq(S)
             /\ DOMAIN t = 1 .. (Len(s) - n)
             /\ \A i \in DOMAIN t : i + n \in DOMAIN s /\ t[i] = s[i + n]
  OBVIOUS

LEMMA PairAppended ==
  ASSUME NEW S, NEW s \in Seq(S), NEW x \in S, NEW y \in S
  PROVE  <<x, y>> \in Seq(S) /\ s \o <<x, y>> \in Seq(S)
<1>1. <<x, y>> \in Seq(S)
  OBVIOUS
<1> QED
  BY <1>1

-----------------------------------------------------------------------------
(* Types *)

(* The conjuncts of TypeOK, by what they are about.                        *)
DesktopInv == open \subseteq Windows /\ active \in open \cup {None}

SnapshotsInv ==
  /\ known \in Snapshots \cup {NoSnapshot}
  /\ cache \in Snapshots \cup {NoSnapshot}
  /\ kept \in Snapshots \cup {NoSnapshot}
  /\ signals \in Seq(Snapshots)

HelperInv ==
  /\ helper \in {"up", "down"} /\ (helper = "down" => kept = NoSnapshot /\ queue = <<>>)
  /\ queue \in Seq(Requests)

RequestInv ==
  /\ target \in [Requests -> Windows]
  /\ result \in [Requests -> Results]
  /\ {accepted, attempted} \subseteq Seq(Requests)
  /\ \A r \in Requests : r \in Range(accepted) <=> result[r] = "accepted"

ScriptInv ==
  /\ calls \in Seq(Pushes \cup Takes)
  /\ replies \in Seq(Requests \cup {None}) /\ Len(replies) <= 1
  /\ inFlight \in BOOLEAN

BoundInv == changes \in 0 .. MaxChanges /\ faults \in 0 .. MaxFaults

Parts == DesktopInv /\ SnapshotsInv /\ HelperInv /\ RequestInv /\ ScriptInv /\ BoundInv

LEMMA TypeParts == (TypeOK <=> Parts) /\ (TypeOK' <=> Parts')
BY DEF TypeOK, Parts, DesktopInv, SnapshotsInv, HelperInv, RequestInv, ScriptInv, BoundInv

LEMMA CallsMade ==
  /\ \A snapshot \in Snapshots : Push(snapshot) \in Pushes
  /\ \A live \in BOOLEAN : Take(live) \in Takes
  /\ \A call \in Takes : call = Take(call.live) /\ call.live \in BOOLEAN
  /\ \A call \in Pushes : call.snapshot \in Snapshots
  /\ Pushes \cap Takes = {}
BY DEF Push, Take, Pushes, Takes

LEMMA TypeInit == Init => TypeOK
<1> SUFFICES ASSUME Init PROVE TypeOK
  OBVIOUS
<1>1. DesktopInv
  BY DEF Init, DesktopInv
<1> DEFINE first == [ready |-> TRUE, open |-> Windows, active |-> None, attempts |-> 0]
<1>2. first \in Snapshots
  BY DEF Snapshots
<1>3. SnapshotsInv
  <2>1. cache \in {NoSnapshot, first} /\ known = cache /\ kept = cache /\ signals = <<>>
    BY DEF Init
  <2> HIDE DEF first
  <2> QED
    BY <1>2, <2>1 DEF SnapshotsInv
<1>4. HelperInv
  BY DEF Init, HelperInv
<1>5. RequestInv
  BY DEF Init, RequestInv, Results, Range
<1>6. calls = <<Push(first), Take(TRUE)>>
  BY DEF Init
<1> HIDE DEF first
<1>7. Push(first) \in Pushes /\ Take(TRUE) \in Takes
  BY <1>2, CallsMade
<1>8. calls \in Seq(Pushes \cup Takes)
  <2> DEFINE push == Push(first)
             take == Take(TRUE)
  <2>1. push \in Pushes \cup Takes /\ take \in Pushes \cup Takes /\ calls = <<push, take>>
    BY <1>6, <1>7
  <2> HIDE DEF push, take
  <2> QED
    BY <2>1
<1>9. replies = <<>> /\ inFlight = TRUE
  BY DEF Init
<1>11. ScriptInv
  BY <1>8, <1>9 DEF ScriptInv
<1>10. BoundInv
  BY BoundsAssumption DEF Init, BoundInv
<1> QED
  BY <1>1, <1>3, <1>4, <1>5, <1>11, <1>10, TypeParts DEF Parts

LEMMA BeginTypes ==
  ASSUME TypeOK, NEW r \in Requests, HttpActivate(r) \/ ProbeActivate(r)
  PROVE  TypeOK'
<1>1. PICK answer \in {"not_ready", "not_found", "asking"} :
        result[r] = "none" /\ result' = [result EXCEPT ![r] = answer]
  BY DEF HttpActivate, ProbeActivate, Begin, Answer
<1>2. UNCHANGED <<desktopVars, known, cache, target, helperVars, scriptVars, signals,
                  accepted, attempted, changes, faults>>
  BY DEF HttpActivate, ProbeActivate, Begin
<1>3. RequestInv'
  BY <1>1, <1>2, TypeParts DEF Parts, RequestInv, Results
<1> QED
  BY <1>2, <1>3, TypeParts
  DEF Parts, DesktopInv, SnapshotsInv, HelperInv, ScriptInv, BoundInv, desktopVars, helperVars, scriptVars

LEMMA AskIsReadyTypes ==
  ASSUME TypeOK, NEW r \in Requests, AskIsReady(r)
  PROVE  TypeOK'
<1>1. PICK answer \in {"requesting", "not_ready"} :
        result[r] = "asking" /\ result' = [result EXCEPT ![r] = answer]
  BY DEF AskIsReady, Answer
<1>2. UNCHANGED <<desktopVars, known, cache, target, scriptVars, signals,
                  accepted, attempted, changes, faults>>
  BY DEF AskIsReady
<1>3. RequestInv'
  BY <1>1, <1>2, TypeParts DEF Parts, RequestInv, Results
<1>4. kept' \in {kept, cache} /\ queue' = queue /\ helper' \in {helper, "up"} /\
      (helper' = "down" => kept' = kept /\ helper = "down")
  BY DEF AskIsReady, HelperAnswers, HelperStarts, helperVars
<1>5. HelperInv' /\ SnapshotsInv'
  BY <1>2, <1>4, TypeParts DEF Parts, HelperInv, SnapshotsInv
<1> QED
  BY <1>2, <1>3, <1>5, TypeParts DEF Parts, DesktopInv, ScriptInv, BoundInv, desktopVars, scriptVars

LEMMA RequestActivateWindowTypes ==
  ASSUME TypeOK, NEW r \in Requests, RequestActivateWindow(r)
  PROVE  TypeOK'
<1>1. UNCHANGED <<desktopVars, known, cache, target, scriptVars, signals,
                  attempted, changes, faults>>
  BY DEF RequestActivateWindow
<1>2. helper' = "up" /\ kept' \in {kept, cache} /\ result[r] = "requesting"
  BY DEF RequestActivateWindow
<1>3. \/ /\ result' = [result EXCEPT ![r] = "accepted"] /\ accepted' = Append(accepted, r)
         /\ queue' = Append(queue, r)
      \/ /\ result' = [result EXCEPT ![r] = "not_activatable"]
         /\ UNCHANGED <<accepted, queue>>
  BY DEF RequestActivateWindow, Answer
<1>4. RequestInv'
  <2>1. CASE /\ result' = [result EXCEPT ![r] = "accepted"] /\ accepted' = Append(accepted, r)
             /\ queue' = Append(queue, r)
    <3>1. Range(accepted') = Range(accepted) \cup {r} /\ accepted' \in Seq(Requests)
      BY <2>1, TypeParts, RangeOfAppend DEF Parts, RequestInv
    <3> QED
      BY <1>1, <2>1, <3>1, TypeParts DEF Parts, RequestInv, Results
  <2>2. CASE result' = [result EXCEPT ![r] = "not_activatable"] /\ UNCHANGED <<accepted, queue>>
    BY <1>1, <1>2, <2>2, TypeParts DEF Parts, RequestInv, Results
  <2> QED
    BY <1>3, <2>1, <2>2
<1>5. SnapshotsInv'
  BY <1>1, <1>2, TypeParts DEF Parts, SnapshotsInv
<1>6. queue' \in Seq(Requests)
  BY <1>3, TypeParts DEF Parts, HelperInv
<1>7. HelperInv'
  BY <1>2, <1>6 DEF HelperInv
<1> QED
  BY <1>1, <1>4, <1>5, <1>7, TypeParts DEF Parts, DesktopInv, ScriptInv, BoundInv, desktopVars, scriptVars

LEMMA PushSnapshotTypes ==
  ASSUME TypeOK, PushSnapshot
  PROVE  TypeOK'
<1>1. UNCHANGED <<desktopVars, known, requestVars, replies, inFlight, queue,
                  accepted, attempted, changes>>
  BY DEF PushSnapshot
<1>2. calls # <<>> /\ Head(calls) \in Pushes /\ calls' = Tail(calls)
      /\ helper' = "up" /\ kept' = Head(calls).snapshot
  BY DEF PushSnapshot, Delivered
<1>3. \/ cache' = kept' /\ signals' = Append(signals, kept') /\ UNCHANGED faults
      \/ faults < MaxFaults /\ faults' = faults + 1 /\ UNCHANGED <<cache, signals>>
  BY DEF PushSnapshot
<1>4. kept' \in Snapshots
  BY <1>2, CallsMade
<1>8. signals' \in Seq(Snapshots) /\ cache' \in {cache, kept'}
  BY <1>3, <1>4, TypeParts DEF Parts, SnapshotsInv
<1>9. SnapshotsInv'
  BY <1>1, <1>4, <1>8, TypeParts DEF Parts, SnapshotsInv
<1>5. SnapshotsInv' /\ HelperInv'
  BY <1>1, <1>2, <1>9, TypeParts DEF Parts, HelperInv
<1>6. ScriptInv'
  BY <1>1, <1>2, TypeParts DEF Parts, ScriptInv
<1>7. BoundInv'
  BY <1>1, <1>3, TypeParts, BoundsAssumption DEF Parts, BoundInv
<1> QED
  BY <1>1, <1>5, <1>6, <1>7, TypeParts DEF Parts, DesktopInv, RequestInv, desktopVars, requestVars

(* The poll that is delivered is the only one, so no answer is on its way. *)
LEMMA TakeActivationRequestTypes ==
  ASSUME TypeOK, OnePollInFlight, TakeActivationRequest
  PROVE  TypeOK'
<1>1. UNCHANGED <<desktopVars, known, cache, requestVars, inFlight, signals,
                  accepted, attempted, changes, faults>>
  BY DEF TakeActivationRequest
<1>2. calls # <<>> /\ Head(calls) \in Takes /\ calls' = Tail(calls)
      /\ helper' = "up" /\ kept' \in {kept, cache}
      /\ queue' = IF queue = <<>> THEN queue ELSE Tail(queue)
  BY DEF TakeActivationRequest, Delivered
<1>3. replies' = IF Head(calls).live
                   THEN Append(replies, IF queue = <<>> THEN None ELSE Head(queue)) ELSE replies
  BY DEF TakeActivationRequest
<1>4. SnapshotsInv' /\ HelperInv'
  BY <1>1, <1>2, TypeParts DEF Parts, SnapshotsInv, HelperInv
<1>5. CASE ~Head(calls).live
  <2>1. ScriptInv'
    BY <1>1, <1>2, <1>3, <1>5, TypeParts DEF Parts, ScriptInv
  <2> QED
    BY <1>1, <1>4, <2>1, TypeParts DEF Parts, DesktopInv, RequestInv, BoundInv, desktopVars, requestVars
<1>6. CASE Head(calls).live
  <2>0. Head(calls) = Take(Head(calls).live) /\ Head(calls).live \in BOOLEAN
    BY <1>2, CallsMade
  <2>1. Head(calls) = Take(TRUE) /\ 1 \in DOMAIN calls /\ calls[1] = Head(calls)
    <3>1. 1 \in DOMAIN calls /\ calls[1] = Head(calls)
      BY <1>2, TypeParts DEF Parts, ScriptInv
    <3>2. Head(calls).live = TRUE
      BY <1>6, <2>0
    <3> QED
      BY <2>0, <3>1, <3>2
  <2>2. replies = <<>>
    BY <2>1 DEF OnePollInFlight
  <2>3. (IF queue = <<>> THEN None ELSE Head(queue)) \in Requests \cup {None}
    BY TypeParts DEF Parts, HelperInv
  <2>4. replies' \in Seq(Requests \cup {None}) /\ Len(replies') <= 1
    BY <1>3, <1>6, <2>2, <2>3
  <2>5. ScriptInv'
    BY <1>1, <1>2, <2>4, TypeParts DEF Parts, ScriptInv
  <2> QED
    BY <1>1, <1>4, <2>5, TypeParts DEF Parts, DesktopInv, RequestInv, BoundInv, desktopVars, requestVars
<1> QED
  BY <1>5, <1>6

LEMMA HelperEndsTypes ==
  ASSUME TypeOK, HelperEnds
  PROVE  TypeOK'
<1>1. UNCHANGED <<desktopVars, known, cache, target, replies, inFlight, signals,
                  accepted, attempted, changes>>
  BY DEF HelperEnds
<1>2. faults < MaxFaults /\ faults' = faults + 1
      /\ helper' = "down" /\ kept' = NoSnapshot /\ queue' = <<>>
  BY DEF HelperEnds
<1>3. PICK n \in 0 .. Len(calls) : calls' = SubSeq(calls, n + 1, Len(calls))
  BY DEF HelperEnds
<1>4. n \in Nat /\ n <= Len(calls)
  BY TypeParts DEF Parts, ScriptInv
<1>5. calls' \in Seq(Pushes \cup Takes)
  BY <1>3, <1>4, Rest, TypeParts DEF Parts, ScriptInv
<1>6. PICK lost \in SUBSET {r \in Requests : result[r] \in {"asking", "requesting"}} :
        result' = [r \in Requests |-> IF r \in lost THEN "not_ready" ELSE result[r]]
  BY DEF HelperEnds
<1>7. RequestInv'
  BY <1>1, <1>6, TypeParts DEF Parts, RequestInv, Results
<1>8. SnapshotsInv' /\ HelperInv'
  BY <1>1, <1>2, TypeParts DEF Parts, SnapshotsInv, HelperInv
<1>9. BoundInv'
  BY <1>1, <1>2, BoundsAssumption, TypeParts DEF Parts, BoundInv
<1> QED
  BY <1>1, <1>5, <1>7, <1>8, <1>9, TypeParts DEF Parts, DesktopInv, ScriptInv, desktopVars

LEMMA PollTypes ==
  ASSUME TypeOK, PollTick \/ NothingToActivate
  PROVE  TypeOK'
<1>1. UNCHANGED <<desktopVars, known, cache, requestVars, helperVars, signals,
                  accepted, attempted, changes, faults>>
  BY DEF PollTick, NothingToActivate
<1>2. \/ inFlight' = TRUE /\ calls' = Append(calls, Take(TRUE)) /\ replies' = replies
      \/ inFlight' = FALSE /\ replies # <<>> /\ replies' = Tail(replies) /\ calls' = calls
  BY DEF PollTick, NothingToActivate
<1>3. Take(TRUE) \in Takes
  BY CallsMade
<1>5. calls' \in Seq(Pushes \cup Takes)
  <2> DEFINE take == Take(TRUE)
  <2>1. calls' \in {calls, Append(calls, take)} /\ take \in Pushes \cup Takes
    BY <1>2, <1>3
  <2> HIDE DEF take
  <2> QED
    BY <2>1, TypeParts DEF Parts, ScriptInv
<1>6. inFlight' \in BOOLEAN /\ replies' \in {replies, Tail(replies)}
      /\ (replies' # replies => replies # <<>>)
  BY <1>2
<1>7. replies' \in Seq(Requests \cup {None}) /\ Len(replies') <= 1
  BY <1>6, TypeParts DEF Parts, ScriptInv
<1>4. ScriptInv'
  BY <1>5, <1>6, <1>7 DEF ScriptInv
<1> QED
  BY <1>1, <1>4, TypeParts
  DEF Parts, DesktopInv, SnapshotsInv, HelperInv, RequestInv, BoundInv, desktopVars, requestVars, helperVars

LEMMA CurrentIsSnapshot ==
  ASSUME open' \subseteq Windows, active' \in open' \cup {None}, attempted' \in Seq(Requests)
  PROVE  Push(Current) \in Pushes
<1>1. Len(attempted') \in Nat
  OBVIOUS
<1>2. Current \in Snapshots
  BY <1>1 DEF Current, Snapshots
<1> QED
  BY <1>2, CallsMade

LEMMA ActivateAndPollTypes ==
  ASSUME TypeOK, ActivateAndPoll
  PROVE  TypeOK'
<1>1. UNCHANGED <<open, known, cache, requestVars, helperVars, signals, accepted, changes, faults>>
  BY DEF ActivateAndPoll
<1>2. replies # <<>> /\ Head(replies) # None /\ replies' = Tail(replies) /\ inFlight' = TRUE
      /\ attempted' = Append(attempted, Head(replies))
      /\ active' = IF target[Head(replies)] \in open THEN target[Head(replies)] ELSE active
  BY DEF ActivateAndPoll
<1>10. calls' = calls \o <<Push(Current), Take(TRUE)>>
  BY DEF ActivateAndPoll
<1>3. Head(replies) \in Requests
  BY <1>2, TypeParts DEF Parts, ScriptInv
<1>4. attempted' \in Seq(Requests)
  BY <1>2, <1>3, TypeParts DEF Parts, RequestInv
<1>5. DesktopInv'
  BY <1>1, <1>2, TypeParts DEF Parts, DesktopInv
<1>6. Push(Current) \in Pushes
  BY <1>4, <1>5, CurrentIsSnapshot DEF DesktopInv
<1>7. Take(TRUE) \in Takes
  BY CallsMade
<1>8. ScriptInv'
  <2>1. calls' \in Seq(Pushes \cup Takes)
    <3> DEFINE push == Push(Current)
               take == Take(TRUE)
    <3>1. push \in Pushes \cup Takes /\ take \in Pushes \cup Takes
      BY <1>6, <1>7
    <3>2. calls' = calls \o <<push, take>>
      BY <1>10
    <3> HIDE DEF push, take
    <3> QED
      BY <3>1, <3>2, PairAppended, TypeParts DEF Parts, ScriptInv
  <2> QED
    BY <1>2, <2>1, TypeParts DEF Parts, ScriptInv
<1>9. RequestInv'
  BY <1>1, <1>4, TypeParts DEF Parts, RequestInv, requestVars
<1> QED
  BY <1>1, <1>5, <1>8, <1>9, TypeParts DEF Parts, SnapshotsInv, HelperInv, BoundInv, helperVars

LEMMA ChangeTypes ==
  ASSUME TypeOK, NEW w \in Windows, WindowCloses(w) \/ UserActivates(w)
  PROVE  TypeOK'
<1>1. UNCHANGED <<known, cache, requestVars, helperVars, replies, inFlight, signals,
                  accepted, attempted, faults>>
      /\ changes < MaxChanges /\ changes' = changes + 1
      /\ calls' = Append(calls, Push(Current))
  BY DEF WindowCloses, UserActivates, Change
<1>2. DesktopInv'
  BY TypeParts DEF Parts, DesktopInv, WindowCloses, UserActivates
<1>3. Push(Current) \in Pushes
  BY <1>1, <1>2, TypeParts, CurrentIsSnapshot DEF Parts, DesktopInv, RequestInv
<1>4. ScriptInv'
  BY <1>1, <1>3, TypeParts DEF Parts, ScriptInv
<1>5. BoundInv'
  BY <1>1, BoundsAssumption, TypeParts DEF Parts, BoundInv
<1> QED
  BY <1>1, <1>2, <1>4, <1>5, TypeParts DEF Parts, SnapshotsInv, HelperInv, RequestInv, requestVars, helperVars

LEMMA DeadCalls ==
  ASSUME TypeOK
  PROVE  [i \in DOMAIN calls |-> IF calls[i] \in Takes THEN Take(FALSE) ELSE calls[i]]
           \in Seq(Pushes \cup Takes)
<1> DEFINE poll == Take(FALSE)
           dead == [i \in DOMAIN calls |-> IF calls[i] \in Takes THEN poll ELSE calls[i]]
<1>1. poll \in Pushes \cup Takes
  BY CallsMade
<1> HIDE DEF poll
<1>2. DOMAIN calls = 1 .. Len(calls) /\ Len(calls) \in Nat
      /\ \A i \in DOMAIN calls : calls[i] \in Pushes \cup Takes
  BY TypeParts DEF Parts, ScriptInv
<1>3. \A i \in 1 .. Len(calls) : dead[i] \in Pushes \cup Takes
  BY <1>1, <1>2
<1>4. dead = [i \in 1 .. Len(calls) |-> dead[i]]
  BY <1>2
<1> HIDE DEF dead
<1>5. dead \in Seq(Pushes \cup Takes)
  BY <1>2, <1>3, <1>4
<1> QED
  BY <1>5 DEF dead, poll

LEMMA ScriptReloadsTypes ==
  ASSUME TypeOK, ScriptReloads
  PROVE  TypeOK'
<1>1. UNCHANGED <<desktopVars, attempted, known, cache, requestVars, helperVars, signals,
                  accepted, changes>>
      /\ faults < MaxFaults /\ faults' = faults + 1
      /\ inFlight' = TRUE /\ replies' = <<>>
  BY DEF ScriptReloads
<1> DEFINE dead == [i \in DOMAIN calls |-> IF calls[i] \in Takes THEN Take(FALSE) ELSE calls[i]]
           push == Push(Current)
           take == Take(TRUE)
<1>2. calls' = dead \o <<push, take>>
  BY DEF ScriptReloads
<1>3. push \in Pushes \cup Takes
  BY <1>1, TypeParts, CurrentIsSnapshot DEF Parts, DesktopInv, RequestInv, desktopVars
<1>4. take \in Pushes \cup Takes /\ Take(FALSE) \in Pushes \cup Takes
  BY CallsMade
<1>5. dead \in Seq(Pushes \cup Takes)
  BY DeadCalls
<1> HIDE DEF dead, push, take
<1>6. calls' \in Seq(Pushes \cup Takes)
  BY <1>2, <1>3, <1>4, <1>5, PairAppended
<1>7. ScriptInv'
  BY <1>1, <1>6 DEF ScriptInv
<1>8. BoundInv'
  BY <1>1, BoundsAssumption, TypeParts DEF Parts, BoundInv
<1> QED
  BY <1>1, <1>7, <1>8, TypeParts
  DEF Parts, DesktopInv, SnapshotsInv, HelperInv, RequestInv, desktopVars, requestVars, helperVars

LEMMA HandleSnapshotChangedTypes ==
  ASSUME TypeOK, HandleSnapshotChanged
  PROVE  TypeOK'
<1>1. UNCHANGED <<desktopVars, cache, requestVars, helperVars, scriptVars,
                  accepted, attempted, changes, faults>>
      /\ signals # <<>> /\ known' = Head(signals) /\ signals' = Tail(signals)
  BY DEF HandleSnapshotChanged
<1>2. SnapshotsInv'
  BY <1>1, TypeParts DEF Parts, SnapshotsInv, helperVars
<1> QED
  BY <1>1, <1>2, TypeParts
  DEF Parts, DesktopInv, HelperInv, RequestInv, ScriptInv, BoundInv, desktopVars, requestVars, helperVars, scriptVars

(* The type invariant takes that one poll is under way to be inductive.    *)
LEMMA TypeStep == TypeOK /\ OnePollInFlight /\ [Next]_vars => TypeOK'
<1> SUFFICES ASSUME TypeOK, OnePollInFlight, [Next]_vars PROVE TypeOK'
  OBVIOUS
<1>1. CASE UNCHANGED vars
  BY <1>1 DEF vars, TypeOK
<1>2. CASE Next
  BY <1>2, BeginTypes, AskIsReadyTypes, RequestActivateWindowTypes, PushSnapshotTypes,
     TakeActivationRequestTypes, HelperEndsTypes, PollTypes, ActivateAndPollTypes, ChangeTypes,
     ScriptReloadsTypes, HandleSnapshotChangedTypes
  DEF Next, Requests
<1> QED
  BY <1>1, <1>2

-----------------------------------------------------------------------------
(* One poll under way *)

(* Where the polls of the running script are among the calls.              *)
LivePoll == Take(TRUE)
Polls(s) == {i \in DOMAIN s : s[i] = LivePoll}
AtMostOne(s) == \A i, j \in Polls(s) : i = j

LEMMA OtherCallAppended ==
  ASSUME NEW S, NEW s \in Seq(S), NEW x \in S, x # LivePoll
  PROVE  Polls(Append(s, x)) = Polls(s)
<1>1. /\ DOMAIN Append(s, x) = 1 .. (Len(s) + 1) /\ DOMAIN s = 1 .. Len(s) /\ Len(s) \in Nat
      /\ \A i \in DOMAIN s : Append(s, x)[i] = s[i]
      /\ Append(s, x)[Len(s) + 1] = x
  OBVIOUS
<1> QED
  BY <1>1 DEF Polls

LEMMA PollAppended ==
  ASSUME NEW S, NEW s \in Seq(S), LivePoll \in S, Polls(s) = {}
  PROVE  AtMostOne(Append(s, LivePoll))
<1> DEFINE x == LivePoll
<1>1. x \in S
  OBVIOUS
<1>2. /\ DOMAIN Append(s, x) = 1 .. (Len(s) + 1) /\ DOMAIN s = 1 .. Len(s) /\ Len(s) \in Nat
      /\ \A i \in DOMAIN s : Append(s, x)[i] = s[i]
  BY <1>1
<1>3. Polls(Append(s, x)) \subseteq {Len(s) + 1}
  BY <1>2 DEF Polls
<1> QED
  BY <1>3 DEF AtMostOne, x

LEMMA RestHasAtMostOne ==
  ASSUME NEW S, NEW s \in Seq(S), AtMostOne(s), NEW n \in Nat, n <= Len(s)
  PROVE  AtMostOne(SubSeq(s, n + 1, Len(s)))
<1> DEFINE t == SubSeq(s, n + 1, Len(s))
<1>1. DOMAIN t = 1 .. (Len(s) - n) /\ \A i \in DOMAIN t : i + n \in DOMAIN s /\ t[i] = s[i + n]
  BY Rest
<1> HIDE DEF t
<1>2. \A i \in Polls(t) : i \in Int /\ i + n \in Polls(s)
  BY <1>1 DEF Polls
<1>3. \A i, j \in Polls(t) : i + n = j + n
  BY <1>2 DEF AtMostOne
<1> QED
  BY <1>2, <1>3 DEF AtMostOne, t

LEMMA TailHasAtMostOne ==
  ASSUME NEW S, NEW s \in Seq(S), s # <<>>, AtMostOne(s)
  PROVE  /\ AtMostOne(Tail(s))
         /\ Head(s) = LivePoll => Polls(Tail(s)) = {} /\ Polls(s) # {}
         /\ Polls(s) = {} => Polls(Tail(s)) = {}
<1>1. /\ DOMAIN s = 1 .. Len(s) /\ Len(s) \in Nat /\ Len(s) > 0
      /\ DOMAIN Tail(s) = 1 .. (Len(s) - 1)
      /\ \A j \in DOMAIN Tail(s) : Tail(s)[j] = s[j + 1]
      /\ Head(s) = s[1]
  OBVIOUS
<1>2. \A i \in Polls(Tail(s)) : i \in Nat \ {0} /\ i + 1 \in Polls(s)
  BY <1>1 DEF Polls
<1>3. \A i, j \in Polls(Tail(s)) : i + 1 = j + 1
  BY <1>2 DEF AtMostOne
<1>4. AtMostOne(Tail(s))
  BY <1>2, <1>3 DEF AtMostOne
<1>5. ASSUME Head(s) = LivePoll, NEW i \in Polls(Tail(s)) PROVE FALSE
  <2>1. 1 \in Polls(s)
    BY <1>1, <1>5 DEF Polls
  <2> QED
    BY <1>2, <1>5, <2>1 DEF AtMostOne
<1>6. Head(s) = LivePoll => Polls(s) # {}
  BY <1>1 DEF Polls
<1> QED
  BY <1>2, <1>4, <1>5, <1>6

LEMMA OnePoll ==
  OnePollInFlight <=> /\ AtMostOne(calls)
                      /\ (replies # <<>> => Polls(calls) = {})
                      /\ (~inFlight => Polls(calls) = {} /\ replies = <<>>)
BY DEF OnePollInFlight, AtMostOne, Polls, LivePoll

LEMMA OnePollNext ==
  OnePollInFlight' <=> /\ AtMostOne(calls')
                       /\ (replies' # <<>> => Polls(calls') = {})
                       /\ (~inFlight' => Polls(calls') = {} /\ replies' = <<>>)
BY DEF OnePollInFlight, AtMostOne, Polls, LivePoll

LEMMA PushIsNoPoll == \A snapshot : Push(snapshot) # LivePoll
BY DEF Push, Take, LivePoll

LEMMA PollInit == Init => OnePollInFlight
<1> SUFFICES ASSUME Init PROVE OnePollInFlight
  OBVIOUS
<1> DEFINE push == Push([ready |-> TRUE, open |-> open, active |-> active, attempts |-> 0])
<1>1. calls = <<push, LivePoll>> /\ replies = <<>> /\ inFlight = TRUE
  BY DEF Init, LivePoll
<1>2. push # LivePoll
  BY PushIsNoPoll
<1> HIDE DEF push
<1>3. Polls(calls) = {2}
  BY <1>1, <1>2 DEF Polls
<1> QED
  BY <1>1, <1>3, OnePoll DEF AtMostOne

(* What a script appends when it publishes, and polls if it does not poll. *)
LEMMA PublishAndPoll ==
  ASSUME NEW S, NEW s \in Seq(S), NEW snapshot, Push(snapshot) \in S, LivePoll \in S, Polls(s) = {}
  PROVE  AtMostOne(s \o <<Push(snapshot), LivePoll>>)
<1> DEFINE push == Push(snapshot)
           take == LivePoll
<1>1. push \in S /\ take \in S /\ push # take
  BY PushIsNoPoll
<1> HIDE DEF push, take
<1>2. s \o <<push, take>> = Append(Append(s, push), take) /\ Append(s, push) \in Seq(S)
  BY <1>1
<1>3. Polls(Append(s, push)) = {}
  BY <1>1, OtherCallAppended DEF take
<1>4. AtMostOne(Append(Append(s, push), take))
  BY <1>1, <1>2, <1>3, PollAppended DEF take
<1> QED
  BY <1>2, <1>4 DEF push, take

LEMMA PollStep == TypeOK /\ OnePollInFlight /\ [Next]_vars => OnePollInFlight'
<1> SUFFICES ASSUME TypeOK, OnePollInFlight, [Next]_vars PROVE OnePollInFlight'
  OBVIOUS
<1>0. calls \in Seq(Pushes \cup Takes) /\ replies \in Seq(Requests \cup {None}) /\ Len(replies) <= 1
      /\ attempted \in Seq(Requests)
  BY TypeParts DEF Parts, ScriptInv, RequestInv
<1>t. TypeOK' /\ LivePoll \in Pushes \cup Takes
  BY TypeStep, CallsMade DEF LivePoll
<1>1. CASE UNCHANGED <<calls, replies, inFlight>>
  BY <1>1, OnePoll, OnePollNext
<1>2. CASE PushSnapshot
  <2>1. calls # <<>> /\ calls' = Tail(calls) /\ UNCHANGED <<replies, inFlight>>
    BY <1>2 DEF PushSnapshot, Delivered
  <2>2. AtMostOne(calls') /\ (Polls(calls) = {} => Polls(calls') = {})
    BY <1>0, <2>1, OnePoll, TailHasAtMostOne
  <2> QED
    BY <2>1, <2>2, OnePoll, OnePollNext
<1>3. CASE TakeActivationRequest
  <2>1. calls # <<>> /\ Head(calls) \in Takes /\ calls' = Tail(calls) /\ UNCHANGED inFlight
    BY <1>3 DEF TakeActivationRequest, Delivered
  <2>2. AtMostOne(calls') /\ (Polls(calls) = {} => Polls(calls') = {})
        /\ (Head(calls) = LivePoll => Polls(calls') = {} /\ Polls(calls) # {})
    BY <1>0, <2>1, OnePoll, TailHasAtMostOne
  <2>3. Head(calls) = LivePoll \/ replies' = replies
    <3>1. Head(calls) = Take(Head(calls).live) /\ Head(calls).live \in BOOLEAN
      BY <2>1, CallsMade
    <3>2. ~Head(calls).live => replies' = replies
      BY <1>3 DEF TakeActivationRequest
    <3>3. CASE Head(calls).live = TRUE
      BY <3>1, <3>3 DEF LivePoll
    <3>4. CASE Head(calls).live = FALSE
      BY <3>2, <3>4
    <3> QED
      BY <3>1, <3>3, <3>4
  <2> QED
    BY <2>1, <2>2, <2>3, OnePoll, OnePollNext
<1>4. CASE HelperEnds
  <2>1. UNCHANGED <<replies, inFlight>>
    BY <1>4 DEF HelperEnds
  <2>2. PICK n \in 0 .. Len(calls) : calls' = SubSeq(calls, n + 1, Len(calls))
    BY <1>4 DEF HelperEnds
  <2>3. n \in Nat /\ n <= Len(calls)
    BY <1>0
  <2>4. AtMostOne(calls')
    BY <1>0, <2>2, <2>3, OnePoll, RestHasAtMostOne
  <2>5. Polls(calls) = {} => Polls(calls') = {}
    <3>1. \A i \in DOMAIN calls' : i + n \in DOMAIN calls /\ calls'[i] = calls[i + n]
      BY <1>0, <2>2, <2>3, Rest
    <3> QED
      BY <3>1 DEF Polls
  <2> QED
    BY <2>1, <2>4, <2>5, OnePoll, OnePollNext
<1>5. CASE PollTick
  <2>1. ~inFlight /\ inFlight' = TRUE /\ calls' = Append(calls, LivePoll) /\ replies' = replies
    BY <1>5 DEF PollTick, LivePoll
  <2>2. AtMostOne(calls') /\ replies' = <<>>
    BY <1>0, <1>t, <2>1, OnePoll, PollAppended
  <2> QED
    BY <2>1, <2>2, OnePollNext
<1>6. CASE NothingToActivate
  <2>1. replies # <<>> /\ replies' = Tail(replies) /\ calls' = calls
    BY <1>6 DEF NothingToActivate
  <2>2. replies' = <<>>
    BY <1>0, <2>1
  <2> QED
    BY <2>1, <2>2, OnePoll, OnePollNext
<1>7. CASE ActivateAndPoll
  <2>1. replies # <<>> /\ replies' = Tail(replies) /\ inFlight' = TRUE
    BY <1>7 DEF ActivateAndPoll
  <2>2. replies' = <<>>
    BY <1>0, <2>1
  <2>3. calls' = calls \o <<Push(Current), LivePoll>>
    BY <1>7 DEF ActivateAndPoll, LivePoll
  <2>4. Push(Current) \in Pushes \cup Takes
    BY <1>t, TypeParts, CurrentIsSnapshot DEF Parts, DesktopInv, RequestInv
  <2>5. AtMostOne(calls')
    BY <1>0, <1>t, <2>1, <2>3, <2>4, OnePoll, PublishAndPoll
  <2> QED
    BY <2>1, <2>2, <2>5, OnePollNext
<1>8. ASSUME NEW w \in Windows, WindowCloses(w) \/ UserActivates(w) PROVE OnePollInFlight'
  <2>1. calls' = Append(calls, Push(Current)) /\ UNCHANGED <<replies, inFlight>>
    BY <1>8 DEF WindowCloses, UserActivates, Change
  <2>2. Push(Current) \in Pushes \cup Takes /\ Push(Current) # LivePoll
    BY <1>t, TypeParts, CurrentIsSnapshot, PushIsNoPoll DEF Parts, DesktopInv, RequestInv
  <2>3. Polls(calls') = Polls(calls)
    BY <1>0, <2>1, <2>2, OtherCallAppended
  <2> QED
    BY <2>1, <2>3, OnePoll, OnePollNext DEF AtMostOne
<1>9. CASE ScriptReloads
  <2> DEFINE dead == [i \in DOMAIN calls |-> IF calls[i] \in Takes THEN Take(FALSE) ELSE calls[i]]
  <2>1. calls' = dead \o <<Push(Current), LivePoll>> /\ replies' = <<>> /\ inFlight' = TRUE
    BY <1>9 DEF ScriptReloads, LivePoll
  <2>2. Push(Current) \in Pushes \cup Takes
    BY <1>t, TypeParts, CurrentIsSnapshot DEF Parts, DesktopInv, RequestInv
  <2>3. dead \in Seq(Pushes \cup Takes)
    BY DeadCalls
  <2>4. Polls(dead) = {}
    <3>1. Take(FALSE) # LivePoll /\ LivePoll \in Takes
      BY CallsMade DEF Take, LivePoll
    <3>2. \A i \in DOMAIN dead : dead[i] = Take(FALSE) \/ (dead[i] = calls[i] /\ calls[i] \notin Takes)
      OBVIOUS
    <3> HIDE DEF dead
    <3> QED
      BY <3>1, <3>2 DEF Polls
  <2> HIDE DEF dead
  <2>5. AtMostOne(calls')
    BY <1>t, <2>1, <2>2, <2>3, <2>4, PublishAndPoll
  <2> QED
    BY <2>1, <2>5, OnePollNext
<1>10. ASSUME NEW r \in Requests,
              \/ HttpActivate(r) \/ ProbeActivate(r) \/ AskIsReady(r) \/ RequestActivateWindow(r)
       PROVE  UNCHANGED <<calls, replies, inFlight>>
  BY <1>10 DEF HttpActivate, ProbeActivate, Begin, AskIsReady, RequestActivateWindow, scriptVars
<1>11. CASE HandleSnapshotChanged
  BY <1>1, <1>11 DEF HandleSnapshotChanged, scriptVars
<1>12. CASE UNCHANGED vars
  BY <1>1, <1>12 DEF vars
<1> QED
  BY <1>1, <1>2, <1>3, <1>4, <1>5, <1>6, <1>7, <1>8, <1>9, <1>10, <1>11, <1>12 DEF Next, Requests

LEMMA TypeAndPoll == Spec => [](TypeOK /\ OnePollInFlight)
<1> QED
  BY TypeInit, TypeStep, PollInit, PollStep, PTL DEF Spec

(* Whatever helper, script, service and probes do, in any order, every     *)
(* message is one its receiver understands, and at most one answer to a    *)
(* poll is on its way (pollActivationRequest).                             *)
THEOREM TypeCorrect == Spec => []TypeOK
BY TypeAndPoll, PTL

(* At most one poll of the running script is under way, whenever the       *)
(* helper ends and however often the script is reloaded                    *)
(* (activationPollInFlight).                                               *)
THEOREM OnePoller == Spec => []OnePollInFlight
BY TypeAndPoll, PTL

-----------------------------------------------------------------------------
(* The order of attempts *)

(* With respect to an order of acceptance: r precedes q; the elements of s *)
(* are in order, and precede those of t; all of s were accepted.           *)
Before(order, r, q) == \E a, b \in DOMAIN order : a < b /\ order[a] = r /\ order[b] = q
Sorted(order, s) == \A i, j \in DOMAIN s : i < j => Before(order, s[i], s[j])
Ahead(order, s, t) == \A i \in DOMAIN s, j \in DOMAIN t : Before(order, s[i], t[j])
Within(order, s) == \A i \in DOMAIN s : \E a \in DOMAIN order : order[a] = s[i]
Distinct(s) == \A a, b \in DOMAIN s : s[a] = s[b] => a = b

LEMMA AppendFacts ==
  ASSUME NEW S, NEW s \in Seq(S), NEW x \in S
  PROVE  /\ Append(s, x) \in Seq(S)
         /\ DOMAIN Append(s, x) = 1 .. (Len(s) + 1) /\ DOMAIN s = 1 .. Len(s) /\ Len(s) \in Nat
         /\ \A i \in DOMAIN s : Append(s, x)[i] = s[i]
         /\ Append(s, x)[Len(s) + 1] = x
OBVIOUS

LEMMA TailFacts ==
  ASSUME NEW S, NEW s \in Seq(S), s # <<>>
  PROVE  /\ Tail(s) \in Seq(S) /\ Head(s) \in S
         /\ DOMAIN s = 1 .. Len(s) /\ Len(s) \in Nat /\ Len(s) > 0
         /\ DOMAIN Tail(s) = 1 .. (Len(s) - 1)
         /\ \A j \in DOMAIN Tail(s) : Tail(s)[j] = s[j + 1]
         /\ Head(s) = s[1]
OBVIOUS

LEMMA ConcatFacts ==
  ASSUME NEW S, NEW s \in Seq(S), NEW t \in Seq(S)
  PROVE  /\ s \o t \in Seq(S)
         /\ DOMAIN (s \o t) = 1 .. (Len(s) + Len(t)) /\ Len(s) \in Nat /\ Len(t) \in Nat
         /\ DOMAIN s = 1 .. Len(s) /\ DOMAIN t = 1 .. Len(t)
         /\ \A i \in DOMAIN (s \o t) :
              (s \o t)[i] = IF i <= Len(s) THEN s[i] ELSE t[i - Len(s)]
OBVIOUS

(* What is accepted last comes after all that was accepted before.         *)
LEMMA AcceptedLast ==
  ASSUME NEW S, NEW order \in Seq(S), NEW x \in S
  PROVE  LET more == Append(order, x)
         IN  /\ \A r, q : Before(order, r, q) => Before(more, r, q)
             /\ \A s : Within(order, s) =>
                    Within(more, s) /\ \A i \in DOMAIN s : Before(more, s[i], x)
             /\ \E a \in DOMAIN more : more[a] = x
<1> DEFINE more == Append(order, x)
<1>1. /\ DOMAIN more = 1 .. (Len(order) + 1) /\ DOMAIN order = 1 .. Len(order) /\ Len(order) \in Nat
      /\ \A i \in DOMAIN order : more[i] = order[i]
      /\ more[Len(order) + 1] = x
  BY AppendFacts
<1> HIDE DEF more
<1>2. \A r, q : Before(order, r, q) => Before(more, r, q)
  BY <1>1 DEF Before
<1>3. ASSUME NEW s, Within(order, s)
      PROVE  Within(more, s) /\ \A i \in DOMAIN s : Before(more, s[i], x)
  <2>1. \A a \in DOMAIN order : a < Len(order) + 1 /\ a \in DOMAIN more
    BY <1>1
  <2> QED
    BY <1>1, <1>3, <2>1 DEF Within, Before
<1> QED
  BY <1>1, <1>2, <1>3 DEF more

LEMMA SortedAppend ==
  ASSUME NEW S, NEW s \in Seq(S), NEW x \in S, NEW order, Sorted(order, s),
         \A i \in DOMAIN s : Before(order, s[i], x)
  PROVE  Sorted(order, Append(s, x))
BY AppendFacts DEF Sorted

LEMMA AheadAppend ==
  ASSUME NEW S, NEW s \in Seq(S), NEW x \in S, NEW order, NEW t
  PROVE  /\ Ahead(order, s, t) /\ (\A j \in DOMAIN t : Before(order, x, t[j])) => Ahead(order, Append(s, x), t)
         /\ Ahead(order, t, s) /\ (\A i \in DOMAIN t : Before(order, t[i], x)) => Ahead(order, t, Append(s, x))
BY AppendFacts DEF Ahead

LEMMA WithinAppend ==
  ASSUME NEW S, NEW s \in Seq(S), NEW x \in S, NEW order, Within(order, s),
         \E a \in DOMAIN order : order[a] = x
  PROVE  Within(order, Append(s, x))
BY AppendFacts DEF Within

LEMMA InTail ==
  ASSUME NEW S, NEW s \in Seq(S), s # <<>>, NEW order
  PROVE  /\ Sorted(order, s) => Sorted(order, Tail(s)) /\ Ahead(order, <<Head(s)>>, Tail(s))
         /\ \A t : Ahead(order, t, s) => Ahead(order, t, Tail(s)) /\ Ahead(order, t, <<Head(s)>>)
         /\ Within(order, s) => Within(order, Tail(s)) /\ Within(order, <<Head(s)>>)
<1> DEFINE t == Tail(s)
           h == Head(s)
<1>1. /\ DOMAIN s = 1 .. Len(s) /\ Len(s) \in Nat /\ Len(s) > 0
      /\ DOMAIN t = 1 .. (Len(s) - 1)
      /\ \A j \in DOMAIN t : t[j] = s[j + 1]
      /\ h = s[1]
  BY TailFacts
<1> HIDE DEF t, h
<1>2. \A j \in DOMAIN t : j + 1 \in DOMAIN s /\ 1 < j + 1
  BY <1>1
<1>3. 1 \in DOMAIN s /\ DOMAIN <<h>> = {1} /\ <<h>>[1] = h
  BY <1>1
<1>4. Sorted(order, s) => Sorted(order, t)
  BY <1>1, <1>2 DEF Sorted
<1>5. Sorted(order, s) => Ahead(order, <<h>>, t)
  BY <1>1, <1>2, <1>3 DEF Sorted, Ahead
<1>6. \A u : Ahead(order, u, s) => Ahead(order, u, t) /\ Ahead(order, u, <<h>>)
  BY <1>1, <1>2, <1>3 DEF Ahead
<1>7. Within(order, s) => Within(order, t) /\ Within(order, <<h>>)
  BY <1>1, <1>2, <1>3 DEF Within
<1> QED
  BY <1>4, <1>5, <1>6, <1>7 DEF t, h

LEMMA SortedConcat ==
  ASSUME NEW S, NEW s \in Seq(S), NEW t \in Seq(S), NEW order,
         Sorted(order, s), Sorted(order, t), Ahead(order, s, t)
  PROVE  Sorted(order, s \o t)
<1> SUFFICES ASSUME NEW i \in DOMAIN (s \o t), NEW j \in DOMAIN (s \o t), i < j
             PROVE  Before(order, (s \o t)[i], (s \o t)[j])
  BY DEF Sorted
<1>0. /\ i \in Int /\ j \in Int /\ Len(s) \in Nat
      /\ i <= Len(s) => i \in DOMAIN s /\ (s \o t)[i] = s[i]
      /\ j <= Len(s) => j \in DOMAIN s /\ (s \o t)[j] = s[j]
      /\ i > Len(s) => i - Len(s) \in DOMAIN t /\ (s \o t)[i] = t[i - Len(s)]
      /\ j > Len(s) => j - Len(s) \in DOMAIN t /\ (s \o t)[j] = t[j - Len(s)]
  BY ConcatFacts
<1>1. CASE j <= Len(s)
  BY <1>0, <1>1 DEF Sorted
<1>2. CASE i <= Len(s) /\ j > Len(s)
  BY <1>0, <1>2 DEF Ahead
<1>3. CASE i > Len(s)
  <2>1. j > Len(s) /\ i - Len(s) < j - Len(s)
    BY <1>0, <1>3
  <2> QED
    BY <1>0, <1>3, <2>1 DEF Sorted
<1> QED
  BY <1>0, <1>1, <1>2, <1>3

LEMMA AheadConcat ==
  ASSUME NEW S, NEW s \in Seq(S), NEW t \in Seq(S), NEW order, NEW u,
         Ahead(order, s, u), Ahead(order, t, u)
  PROVE  Ahead(order, s \o t, u)
<1> SUFFICES ASSUME NEW i \in DOMAIN (s \o t), NEW j \in DOMAIN u
             PROVE  Before(order, (s \o t)[i], u[j])
  BY DEF Ahead
<1>0. /\ i \in Int /\ Len(s) \in Nat
      /\ i <= Len(s) => i \in DOMAIN s /\ (s \o t)[i] = s[i]
      /\ i > Len(s) => i - Len(s) \in DOMAIN t /\ (s \o t)[i] = t[i - Len(s)]
  BY ConcatFacts
<1> QED
  BY <1>0 DEF Ahead

(* The request that is being answered. *)
LEMMA RequestedFacts ==
  ASSUME NEW s \in Seq(Requests \cup {None}), Len(s) <= 1
  PROVE  /\ Requested(s) \in Seq(Requests)
         /\ s = <<>> => Requested(s) = <<>>
         /\ s # <<>> => Tail(s) = <<>> /\ Head(s) \in Requests \cup {None}
         /\ s # <<>> /\ Head(s) # None => Requested(s) = <<Head(s)>> /\ Head(s) \in Requests
         /\ s # <<>> /\ Head(s) = None => Requested(s) = <<>>
<1>1. s # <<>> => Tail(s) = <<>> /\ Head(s) \in Requests \cup {None}
  OBVIOUS
<1> QED
  BY <1>1 DEF Requested

OrderInv ==
  /\ Sorted(accepted, attempted) /\ Sorted(accepted, queue)
  /\ Ahead(accepted, attempted, Requested(replies))
  /\ Ahead(accepted, attempted, queue)
  /\ Ahead(accepted, Requested(replies), queue)
  /\ Within(accepted, attempted) /\ Within(accepted, Requested(replies)) /\ Within(accepted, queue)
  /\ Distinct(accepted)

LEMMA OfNothing ==
  \A order, s : /\ Sorted(order, <<>>) /\ Within(order, <<>>)
                /\ Ahead(order, s, <<>>) /\ Ahead(order, <<>>, s)
BY DEF Sorted, Within, Ahead

LEMMA OrderInit == Init => OrderInv
<1> SUFFICES ASSUME Init PROVE OrderInv
  OBVIOUS
<1>1. accepted = <<>> /\ attempted = <<>> /\ queue = <<>> /\ replies = <<>>
  BY DEF Init
<1>2. Requested(replies) = <<>>
  BY <1>1 DEF Requested
<1> QED
  BY <1>1, <1>2, OfNothing DEF OrderInv, Distinct

LEMMA Sequences ==
  ASSUME TypeOK
  PROVE  /\ accepted \in Seq(Requests) /\ attempted \in Seq(Requests) /\ queue \in Seq(Requests)
         /\ replies \in Seq(Requests \cup {None}) /\ Len(replies) <= 1
         /\ calls \in Seq(Pushes \cup Takes)
BY TypeParts DEF Parts, RequestInv, HelperInv, ScriptInv

(* How a request is accepted, and how one is taken: live is whether the    *)
(* running script gets it.                                                 *)
LEMMA AcceptOrNot ==
  ASSUME TypeOK, NEW r \in Requests, RequestActivateWindow(r)
  PROVE  /\ UNCHANGED <<attempted, replies, calls, faults>>
         /\ \/ /\ accepted' = Append(accepted, r) /\ queue' = Append(queue, r)
               /\ \A a \in DOMAIN accepted : accepted[a] # r
            \/ UNCHANGED <<accepted, queue>>
<1>1. result[r] = "requesting"
  BY DEF RequestActivateWindow
<1>2. r \notin Range(accepted)
  BY <1>1, TypeParts DEF Parts, RequestInv
<1>3. \A a \in DOMAIN accepted : accepted[a] # r
  BY <1>2 DEF Range
<1> QED
  BY <1>3 DEF RequestActivateWindow, scriptVars

LEMMA Taken ==
  ASSUME TypeOK, OnePollInFlight, TakeActivationRequest
  PROVE  /\ UNCHANGED <<accepted, attempted, faults>> /\ calls # <<>> /\ calls' = Tail(calls)
         /\ queue = <<>> => queue' = queue
         /\ queue # <<>> => queue' = Tail(queue)
         /\ \/ /\ Head(calls) = Take(FALSE) /\ replies' = replies
            \/ /\ Requested(replies) = <<>>
               /\ queue = <<>> => Requested(replies') = <<>>
               /\ queue # <<>> => Requested(replies') = <<Head(queue)>>
<1>1. UNCHANGED <<accepted, attempted, faults>> /\ calls # <<>> /\ Head(calls) \in Takes /\ calls' = Tail(calls)
      /\ queue' = IF queue = <<>> THEN queue ELSE Tail(queue)
  BY DEF TakeActivationRequest, Delivered
<1>2. Head(calls) = Take(Head(calls).live) /\ Head(calls).live \in BOOLEAN
  BY <1>1, CallsMade
<1>3. replies' = IF Head(calls).live
                   THEN Append(replies, IF queue = <<>> THEN None ELSE Head(queue)) ELSE replies
  BY DEF TakeActivationRequest
<1>4. CASE Head(calls).live = FALSE
  <2>1. Head(calls) = Take(FALSE)
    BY <1>2, <1>4
  <2>2. replies' = replies
    BY <1>3, <1>4
  <2> QED
    BY <1>1, <2>1, <2>2
<1>5. CASE Head(calls).live = TRUE
  <2>1. Head(calls) = LivePoll
    BY <1>2, <1>5 DEF LivePoll
  <2>2. Polls(calls) # {}
    BY <1>1, <2>1, OnePoll, Sequences, TailHasAtMostOne
  <2>3. replies = <<>>
    BY <2>2, OnePoll
  <2>4. replies' = <<IF queue = <<>> THEN None ELSE Head(queue)>>
    BY <1>3, <1>5, <2>3
  <2>5. queue # <<>> => Head(queue) # None
    BY NoneAssumption, Sequences, TailFacts
  <2>6. /\ Requested(replies) = <<>>
        /\ queue = <<>> => Requested(replies') = <<>>
        /\ queue # <<>> => Requested(replies') = <<Head(queue)>>
    BY <2>3, <2>4, <2>5 DEF Requested
  <2> QED
    BY <1>1, <2>6
<1> QED
  BY <1>2, <1>4, <1>5

LEMMA Answered ==
  ASSUME TypeOK, NothingToActivate \/ ActivateAndPoll
  PROVE  /\ UNCHANGED <<accepted, queue, faults>> /\ Requested(replies') = <<>>
         /\ \/ Requested(replies) = <<>> /\ attempted' = attempted
            \/ \E x \in Requests : Requested(replies) = <<x>> /\ attempted' = Append(attempted, x)
<1>1. UNCHANGED <<accepted, queue, faults>> /\ replies # <<>> /\ replies' = Tail(replies)
  BY DEF NothingToActivate, ActivateAndPoll, helperVars
<1>2. Requested(replies') = <<>>
  BY <1>1, Sequences, RequestedFacts DEF Requested
<1>3. \/ Head(replies) = None /\ attempted' = attempted
      \/ Head(replies) # None /\ attempted' = Append(attempted, Head(replies))
  BY DEF NothingToActivate, ActivateAndPoll
<1> QED
  BY <1>1, <1>2, <1>3, Sequences, RequestedFacts

(* What leaves the order of attempts alone.                                *)
Others ==
  \/ \E r \in Requests : HttpActivate(r) \/ ProbeActivate(r) \/ AskIsReady(r)
  \/ PushSnapshot
  \/ PollTick
  \/ \E w \in Windows : WindowCloses(w) \/ UserActivates(w)
  \/ HandleSnapshotChanged
  \/ UNCHANGED vars

LEMMA NextByOrder ==
  [Next]_vars =>
    \/ Others
    \/ \E r \in Requests : RequestActivateWindow(r)
    \/ TakeActivationRequest
    \/ HelperEnds
    \/ NothingToActivate \/ ActivateAndPoll
    \/ ScriptReloads
BY DEF Next, Others, Requests

LEMMA OthersUnchanged == Others => UNCHANGED <<accepted, attempted, queue, replies>>
<1>1. ASSUME NEW r \in Requests, HttpActivate(r) \/ ProbeActivate(r) \/ AskIsReady(r)
      PROVE  UNCHANGED <<accepted, attempted, queue, replies>>
  BY <1>1 DEF HttpActivate, ProbeActivate, Begin, AskIsReady, HelperAnswers, HelperStarts,
     helperVars, scriptVars
<1>2. PushSnapshot \/ PollTick \/ HandleSnapshotChanged \/ UNCHANGED vars =>
        UNCHANGED <<accepted, attempted, queue, replies>>
  BY DEF PushSnapshot, PollTick, HandleSnapshotChanged, helperVars, scriptVars, vars
<1>3. ASSUME NEW w \in Windows, WindowCloses(w) \/ UserActivates(w)
      PROVE  UNCHANGED <<accepted, attempted, queue, replies>>
  BY <1>3 DEF WindowCloses, UserActivates, Change, helperVars
<1> QED
  BY <1>1, <1>2, <1>3 DEF Others

LEMMA AcceptKeepsOrder ==
  ASSUME TypeOK, OrderInv, NEW r \in Requests, RequestActivateWindow(r)
  PROVE  OrderInv'
<1>1. CASE UNCHANGED <<accepted, queue>>
  BY <1>1, AcceptOrNot DEF OrderInv
<1>2. CASE accepted' = Append(accepted, r) /\ queue' = Append(queue, r)
           /\ \A a \in DOMAIN accepted : accepted[a] # r
  <2> DEFINE answered == Requested(replies)
  <2>1. attempted' = attempted /\ Requested(replies') = answered /\ answered \in Seq(Requests)
    BY AcceptOrNot, Sequences, RequestedFacts
  <2> HIDE DEF answered
  <2>2. /\ Sorted(accepted, attempted) /\ Sorted(accepted, queue)
        /\ Ahead(accepted, attempted, answered) /\ Ahead(accepted, attempted, queue)
        /\ Ahead(accepted, answered, queue)
        /\ Within(accepted, attempted) /\ Within(accepted, answered) /\ Within(accepted, queue)
        /\ Distinct(accepted)
    BY DEF OrderInv, answered
  <2>3. /\ \A p, q : Before(accepted, p, q) => Before(accepted', p, q)
        /\ \A s : Within(accepted, s) =>
               Within(accepted', s) /\ \A i \in DOMAIN s : Before(accepted', s[i], r)
        /\ \E a \in DOMAIN accepted' : accepted'[a] = r
    BY <1>2, Sequences, AcceptedLast
  <2>4. /\ Sorted(accepted', attempted) /\ Sorted(accepted', queue)
        /\ Ahead(accepted', attempted, answered) /\ Ahead(accepted', attempted, queue)
        /\ Ahead(accepted', answered, queue)
    BY <2>2, <2>3 DEF Sorted, Ahead
  <2>5. /\ Sorted(accepted', queue')
        /\ Ahead(accepted', attempted, queue') /\ Ahead(accepted', answered, queue')
        /\ Within(accepted', queue')
    BY <1>2, <2>2, <2>3, <2>4, Sequences, SortedAppend, AheadAppend, WithinAppend
  <2>6. Distinct(accepted')
    BY <1>2, <2>2, Sequences, AppendFacts DEF Distinct
  <2> QED
    BY <2>1, <2>2, <2>3, <2>4, <2>5, <2>6 DEF OrderInv
<1> QED
  BY <1>1, <1>2, AcceptOrNot

LEMMA TakeKeepsOrder ==
  ASSUME TypeOK, OnePollInFlight, OrderInv, TakeActivationRequest
  PROVE  OrderInv'
<1>1. /\ Sorted(accepted, attempted) /\ Sorted(accepted, queue)
      /\ Ahead(accepted, attempted, Requested(replies)) /\ Ahead(accepted, attempted, queue)
      /\ Ahead(accepted, Requested(replies), queue)
      /\ Within(accepted, attempted) /\ Within(accepted, Requested(replies)) /\ Within(accepted, queue)
      /\ Distinct(accepted)
  BY DEF OrderInv
<1>2. accepted' = accepted /\ attempted' = attempted
  BY Taken
<1>3. CASE queue = <<>>
  <2>1. queue' = <<>>
    BY <1>3, Taken
  <2>2. Requested(replies') \in {Requested(replies), <<>>}
    BY <1>3, Taken
  <2> QED
    BY <1>1, <1>2, <1>3, <2>1, <2>2, OfNothing DEF OrderInv
<1>4. CASE queue # <<>>
  <2>1. queue' = Tail(queue)
    BY <1>4, Taken
  <2>2. Requested(replies') \in {Requested(replies), <<Head(queue)>>}
    BY <1>4, Taken
  <2>3. /\ Sorted(accepted, Tail(queue)) /\ Ahead(accepted, <<Head(queue)>>, Tail(queue))
        /\ \A t : Ahead(accepted, t, queue) =>
               Ahead(accepted, t, Tail(queue)) /\ Ahead(accepted, t, <<Head(queue)>>)
        /\ Within(accepted, Tail(queue)) /\ Within(accepted, <<Head(queue)>>)
    BY <1>1, <1>4, Sequences, InTail
  <2> QED
    BY <1>1, <1>2, <2>1, <2>2, <2>3 DEF OrderInv
<1> QED
  BY <1>3, <1>4

LEMMA AnswerKeepsOrder ==
  ASSUME TypeOK, OrderInv, NothingToActivate \/ ActivateAndPoll
  PROVE  OrderInv'
<1>1. accepted' = accepted /\ queue' = queue /\ Requested(replies') = <<>>
  BY Answered
<1>2. CASE attempted' = attempted
  BY <1>1, <1>2, OfNothing DEF OrderInv
<1>3. ASSUME NEW x \in Requests, Requested(replies) = <<x>>, attempted' = Append(attempted, x)
      PROVE  OrderInv'
  <2>1. DOMAIN <<x>> = {1} /\ <<x>>[1] = x
    OBVIOUS
  <2>2. /\ \A i \in DOMAIN attempted : Before(accepted, attempted[i], x)
        /\ \A j \in DOMAIN queue : Before(accepted, x, queue[j])
        /\ \E a \in DOMAIN accepted : accepted[a] = x
    BY <1>3, <2>1 DEF OrderInv, Ahead, Within
  <2>3. Sorted(accepted, attempted') /\ Ahead(accepted, attempted', queue) /\ Within(accepted, attempted')
    BY <1>3, <2>2, Sequences, SortedAppend, AheadAppend, WithinAppend DEF OrderInv
  <2> QED
    BY <1>1, <2>3, OfNothing DEF OrderInv
<1> QED
  BY <1>2, <1>3, Answered

LEMMA OrderStep == TypeOK /\ OnePollInFlight /\ OrderInv /\ [Next]_vars => OrderInv'
<1> SUFFICES ASSUME TypeOK, OnePollInFlight, OrderInv, [Next]_vars PROVE OrderInv'
  OBVIOUS
<1>1. CASE Others
  BY <1>1, OthersUnchanged DEF OrderInv
<1>2. CASE HelperEnds
  <2>1. UNCHANGED <<accepted, attempted, replies>> /\ queue' = <<>>
    BY <1>2 DEF HelperEnds
  <2> QED
    BY <2>1, OfNothing DEF OrderInv
<1>3. CASE ScriptReloads
  <2>1. UNCHANGED <<accepted, attempted, queue>> /\ replies' = <<>>
    BY <1>3 DEF ScriptReloads, helperVars
  <2>2. Requested(replies') = <<>>
    BY <2>1 DEF Requested
  <2> QED
    BY <2>1, <2>2, OfNothing DEF OrderInv
<1> QED
  BY <1>1, <1>2, <1>3, NextByOrder, AcceptKeepsOrder, TakeKeepsOrder, AnswerKeepsOrder

LEMMA TypePollOrder == Spec => [](TypeOK /\ OnePollInFlight /\ OrderInv)
<1> QED
  BY TypeInit, TypeStep, PollInit, PollStep, OrderInit, OrderStep, PTL DEF Spec

(* Requests are attempted in the order of their acceptance and at most     *)
(* once, for any number of requests, helpers that end and scripts that are *)
(* reloaded.  What was attempted, is being answered and is queued must     *)
(* each be in order, and one ahead of the other (OrderInv).                *)
THEOREM InOrder == Spec => []AttemptedInOrder
<1>1. TypeOK /\ OrderInv => AttemptedInOrder
  <2> SUFFICES ASSUME TypeOK, OrderInv PROVE AttemptedInOrder
    OBVIOUS
  <2> DEFINE answered == Requested(replies)
  <2>1. answered \in Seq(Requests)
    BY Sequences, RequestedFacts
  <2>2. /\ Sorted(accepted, attempted) /\ Sorted(accepted, queue)
        /\ Ahead(accepted, attempted, answered) /\ Ahead(accepted, attempted, queue)
        /\ Ahead(accepted, answered, queue) /\ Distinct(accepted)
    BY DEF OrderInv
  <2>3. UnderWay = (attempted \o answered) \o queue
    BY DEF UnderWay
  <2>4. Sorted(accepted, answered)
    <3>1. \A i, j \in DOMAIN answered : ~(i < j)
      BY DEF Requested
    <3> QED
      BY <3>1 DEF Sorted
  <2> HIDE DEF answered
  <2>5. attempted \o answered \in Seq(Requests)
    BY <2>1, Sequences
  <2>6. Sorted(accepted, attempted \o answered)
    BY <2>1, <2>2, <2>4, Sequences, SortedConcat
  <2>7. Ahead(accepted, attempted \o answered, queue)
    BY <2>1, <2>2, Sequences, AheadConcat
  <2>8. Sorted(accepted, UnderWay)
    BY <2>2, <2>3, <2>5, <2>6, <2>7, Sequences, SortedConcat
  <2> QED
    BY <2>2, <2>8 DEF AttemptedInOrder, Sorted, Before, Distinct
<1> QED
  BY <1>1, TypePollOrder, PTL

-----------------------------------------------------------------------------
(* Without faults *)

(* No script is reloaded, so no poll is answered to nobody.                *)
NoDeadPoll == \A i \in DOMAIN calls : calls[i] # Take(FALSE)
CompleteInv == faults = 0 => NoDeadPoll /\ UnderWay = accepted

LEMMA FaultsStay == TypeOK /\ [Next]_vars /\ faults' = 0 => faults = 0 /\ ~HelperEnds /\ ~ScriptReloads
<1> SUFFICES ASSUME TypeOK, [Next]_vars, faults' = 0 PROVE faults = 0 /\ ~HelperEnds /\ ~ScriptReloads
  OBVIOUS
<1>1. faults \in Nat
  BY BoundsAssumption, TypeParts DEF Parts, BoundInv
<1>2. faults' = faults + 1 => FALSE
  BY <1>1
<1>3. ~HelperEnds /\ ~ScriptReloads
  BY <1>2 DEF HelperEnds, ScriptReloads
<1>4. faults' = faults \/ faults' = faults + 1
  BY DEF Next, HttpActivate, ProbeActivate, Begin, AskIsReady, RequestActivateWindow, PushSnapshot,
     TakeActivationRequest, HelperEnds, PollTick, NothingToActivate, ActivateAndPoll,
     WindowCloses, UserActivates, Change, ScriptReloads, HandleSnapshotChanged, vars
<1> QED
  BY <1>1, <1>2, <1>3, <1>4

LEMMA NoDeadPollStep ==
  ASSUME TypeOK, TypeOK', NoDeadPoll, [Next]_vars, ~HelperEnds, ~ScriptReloads
  PROVE  NoDeadPoll'
<1> DEFINE dead == Take(FALSE)
           push == Push(Current)
<1>0. calls \in Seq(Pushes \cup Takes) /\ LivePoll \in Pushes \cup Takes /\ LivePoll # dead
      /\ \A snapshot : Push(snapshot) # dead
  BY Sequences, CallsMade DEF LivePoll, Take, Push
<1>1. push \in Pushes \cup Takes /\ push # dead
  BY <1>0, TypeParts, CurrentIsSnapshot DEF Parts, DesktopInv, RequestInv
<1>2. \A i \in DOMAIN calls : calls[i] # dead
  BY DEF NoDeadPoll
<1>3. \/ calls' = calls
      \/ calls # <<>> /\ calls' = Tail(calls)
      \/ calls' = Append(calls, LivePoll)
      \/ calls' = Append(calls, push)
      \/ calls' = calls \o <<push, LivePoll>>
  <2>1. ASSUME NEW r \in Requests,
               \/ HttpActivate(r) \/ ProbeActivate(r) \/ AskIsReady(r) \/ RequestActivateWindow(r)
        PROVE  calls' = calls
    BY <2>1 DEF HttpActivate, ProbeActivate, Begin, AskIsReady, RequestActivateWindow, scriptVars
  <2>2. PushSnapshot \/ TakeActivationRequest => calls # <<>> /\ calls' = Tail(calls)
    BY DEF PushSnapshot, TakeActivationRequest, Delivered
  <2>3. PollTick => calls' = Append(calls, LivePoll)
    BY DEF PollTick, LivePoll
  <2>4. NothingToActivate \/ HandleSnapshotChanged \/ UNCHANGED vars => calls' = calls
    BY DEF NothingToActivate, HandleSnapshotChanged, scriptVars, vars
  <2>5. ActivateAndPoll => calls' = calls \o <<push, LivePoll>>
    BY DEF ActivateAndPoll, LivePoll
  <2>6. ASSUME NEW w \in Windows, WindowCloses(w) \/ UserActivates(w)
        PROVE  calls' = Append(calls, push)
    BY <2>6 DEF WindowCloses, UserActivates, Change
  <2> HIDE DEF push
  <2> QED
    BY <2>1, <2>2, <2>3, <2>4, <2>5, <2>6 DEF Next, Requests
<1> HIDE DEF dead, push
<1>4. \A i \in DOMAIN calls' : calls'[i] # dead
  <2>1. CASE calls' = calls
    BY <1>2, <2>1
  <2>2. CASE calls # <<>> /\ calls' = Tail(calls)
    <3>1. \A i \in DOMAIN calls' : i + 1 \in DOMAIN calls /\ calls'[i] = calls[i + 1]
      BY <1>0, <2>2, TailFacts
    <3> QED
      BY <1>2, <3>1
  <2>3. CASE calls' = Append(calls, LivePoll)
    BY <1>0, <1>2, <2>3, AppendFacts
  <2>4. CASE calls' = Append(calls, push)
    BY <1>0, <1>1, <1>2, <2>4, AppendFacts
  <2>5. CASE calls' = calls \o <<push, LivePoll>>
    <3>1. calls' = Append(Append(calls, push), LivePoll) /\ Append(calls, push) \in Seq(Pushes \cup Takes)
      BY <1>0, <1>1, <2>5
    <3>2. \A i \in DOMAIN Append(calls, push) : Append(calls, push)[i] # dead
      BY <1>0, <1>1, <1>2, AppendFacts
    <3> QED
      BY <1>0, <3>1, <3>2, AppendFacts
  <2> QED
    BY <1>3, <2>1, <2>2, <2>3, <2>4, <2>5
<1> QED
  BY <1>4 DEF NoDeadPoll, dead

(* How requests move along without changing their order.                   *)
Line(s, m, t) == (s \o m) \o t

LEMMA LineOfNone == Line(<<>>, <<>>, <<>>) = <<>>
BY DEF Line

LEMMA Grows ==
  ASSUME NEW s \in Seq(Requests), NEW m \in Seq(Requests), NEW t \in Seq(Requests), NEW x \in Requests
  PROVE  Line(s, m, Append(t, x)) = Append(Line(s, m, t), x)
<1>0. <<x>> \in Seq(Requests) /\ s \o m \in Seq(Requests)
  OBVIOUS
<1>1. Append(t, x) = t \o <<x>> /\ Append((s \o m) \o t, x) = ((s \o m) \o t) \o <<x>>
  BY <1>0, AppendIsConcat, ConcatProperties
<1>2. ((s \o m) \o t) \o <<x>> = (s \o m) \o (t \o <<x>>)
  <2> DEFINE first == s \o m
             last == <<x>>
  <2>1. first \in Seq(Requests) /\ last \in Seq(Requests)
    BY <1>0
  <2> HIDE DEF first, last
  <2>2. (first \o t) \o last = first \o (t \o last)
    BY <2>1, ConcatAssociative, SMTT(40)
  <2> QED BY <2>2 DEF first, last
<1> QED
  BY <1>1, <1>2, Zenon DEF Line

LEMMA Advances ==
  ASSUME NEW s \in Seq(Requests), NEW t \in Seq(Requests), NEW x \in Requests
  PROVE  Line(Append(s, x), <<>>, t) = Line(s, <<x>>, t)
<1>1. Append(s, x) = s \o <<x>> /\ Append(s, x) \o <<>> = Append(s, x)
  BY AppendIsConcat, AppendProperties, ConcatEmptySeq
<1> QED
  BY <1>1, Zenon DEF Line

LEMMA TakenFromFront ==
  ASSUME NEW s \in Seq(Requests), NEW t \in Seq(Requests), t # <<>>
  PROVE  Line(s, <<Head(t)>>, Tail(t)) = Line(s, <<>>, t)
<1>1. Head(t) \in Requests /\ Tail(t) \in Seq(Requests) /\ <<Head(t)>> \in Seq(Requests)
  BY TailFacts
<1>2. (s \o <<Head(t)>>) \o Tail(t) = s \o (<<Head(t)>> \o Tail(t))
  BY <1>1, ConcatAssociative
<1>3. <<Head(t)>> \o Tail(t) = t
  BY <1>1
<1>4. s \o <<>> = s
  BY ConcatEmptySeq
<1> QED
  BY <1>2, <1>3, <1>4, Zenon DEF Line

LEMMA CompleteInit == Init => CompleteInv
<1> SUFFICES ASSUME Init PROVE NoDeadPoll /\ UnderWay = accepted
  BY DEF CompleteInv
<1> DEFINE push == Push([ready |-> TRUE, open |-> open, active |-> active, attempts |-> 0])
           dead == Take(FALSE)
<1>1. calls = <<push, LivePoll>>
  BY DEF Init, LivePoll
<1>2. push # dead /\ LivePoll # dead
  BY DEF Push, Take, LivePoll
<1> HIDE DEF push, dead
<1>3. \A i \in DOMAIN calls : calls[i] # dead
  BY <1>1, <1>2
<1>4. accepted = <<>> /\ attempted = <<>> /\ queue = <<>> /\ replies = <<>>
  BY DEF Init
<1>5. UnderWay = accepted
  <2>1. Requested(replies) = <<>>
    BY <1>4 DEF Requested
  <2> QED
    BY <1>4, <2>1, LineOfNone DEF UnderWay, Line
<1> QED
  BY <1>3, <1>5 DEF NoDeadPoll, dead

LEMMA CompleteStep ==
  TypeOK /\ TypeOK' /\ OnePollInFlight /\ CompleteInv /\ [Next]_vars => CompleteInv'
<1> SUFFICES ASSUME TypeOK, TypeOK', OnePollInFlight, CompleteInv, [Next]_vars, faults' = 0
             PROVE  NoDeadPoll' /\ UnderWay' = accepted'
  BY DEF CompleteInv
<1>1. NoDeadPoll /\ UnderWay = accepted /\ ~HelperEnds /\ ~ScriptReloads
  BY FaultsStay DEF CompleteInv
<1>2. NoDeadPoll'
  BY <1>1, NoDeadPollStep
<1> SUFFICES UnderWay' = accepted'
  BY <1>2
<1> DEFINE answered == Requested(replies)
<1>3. answered \in Seq(Requests) /\ Line(attempted, answered, queue) = accepted
  BY <1>1, Sequences, RequestedFacts DEF UnderWay, Line
<1>4. UnderWay' = Line(attempted', Requested(replies'), queue')
  BY DEF UnderWay, Line
<1> HIDE DEF answered
<1>0. attempted \in Seq(Requests) /\ queue \in Seq(Requests)
  BY Sequences
<1>5. CASE Others
  BY <1>3, <1>4, <1>5, OthersUnchanged DEF answered
<1>6. ASSUME NEW r \in Requests, RequestActivateWindow(r) PROVE UnderWay' = accepted'
  <2>1. attempted' = attempted /\ Requested(replies') = answered
    BY <1>6, AcceptOrNot DEF answered
  <2>2. CASE accepted' = Append(accepted, r) /\ queue' = Append(queue, r)
    <3>1. Line(attempted, answered, Append(queue, r)) = Append(Line(attempted, answered, queue), r)
      BY <1>0, <1>3, Grows, Advances
    <3> QED
      BY <1>3, <1>4, <2>1, <2>2, <3>1
  <2>3. CASE UNCHANGED <<accepted, queue>>
    BY <1>3, <1>4, <2>1, <2>3
  <2> QED
    BY <1>6, <2>2, <2>3, AcceptOrNot
<1>7. CASE TakeActivationRequest
  <2>1. UNCHANGED <<accepted, attempted>> /\ calls # <<>>
    BY <1>7, Taken
  <2>2. Head(calls) # Take(FALSE)
    <3>1. 1 \in DOMAIN calls /\ Head(calls) = calls[1]
      BY <2>1, Sequences, TailFacts
    <3> QED
      BY <1>1, <3>1 DEF NoDeadPoll
  <2>3. /\ answered = <<>>
        /\ queue = <<>> => Requested(replies') = <<>> /\ queue' = queue
        /\ queue # <<>> => Requested(replies') = <<Head(queue)>> /\ queue' = Tail(queue)
    BY <1>7, <2>2, Taken DEF answered
  <2>4. CASE queue = <<>>
    BY <1>3, <1>4, <2>1, <2>3, <2>4
  <2>5. CASE queue # <<>>
    <3>1. Head(queue) \in Requests
      BY <2>5, Sequences, TailFacts
    <3>2. Line(attempted, <<Head(queue)>>, Tail(queue)) = Line(attempted, <<>>, queue)
      BY <2>5, <3>1, Sequences, TakenFromFront
    <3> QED
      BY <1>3, <1>4, <2>1, <2>3, <2>5, <3>2
  <2> QED
    BY <2>4, <2>5
<1>8. CASE NothingToActivate \/ ActivateAndPoll
  <2>1. accepted' = accepted /\ queue' = queue /\ Requested(replies') = <<>>
    BY <1>8, Answered
  <2>2. CASE answered = <<>> /\ attempted' = attempted
    BY <1>3, <1>4, <2>1, <2>2
  <2>3. ASSUME NEW x \in Requests, answered = <<x>>, attempted' = Append(attempted, x)
        PROVE  UnderWay' = accepted'
    <3>1. Line(Append(attempted, x), <<>>, queue) = Line(attempted, <<x>>, queue)
      BY <1>0, <1>3, Grows, Advances
    <3> QED
      BY <1>3, <1>4, <2>1, <2>3, <3>1
  <2> QED
    BY <1>8, <2>2, <2>3, Answered DEF answered
<1> QED
  BY <1>1, <1>5, <1>6, <1>7, <1>8, NextByOrder

LEMMA TypePollComplete == Spec => [](TypeOK /\ OnePollInFlight /\ CompleteInv)
<1>1. TypeOK /\ OnePollInFlight /\ CompleteInv /\ [Next]_vars => (TypeOK /\ OnePollInFlight /\ CompleteInv)'
  BY TypeStep, PollStep, CompleteStep
<1> QED
  BY <1>1, TypeInit, PollInit, CompleteInit, PTL DEF Spec

(* While no helper ends and no script is reloaded, every accepted request  *)
(* is queued, being answered or attempted, however many there are.         *)
THEOREM NoneLost == Spec => []NoneSkipped
<1>1. CompleteInv => NoneSkipped
  BY DEF CompleteInv, NoneSkipped
<1> QED
  BY <1>1, TypePollComplete, PTL
=============================================================================
