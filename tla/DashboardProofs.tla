-------------------------- MODULE DashboardProofs --------------------------
(***************************************************************************)
(* Proofs about Dashboard, for any services, windows and desktops and any  *)
(* number of actions: its variables keep their types, whatever it shows of *)
(* the windows has at most one active item, it shows the service that is   *)
(* configured now, and its row settles with the volume of the sink.        *)
(*                                                                         *)
(* There are two invariants.  IInv says what the variables may hold; it    *)
(* rests on what holds of the operators of WindowSnapshot, for any windows *)
(* in any order, also with ids that occur more than once: what normalizing *)
(* does, that JSON loses nothing of a normalized snapshot, and that the    *)
(* taskbar of any snapshot has at most one active item.                    *)
(*                                                                         *)
(* SInv relates what is shown to what is under way, and holds with IInv:   *)
(* all sockets but the current one are closed or closing, the one in use   *)
(* brings what is shown up to date (UsesCurrent), its check is the last    *)
(* one (ChecksCurrent), and a draft that was committed is right, failed,   *)
(* about to be cleared by an audio state that is under way or that a       *)
(* request or an order will cause, or was left to itself by an order that  *)
(* came to nothing (RowSettles).                                           *)
(***************************************************************************)
EXTENDS Dashboard, WellFoundedInduction, TLAPS

(* std::find_if finds the first of the indexes that match, if any does.    *)
LEMMA FirstIsLeast ==
  ASSUME NEW S, S \subseteq Nat, S # {}
  PROVE  First(S) \in S /\ \A j \in S : First(S) <= j
<1> DEFINE Less == OpToRel(<, Nat)
<1>1. IsWellFoundedOn(Less, Nat)
  BY NatLessThanWellFounded
<1>2. \A i, j \in Nat : i < j => <<i, j>> \in Less
  BY DEF OpToRel
<1> HIDE DEF Less
<1>3. PICK i \in S : \A j \in S : ~(<<j, i>> \in Less)
  BY <1>1, WFMin
<1>4. ASSUME NEW j \in S PROVE i <= j
  <2>1. i \in Nat /\ j \in Nat
    OBVIOUS
  <2>2. ~(j < i)
    BY <1>2, <1>3, <2>1
  <2> QED
    BY <2>1, <2>2
<1> QED
  BY <1>4 DEF First

LEMMA IndexesOfSnapshot ==
  ASSUME NEW W, NEW ws \in Seq(W)
  PROVE  DOMAIN ws \subseteq Nat /\ \A i \in DOMAIN ws : ws[i] \in W
  OBVIOUS

(* activeWindow returns one of the windows, the named one if it is listed. *)
LEMMA ActiveWindowListed ==
  ASSUME NEW s, s.windows \in Seq(Windows)
  PROVE  \/ ActiveIndexes(s) = {} /\ ActiveWindow(s) = {} /\ ActiveIds(s) = {}
         \/ \E i \in ActiveIndexes(s) :
              /\ ActiveWindow(s) = {s.windows[i]}
              /\ ActiveIds(s) = {s.windows[i].id}
              /\ \A j \in ActiveIndexes(s) : i <= j
<1>1. CASE ActiveIndexes(s) = {}
  BY <1>1 DEF ActiveWindow, ActiveIds
<1>2. CASE ActiveIndexes(s) # {}
  <2> DEFINE i == First(ActiveIndexes(s))
  <2>1. ActiveIndexes(s) \subseteq Nat
    BY IndexesOfSnapshot DEF ActiveIndexes, Named, Flagged, Indexes
  <2>2. i \in ActiveIndexes(s) /\ \A j \in ActiveIndexes(s) : i <= j
    BY <1>2, <2>1, FirstIsLeast
  <2>3. ActiveWindow(s) = {s.windows[i]}
    BY <1>2 DEF ActiveWindow
  <2>4. ActiveIds(s) = {s.windows[i].id}
    BY <2>3 DEF ActiveIds
  <2> QED
    BY <2>2, <2>3, <2>4
<1> QED
  BY <1>1, <1>2

-----------------------------------------------------------------------------
(* Normalizing *)

(* Every window has an id, as in every list that was accepted.             *)
Readable(s) == s \in Snapshots /\ \A i \in Indexes(s) : s.windows[i].id # NoId

(* The named window is listed, and the flags say the same as the name.     *)
Normal(s) ==
  /\ s.activeWindowId # NoId => Named(s) # {}
  /\ \A i \in Indexes(s) : s.windows[i].isActive <=> s.windows[i].id = s.activeWindowId

LEMMA SnapshotShape ==
  ASSUME NEW s \in Snapshots
  PROVE  /\ s.windows \in Seq(Windows)
         /\ s.activeWindowId \in WindowIds \cup {NoId}
         /\ s = [activeWindowId |-> s.activeWindowId, windows |-> s.windows]
         /\ \A i \in Indexes(s) : s.windows[i] \in Windows
  BY IndexesOfSnapshot DEF Snapshots, Indexes

LEMMA MappedSequence ==
  ASSUME NEW W, NEW ws \in Seq(W), NEW vs, DOMAIN vs = DOMAIN ws, vs = [i \in DOMAIN ws |-> vs[i]],
         NEW V, \A i \in DOMAIN ws : vs[i] \in V
  PROVE  vs \in Seq(V)
<1>1. Len(ws) \in Nat /\ DOMAIN ws = 1 .. Len(ws)
  OBVIOUS
<1>2. vs \in [1 .. Len(ws) -> V]
  BY <1>1
<1> QED
  BY <1>1, <1>2

LEMMA FlagSet ==
  ASSUME NEW w \in Windows, NEW flag \in BOOLEAN, NEW v, v = [w EXCEPT !.isActive = flag]
  PROVE  v \in Windows /\ v.id = w.id /\ v.skipTaskbar = w.skipTaskbar /\ v.isActive = flag
  BY DEF Windows

(* What normalizing returns, index by index. *)
LEMMA NormalizeReturns ==
  ASSUME NEW s, Readable(s)
  PROVE  /\ Normalize(s) \in Snapshots
         /\ Indexes(Normalize(s)) = Indexes(s)
         /\ \A i \in Indexes(s) :
              /\ Normalize(s).windows[i].id = s.windows[i].id
              /\ Normalize(s).windows[i].skipTaskbar = s.windows[i].skipTaskbar
              /\ Normalize(s).windows[i].isActive = (s.windows[i].id \in ActiveIds(s))
         /\ Normalize(s).activeWindowId = ValueOr(ActiveIds(s), NoId)
<1> DEFINE n == Normalize(s)
<1>1. \A i \in Indexes(s) : s.windows[i] \in Windows
  BY SnapshotShape DEF Readable
<1>2. /\ DOMAIN n.windows = Indexes(s)
      /\ n.windows = [i \in Indexes(s) |-> n.windows[i]]
      /\ \A i \in Indexes(s) :
           n.windows[i] = [s.windows[i] EXCEPT !.isActive = s.windows[i].id \in ActiveIds(s)]
  BY DEF Normalize
<1>3. \A i \in Indexes(s) :
        /\ n.windows[i] \in Windows
        /\ n.windows[i].id = s.windows[i].id
        /\ n.windows[i].skipTaskbar = s.windows[i].skipTaskbar
        /\ n.windows[i].isActive = (s.windows[i].id \in ActiveIds(s))
  <2> TAKE i \in Indexes(s)
  <2> DEFINE flag == s.windows[i].id \in ActiveIds(s)
  <2>1. flag \in BOOLEAN
    OBVIOUS
  <2>2. n.windows[i] = [s.windows[i] EXCEPT !.isActive = flag] /\ s.windows[i] \in Windows
    BY <1>1, <1>2
  <2> HIDE DEF flag, n
  <2>3. /\ n.windows[i] \in Windows /\ n.windows[i].id = s.windows[i].id
        /\ n.windows[i].skipTaskbar = s.windows[i].skipTaskbar /\ n.windows[i].isActive = flag
    BY <2>1, <2>2, FlagSet
  <2> QED
    BY <2>3 DEF flag
<1>4. n.windows \in Seq(Windows)
  BY <1>2, <1>3, MappedSequence, SnapshotShape DEF Readable, Indexes
<1>5. n.activeWindowId = ValueOr(ActiveIds(s), NoId)
  BY DEF Normalize
<1>6. ValueOr(ActiveIds(s), NoId) \in WindowIds \cup {NoId}
  <2>1. s.windows \in Seq(Windows)
    BY SnapshotShape DEF Readable
  <2>2. ActiveIndexes(s) \subseteq Indexes(s)
    BY DEF ActiveIndexes, Named, Flagged
  <2>3. CASE ActiveIds(s) = {}
    BY <2>3 DEF ValueOr
  <2>4. CASE ActiveIds(s) # {}
    <3>1. PICK i \in ActiveIndexes(s) : ActiveIds(s) = {s.windows[i].id}
      BY <2>1, <2>4, ActiveWindowListed
    <3>2. s.windows[i].id \in WindowIds \cup {NoId}
      BY <1>1, <2>2, <3>1 DEF Windows
    <3> QED
      BY <3>1, <3>2 DEF ValueOr
  <2> QED
    BY <2>3, <2>4
<1>7. n \in Snapshots
  BY <1>4, <1>5, <1>6 DEF Normalize, Snapshots
<1> QED
  BY <1>2, <1>3, <1>5, <1>7 DEF Indexes

LEMMA ReadableStays ==
  ASSUME NEW s, Readable(s)
  PROVE  Readable(Normalize(s))
  BY NormalizeReturns DEF Readable

(* normalizeWindowSnapshot: afterwards the active window that is named is  *)
(* one of the windows, and exactly the windows of that id are flagged.     *)
THEOREM NormalizeAgrees ==
  ASSUME NEW s, Readable(s)
  PROVE  Normal(Normalize(s))
<1> DEFINE n == Normalize(s)
<1>1. s.windows \in Seq(Windows)
  BY SnapshotShape DEF Readable
<1>2. CASE ActiveIds(s) = {}
  <2>1. n.activeWindowId = NoId
    BY <1>2, NormalizeReturns DEF ValueOr
  <2>2. \A i \in Indexes(n) : ~n.windows[i].isActive /\ n.windows[i].id # NoId
    BY <1>2, NormalizeReturns DEF Readable
  <2> QED
    BY <2>1, <2>2 DEF Normal
<1>3. CASE ActiveIds(s) # {}
  <2>1. PICK i \in ActiveIndexes(s) : ActiveIds(s) = {s.windows[i].id}
    BY <1>1, <1>3, ActiveWindowListed
  <2>2. i \in Indexes(s)
    BY DEF ActiveIndexes, Named, Flagged
  <2>3. n.activeWindowId = s.windows[i].id
    BY <2>1, NormalizeReturns DEF ValueOr
  <2>4. i \in Named(n)
    BY <2>2, <2>3, NormalizeReturns DEF Named, Readable
  <2>5. \A j \in Indexes(n) : n.windows[j].isActive <=> n.windows[j].id = n.activeWindowId
    <3> TAKE j \in Indexes(n)
    <3>1. /\ n.windows[j].isActive = (s.windows[j].id \in ActiveIds(s))
          /\ n.windows[j].id = s.windows[j].id
      BY NormalizeReturns
    <3> HIDE DEF n
    <3> QED
      BY <2>1, <2>3, <3>1
  <2> QED
    BY <2>4, <2>5 DEF Normal
<1> QED
  BY <1>2, <1>3

(* Of a normalized snapshot activeWindow is the first window of the id     *)
(* that is named.                                                          *)
LEMMA NormalActive ==
  ASSUME NEW s, Readable(s), Normal(s)
  PROVE  /\ ActiveIds(s) = {s.activeWindowId} \ {NoId}
         /\ ActiveWindow(s) = {} <=> s.activeWindowId = NoId
         /\ \A w \in ActiveWindow(s) :
              \E i \in Indexes(s) : w = s.windows[i] /\ w.id = s.activeWindowId /\ w.isActive
<1>1. s.windows \in Seq(Windows)
  BY SnapshotShape DEF Readable
<1>2. CASE s.activeWindowId = NoId
  <2>1. ActiveIndexes(s) = {}
    BY <1>2 DEF ActiveIndexes, Named, Flagged, Normal, Readable
  <2> QED
    BY <1>1, <1>2, <2>1, ActiveWindowListed
<1>3. CASE s.activeWindowId # NoId
  <2>1. ActiveIndexes(s) = Named(s) /\ Named(s) # {}
    BY <1>3 DEF ActiveIndexes, Normal
  <2>2. PICK i \in Named(s) : ActiveWindow(s) = {s.windows[i]} /\ ActiveIds(s) = {s.windows[i].id}
    BY <1>1, <2>1, ActiveWindowListed
  <2>3. i \in Indexes(s) /\ s.windows[i].id = s.activeWindowId /\ s.windows[i].isActive
    BY <2>2 DEF Named, Normal
  <2> QED
    BY <1>3, <2>2, <2>3
<1> QED
  BY <1>2, <1>3

(* A snapshot that is normalized once is not changed by the normalizations *)
(* that follow it in helper, observer, store and envelope.                 *)
THEOREM NormalizeOnce ==
  ASSUME NEW s, Readable(s), Normal(s)
  PROVE  Normalize(s) = s
<1>1. s = [activeWindowId |-> s.activeWindowId, windows |-> s.windows]
  BY SnapshotShape DEF Readable
<1>2. Normalize(s).activeWindowId = s.activeWindowId
  BY NormalActive, NormalizeReturns DEF ValueOr
<1>3. ASSUME NEW i \in Indexes(s)
      PROVE  [s.windows[i] EXCEPT !.isActive = s.windows[i].id \in ActiveIds(s)] = s.windows[i]
  <2>1. s.windows[i] \in Windows /\ s.windows[i].id # NoId
    BY SnapshotShape DEF Readable
  <2>2. (s.windows[i].id \in ActiveIds(s)) = s.windows[i].isActive
    <3>1. s.windows[i].isActive \in BOOLEAN
      BY <2>1 DEF Windows
    <3> QED
      BY <2>1, <3>1, NormalActive DEF Normal
  <2> QED
    BY <2>1, <2>2 DEF Windows
<1>4. s.windows = [i \in Indexes(s) |-> s.windows[i]]
  BY SnapshotShape DEF Readable, Indexes
<1>5. Normalize(s).windows = s.windows
  BY <1>3, <1>4 DEF Normalize
<1>6. Normalize(s) = [activeWindowId |-> Normalize(s).activeWindowId, windows |-> Normalize(s).windows]
  BY DEF Normalize
<1> QED
  BY <1>1, <1>2, <1>5, <1>6

-----------------------------------------------------------------------------
(* JSON *)

(* toJsonObject and windowSnapshotFromJson: the snapshot the helper writes *)
(* to its cache and signals is the one the observer reads from it.         *)
THEOREM JsonRoundTrip ==
  ASSUME NEW s, Readable(s)
  PROVE  FromJson(ToJson(s)) = {Normalize(s)}
<1> DEFINE n == Normalize(s)
<1>1. Readable(n) /\ Normal(n)
  BY ReadableStays, NormalizeAgrees
<1> HIDE DEF n
<1>2. n = [activeWindowId |-> n.activeWindowId, windows |-> n.windows]
  BY <1>1, SnapshotShape DEF Readable
<1> DEFINE json == ToJsonAsIs(n)
<1>3. json.windows = n.windows /\ json.activeWindowId = {n.activeWindowId} \ {NoId}
  BY DEF ToJsonAsIs
<1>4. ValueOr(json.activeWindowId, NoId) = n.activeWindowId
  BY <1>3 DEF ValueOr
<1>5. \A i \in Indexes(json) : json.windows[i].id # NoId
  BY <1>1, <1>3 DEF Readable, Indexes
<1>6. FromJson(json) = {Normalize(n)}
  BY <1>2, <1>3, <1>4, <1>5 DEF FromJson
<1>7. Normalize(n) = n
  BY <1>1, NormalizeOnce
<1> QED
  BY <1>6, <1>7 DEF ToJson, n

(* What windowSnapshotFromJson accepts is normalized already, and stays so *)
(* whatever KWin answers the helper a moment later.                        *)
LEMMA AcceptedIsReadable ==
  ASSUME NEW json \in JsonSnapshots, NEW s \in FromJson(json)
  PROVE  Readable(s) /\ Normal(s)
<1> DEFINE read == [activeWindowId |-> ValueOr(json.activeWindowId, NoId), windows |-> json.windows]
<1>1. s = Normalize(read) /\ \A i \in Indexes(json) : json.windows[i].id # NoId
  BY DEF FromJson
<1>2. json.windows \in Seq(Windows) /\ json.activeWindowId \in Optional(WindowIds)
  BY DEF JsonSnapshots
<1>3. ValueOr(json.activeWindowId, NoId) \in WindowIds \cup {NoId}
  BY <1>2 DEF ValueOr, Optional
<1>4. Readable(read)
  BY <1>1, <1>2, <1>3 DEF Readable, Snapshots, Indexes
<1> QED
  BY <1>1, <1>4, ReadableStays, NormalizeAgrees

LEMMA BackfillKeepsShape ==
  ASSUME NEW w \in Windows, NEW info \in WindowInfos
  PROVE  ApplyBackfill(w, info) \in Windows /\ ApplyBackfill(w, info).id = w.id
<1>1. ASSUME NEW o \in Optional(BOOLEAN), NEW b \in BOOLEAN PROVE ValueOr(o, b) \in BOOLEAN
  BY DEF Optional, ValueOr
<1>2. info.active \in Optional(BOOLEAN) /\ info.skipTaskbar \in Optional(BOOLEAN)
  BY DEF WindowInfos
<1>3. w.isActive \in BOOLEAN /\ w.skipTaskbar \in BOOLEAN
  BY DEF Windows
<1> DEFINE a == ValueOr(info.active, w.isActive)
           k == ValueOr(info.skipTaskbar, w.skipTaskbar)
<1>4. a \in BOOLEAN /\ k \in BOOLEAN
  BY <1>1, <1>2, <1>3
<1>5. ApplyBackfill(w, info) = [w EXCEPT !.isActive = a, !.skipTaskbar = k]
  BY DEF ApplyBackfill
<1> HIDE DEF a, k
<1> QED
  BY <1>4, <1>5 DEF Windows

(* PushSnapshot of the helper keeps and signals a normalized snapshot with *)
(* the same windows, also when KWin's flags contradict the list.           *)
THEOREM EnrichedIsNormal ==
  ASSUME NEW s, Readable(s), NEW info \in [Indexes(s) -> WindowInfos]
  PROVE  Readable(Enrich(s, info)) /\ Normal(Enrich(s, info))
<1> DEFINE ws == [i \in Indexes(s) |-> ApplyBackfill(s.windows[i], info[i])]
           e == [s EXCEPT !.windows = ws]
<1>1. \A i \in Indexes(s) : ws[i] \in Windows /\ ws[i].id # NoId
  BY SnapshotShape, BackfillKeepsShape DEF Readable
<1>2. ws \in Seq(Windows)
  <2>1. s.windows \in Seq(Windows) /\ DOMAIN ws = DOMAIN s.windows
    BY SnapshotShape DEF Readable, Indexes
  <2>2. ws = [i \in DOMAIN s.windows |-> ws[i]]
    BY DEF Indexes
  <2>3. \A i \in DOMAIN s.windows : ws[i] \in Windows
    BY <1>1 DEF Indexes
  <2> HIDE DEF ws
  <2> QED
    BY <2>1, <2>2, <2>3, MappedSequence
<1>3. e.windows = ws /\ e.activeWindowId = s.activeWindowId
  BY SnapshotShape DEF Readable
<1>4. e \in Snapshots
  BY <1>2, SnapshotShape DEF Readable, Snapshots
<1>5. Readable(e)
  BY <1>1, <1>3, <1>4 DEF Readable, Indexes
<1> QED
  BY <1>5, ReadableStays, NormalizeAgrees DEF Enrich

-----------------------------------------------------------------------------
(* The taskbar *)

(* windowsForTaskbar and WindowTaskbar: of any snapshot the service sends, *)
(* the taskbar has one item per window and at most one active item, which  *)
(* is the active window if that is to be shown.                            *)
THEOREM TaskbarOfService ==
  ASSUME NEW s, Readable(s)
  PROVE  OneActiveItem(ToJson(s))
<1> DEFINE n == Normalize(s)
           json == ToJson(s)
<1>1. Readable(n) /\ Normal(n)
  BY ReadableStays, NormalizeAgrees
<1>2. /\ json.windows = n.windows
      /\ json.activeWindow = ActiveWindow(n)
      /\ json.activeWindowId = {n.activeWindowId} \ {NoId}
      /\ Indexes(json) = Indexes(n)
  BY DEF ToJson, ToJsonAsIs, Indexes
<1> HIDE DEF n, json
<1>3. ASSUME NEW w \in WindowsForTaskbar(json)
      PROVE  /\ w.id # NoId
             /\ IsActiveItem(json, w) <=> w.id = n.activeWindowId
  <2>1. PICK i \in Indexes(n) : w = n.windows[i]
    BY <1>1, <1>2, NormalActive DEF WindowsForTaskbar, Listed, ListedActive
  <2>2. w.id # NoId
    BY <1>1, <2>1 DEF Readable
  <2>3. w.isActive <=> w.id = n.activeWindowId
    BY <1>1, <2>1 DEF Normal
  <2> QED
    BY <1>2, <2>2, <2>3 DEF IsActiveItem
<1>4. ASSUME NEW v \in Listed(json), NEW w \in Listed(json), v.id = w.id
      PROVE  v = w
  <2>1. PICK i \in Indexes(n) :
          /\ v = n.windows[i] /\ ~v.skipTaskbar
          /\ \A j \in Indexes(n) : j > i /\ n.windows[j].id = v.id => n.windows[j].skipTaskbar
    BY <1>2 DEF Listed
  <2>2. PICK j \in Indexes(n) :
          /\ w = n.windows[j] /\ ~w.skipTaskbar
          /\ \A k \in Indexes(n) : k > j /\ n.windows[k].id = w.id => n.windows[k].skipTaskbar
    BY <1>2 DEF Listed
  <2>3. i \in Nat /\ j \in Nat
    BY <1>1, IndexesOfSnapshot, SnapshotShape DEF Readable, Indexes
  <2>4. ~(i < j) /\ ~(j < i)
    BY <1>4, <2>1, <2>2, <2>3
  <2> QED
    BY <2>1, <2>2, <2>3, <2>4
<1>5. \A v, w \in ListedActive(json) : v = w
  <2>1. n.windows \in Seq(Windows)
    BY <1>1, SnapshotShape DEF Readable
  <2> QED
    BY <1>2, <2>1, ActiveWindowListed DEF ListedActive
<1>6. \A v, w \in WindowsForTaskbar(json) : v.id = w.id => v = w
  BY <1>4, <1>5 DEF WindowsForTaskbar
<1>7. \A w \in ListedActive(json) : w \in WindowsForTaskbar(json) /\ IsActiveItem(json, w)
  BY <1>1, <1>2, NormalActive DEF ListedActive, WindowsForTaskbar, IsActiveItem
<1> DEFINE active == {w \in WindowsForTaskbar(json) : IsActiveItem(json, w)}
<1>8. \A v, w \in active : v = w
  BY <1>3, <1>6
<1>9. ListedActive(json) # {} => active = ListedActive(json)
  BY <1>7, <1>8
<1> QED
  BY <1>6, <1>8, <1>9 DEF OneActiveItem, json

-----------------------------------------------------------------------------
(* The dashboard *)

(* What a service may send, and the dashboard may know, of the windows.    *)
SoundJson == {json \in JsonSnapshots : OneActiveItem(json)}
SoundMessages == {m \in Messages : m.windowState \subseteq SoundJson}
SoundSockets ==
  [server : Servers, life : Life, greeted : BOOLEAN, served : BOOLEAN,
   wire : Seq(SoundMessages), hasState : BOOLEAN]
SoundStates == {s \in BackendStates : s.windowState \subseteq SoundJson}
ReadableSnapshots == {s \in Snapshots : Readable(s)}

ServersInv ==
  /\ ready \subseteq Servers
  /\ audio \in [Servers -> AudioStates]
  /\ windows \in [Servers -> ReadableSnapshots]
  /\ changes \in 0 .. MaxChanges

SocketsInv == sockets \in Seq(SoundSockets) /\ sockets # <<>>

StateInv == state \in SoundStates /\ status \in Statuses

RequestRecords ==
  [id : 1 .. MaxActions, server : Servers, volume : Optional(Positions),
   muted : Optional(BOOLEAN), stage : {"sent", "accepted", "refused"}]

CheckInv == httpStatus \in Optional(DOMAIN sockets) /\ checks \subseteq DOMAIN sockets

RowInv ==
  /\ draft \in Optional(Positions)
  /\ focused \in BOOLEAN
  /\ pending \subseteq Actions
  /\ rowError \in BOOLEAN
  /\ requests \subseteq RequestRecords
  /\ issued \in 0 .. MaxActions

OrderInv == orders \in [Servers -> Seq(Orders)] /\ unseen \in BOOLEAN

IInv == ServersInv /\ SocketsInv /\ StateInv /\ CheckInv /\ RowInv /\ OrderInv

-----------------------------------------------------------------------------
(* Content of messages *)

LEMMA ToJsonSound ==
  ASSUME NEW s, Readable(s)
  PROVE  ToJson(s) \in SoundJson
<1> DEFINE n == Normalize(s)
<1>1. Readable(n)
  BY ReadableStays
<1> HIDE DEF n
<1>2. n.windows \in Seq(Windows) /\ n.activeWindowId \in WindowIds \cup {NoId}
  BY <1>1, SnapshotShape DEF Readable
<1>3. ActiveWindow(n) \in Optional(Windows)
  <2>1. \A i \in ActiveIndexes(n) : n.windows[i] \in Windows
    BY <1>1, SnapshotShape DEF ActiveIndexes, Named, Flagged, Readable
  <2> QED
    BY <1>2, <2>1, ActiveWindowListed DEF Optional
<1>4. {n.activeWindowId} \ {NoId} \in Optional(WindowIds)
  BY <1>2 DEF Optional
<1>5. ToJsonAsIs(n) \in JsonSnapshots
  BY <1>2, <1>3, <1>4 DEF ToJsonAsIs, JsonSnapshots
<1> QED
  BY <1>5, TaskbarOfService DEF SoundJson, ToJson, n

LEMMA DesktopReadable ==
  ASSUME NEW d \in Desktops, NEW w \in Readings[d]
  PROVE  w \in ReadableSnapshots
<1> DEFINE json == CurrentSnapshot(d.tracked, d.activeId)
<1>1. /\ d.tracked \in Seq(TrackedWindows) /\ d.activeId \in WindowIds \cup {NoId}
      /\ d.info \in [DOMAIN d.tracked -> WindowInfos]
  BY DesktopsAssumption DEF IsDesktop
<1>2. json.activeWindowId \in Optional(WindowIds) /\ json.activeWindow \in Optional(Windows)
  BY <1>1 DEF CurrentSnapshot, Optional
<1>3. json.windows \in Seq(Windows) /\ DOMAIN json.windows = DOMAIN d.tracked
  <2> DEFINE ws == [i \in DOMAIN d.tracked |->
                      [id |-> d.tracked[i].id, isActive |-> d.tracked[i].id = d.activeId,
                       skipTaskbar |-> d.tracked[i].skipTaskbar]]
  <2>1. json.windows = ws
    BY DEF CurrentSnapshot
  <2>2. \A i \in DOMAIN d.tracked : ws[i] \in Windows
    <3> TAKE i \in DOMAIN d.tracked
    <3>1. d.tracked[i] \in TrackedWindows
      BY <1>1
    <3>2. d.tracked[i].id \in WindowIds \cup {NoId} /\ d.tracked[i].skipTaskbar \in BOOLEAN
      BY <3>1 DEF TrackedWindows
    <3>3. (d.tracked[i].id = d.activeId) \in BOOLEAN
      OBVIOUS
    <3> QED
      BY <3>2, <3>3 DEF Windows
  <2>3. DOMAIN ws = DOMAIN d.tracked /\ ws = [i \in DOMAIN d.tracked |-> ws[i]]
    OBVIOUS
  <2> HIDE DEF ws
  <2>4. ws \in Seq(Windows)
    BY <1>1, <2>2, <2>3, MappedSequence
  <2> QED
    BY <2>1, <2>3, <2>4
<1>4. json \in JsonSnapshots
  BY <1>2, <1>3 DEF CurrentSnapshot, JsonSnapshots
<1>5. PICK s \in FromJson(json) : \E read \in FromJson(ToJson(Enrich(s, d.info))) : w = Normalize(read)
  BY DEF Readings
<1>6. Readable(s) /\ Indexes(s) = DOMAIN d.tracked
  <2>1. Readable(s)
    BY <1>4, <1>5, AcceptedIsReadable
  <2>2. s = Normalize([activeWindowId |-> ValueOr(json.activeWindowId, NoId), windows |-> json.windows])
    BY <1>5 DEF FromJson
  <2>3. DOMAIN s.windows = DOMAIN json.windows
    BY <2>2 DEF Normalize, Indexes
  <2> QED
    BY <1>3, <2>1, <2>3 DEF Indexes
<1>7. Readable(Enrich(s, d.info))
  BY <1>1, <1>6, EnrichedIsNormal
<1>8. FromJson(ToJson(Enrich(s, d.info))) = {Normalize(Enrich(s, d.info))}
  BY <1>7, JsonRoundTrip
<1>9. Readable(w)
  BY <1>5, <1>7, <1>8, ReadableStays
<1> QED
  BY <1>9 DEF Readable, ReadableSnapshots

LEMMA FullStateSound ==
  ASSUME ServersInv, NEW s \in Servers
  PROVE  FullState(s) \in SoundMessages
<1>1. ToJson(windows[s]) \in SoundJson
  BY ToJsonSound DEF ServersInv, ReadableSnapshots
<1>2. audio[s] \in AudioStates
  BY DEF ServersInv
<1> HIDE DEF SoundJson
<1>3. {ToJson(windows[s])} \in Optional(JsonSnapshots)
  BY <1>1 DEF SoundJson, Optional
<1>4. {audio[s]} \in Optional(AudioStates)
  BY <1>2 DEF Optional
<1> QED
  BY <1>1, <1>3, <1>4 DEF FullState, SoundMessages, Messages

LEMMA PatchesSound ==
  /\ \A a \in AudioStates :
       [type |-> "patch", audio |-> {a}, windowState |-> {}] \in SoundMessages
  /\ \A w \in ReadableSnapshots :
       [type |-> "patch", audio |-> {}, windowState |-> {ToJson(w)}] \in SoundMessages
  /\ NotReady \in SoundMessages
<1>1. {} \in Optional(AudioStates) /\ {} \in Optional(JsonSnapshots)
  BY DEF Optional
<1>2. ASSUME NEW a \in AudioStates
      PROVE  [type |-> "patch", audio |-> {a}, windowState |-> {}] \in SoundMessages
  BY <1>1 DEF Optional, SoundMessages, Messages
<1>3. ASSUME NEW w \in ReadableSnapshots
      PROVE  [type |-> "patch", audio |-> {}, windowState |-> {ToJson(w)}] \in SoundMessages
  <2>1. ToJson(w) \in SoundJson
    BY ToJsonSound DEF ReadableSnapshots
  <2>2. {ToJson(w)} \in Optional(JsonSnapshots)
    BY <2>1 DEF SoundJson, Optional
  <2> QED
    BY <1>1, <2>1, <2>2 DEF SoundMessages, Messages
<1>4. NotReady \in SoundMessages
  BY <1>1 DEF NotReady, SoundMessages, Messages
<1> QED
  BY <1>2, <1>3, <1>4

-----------------------------------------------------------------------------
(* Sequences of sockets *)

LEMMA SocketReplaced ==
  ASSUME SocketsInv, NEW g \in DOMAIN sockets, NEW x \in SoundSockets,
         sockets' = [sockets EXCEPT ![g] = x]
  PROVE  SocketsInv' /\ DOMAIN sockets' = DOMAIN sockets
<1>1. sockets' \in Seq(SoundSockets) /\ DOMAIN sockets' = DOMAIN sockets
  BY DEF SocketsInv
<1>2. sockets # <<>> <=> DOMAIN sockets # {}
  BY DEF SocketsInv
<1>3. sockets' # <<>>
  BY <1>1
<1> QED
  BY <1>1, <1>3 DEF SocketsInv

LEMMA SocketsMapped ==
  ASSUME SocketsInv, DOMAIN sockets' = DOMAIN sockets,
         sockets' = [g \in DOMAIN sockets |-> sockets'[g]],
         \A g \in DOMAIN sockets : sockets'[g] \in SoundSockets
  PROVE  SocketsInv'
<1>1. sockets \in Seq(SoundSockets) /\ DOMAIN sockets = 1 .. Len(sockets) /\ Len(sockets) \in Nat
  BY DEF SocketsInv
<1>2. sockets' \in Seq(SoundSockets)
  BY <1>1, MappedSequence
<1>3. 1 \in DOMAIN sockets'
  BY <1>1 DEF SocketsInv
<1> QED
  BY <1>2, <1>3 DEF SocketsInv

LEMMA SocketAt ==
  ASSUME SocketsInv, NEW g \in DOMAIN sockets
  PROVE  /\ sockets[g] \in SoundSockets
         /\ sockets[g].server \in Servers
         /\ sockets[g].life \in Life
         /\ sockets[g].wire \in Seq(SoundMessages)
<1>1. sockets[g] \in SoundSockets
  BY DEF SocketsInv
<1> QED
  BY <1>1 DEF SoundSockets

LEMMA CurrentListed ==
  ASSUME SocketsInv
  PROVE  Current \in DOMAIN sockets /\ Current \in Nat /\ ConfiguredServer \in Servers
<1>1. Current \in DOMAIN sockets /\ Current \in Nat
  BY DEF SocketsInv, Current
<1> QED
  BY <1>1, SocketAt DEF ConfiguredServer

(* Broadcast and BecomesReady append to some of the wires.                 *)
LEMMA AppendSound ==
  ASSUME NEW socket \in SoundSockets, NEW m \in SoundMessages
  PROVE  [socket EXCEPT !.wire = Append(@, m)] \in SoundSockets
<1>1. Append(socket.wire, m) \in Seq(SoundMessages)
  BY DEF SoundSockets
<1> QED
  BY <1>1 DEF SoundSockets

LEMMA ServedSound ==
  ASSUME NEW socket \in SoundSockets, NEW m \in SoundMessages
  PROVE  [socket EXCEPT !.served = TRUE, !.wire = Append(@, m)] \in SoundSockets
<1> DEFINE served == [socket EXCEPT !.served = TRUE]
<1>1. served \in SoundSockets
  BY DEF SoundSockets
<1>2. [socket EXCEPT !.served = TRUE, !.wire = Append(@, m)] = [served EXCEPT !.wire = Append(@, m)]
  BY DEF SoundSockets
<1> HIDE DEF served
<1> QED
  BY <1>1, <1>2, AppendSound

LEMMA BroadcastSound ==
  ASSUME SocketsInv, NEW s, NEW m \in SoundMessages, sockets' = Broadcast(s, m)
  PROVE  SocketsInv' /\ DOMAIN sockets' = DOMAIN sockets
<1>1. DOMAIN sockets' = DOMAIN sockets
  BY DEF Broadcast
<1>2. \A g \in DOMAIN sockets : sockets'[g] \in SoundSockets
  BY AppendSound, SocketAt DEF Broadcast
<1>3. sockets' = [g \in DOMAIN sockets |-> sockets'[g]]
  BY DEF Broadcast
<1> QED
  BY <1>1, <1>2, <1>3, SocketsMapped

LEMMA BroadcastAudioSound ==
  ASSUME SocketsInv, NEW s, NEW a \in AudioStates, BroadcastAudio(s, a)
  PROVE  SocketsInv' /\ DOMAIN sockets' = DOMAIN sockets
<1> DEFINE m == [type |-> "patch", audio |-> {a}, windowState |-> {}]
<1>1. m \in SoundMessages
  BY PatchesSound
<1>2. CASE sockets' = sockets
  BY <1>2 DEF SocketsInv
<1>3. CASE sockets' = Broadcast(s, m)
  <2> HIDE DEF m
  <2> QED
    BY <1>1, <1>3, BroadcastSound
<1> QED
  BY <1>2, <1>3 DEF BroadcastAudio

-----------------------------------------------------------------------------
(* The steps of services and sockets *)

LEMMA ServiceChangesSafe ==
  ASSUME ServersInv, SocketsInv, NEW s \in Servers, ServiceChanges(s)
  PROVE  ServersInv' /\ SocketsInv' /\ DOMAIN sockets' = DOMAIN sockets
<1>1. changes' \in 0 .. MaxChanges
  BY BoundsAssumption DEF ServersInv, ServiceChanges
<1>2. ASSUME NEW a \in AudioStates, audio' = [audio EXCEPT ![s] = a], BroadcastAudio(s, a),
             UNCHANGED windows
      PROVE  ServersInv' /\ SocketsInv' /\ DOMAIN sockets' = DOMAIN sockets
  BY <1>1, <1>2, BroadcastAudioSound DEF ServersInv, ServiceChanges
<1>3. ASSUME NEW d \in Desktops, NEW w \in Readings[d], windows' = [windows EXCEPT ![s] = w],
             sockets' = Broadcast(s, [type |-> "patch", audio |-> {}, windowState |-> {ToJson(w)}]),
             UNCHANGED audio
      PROVE  ServersInv' /\ SocketsInv' /\ DOMAIN sockets' = DOMAIN sockets
  <2> DEFINE m == [type |-> "patch", audio |-> {}, windowState |-> {ToJson(w)}]
  <2>1. w \in ReadableSnapshots
    BY DesktopReadable
  <2>2. m \in SoundMessages
    BY <2>1, PatchesSound
  <2> HIDE DEF m
  <2>3. SocketsInv' /\ DOMAIN sockets' = DOMAIN sockets
    BY <1>3, <2>2, BroadcastSound DEF m
  <2>4. windows' \in [Servers -> ReadableSnapshots]
    BY <1>3, <2>1 DEF ServersInv
  <2> QED
    BY <1>1, <1>3, <2>3, <2>4 DEF ServersInv, ServiceChanges
<1> QED
  BY <1>2, <1>3 DEF ServiceChanges

LEMMA BecomesReadySafe ==
  ASSUME ServersInv, SocketsInv, NEW s \in Servers, BecomesReady(s)
  PROVE  ServersInv' /\ SocketsInv' /\ DOMAIN sockets' = DOMAIN sockets
<1>1. FullState(s) \in SoundMessages
  BY FullStateSound
<1>2. DOMAIN sockets' = DOMAIN sockets /\ sockets' = [g \in DOMAIN sockets |-> sockets'[g]]
  BY DEF BecomesReady
<1>3. \A g \in DOMAIN sockets : sockets'[g] \in SoundSockets
  <2> TAKE g \in DOMAIN sockets
  <2>1. \/ sockets'[g] = sockets[g]
        \/ sockets'[g] = [sockets[g] EXCEPT !.served = TRUE, !.wire = Append(@, FullState(s))]
    BY DEF BecomesReady
  <2> QED
    BY <1>1, <2>1, SocketAt, ServedSound
<1>4. SocketsInv'
  BY <1>2, <1>3, SocketsMapped
<1> QED
  BY <1>2, <1>4 DEF BecomesReady, ServersInv

(* The steps that change one socket.                                       *)
LEMMA GreetsSafe ==
  ASSUME ServersInv, SocketsInv, NEW g \in DOMAIN sockets, Greets(g)
  PROVE  SocketsInv' /\ DOMAIN sockets' = DOMAIN sockets
<1> DEFINE s == sockets[g].server
           reply == IF s \in ready THEN FullState(s) ELSE NotReady
           x == [sockets[g] EXCEPT !.greeted = TRUE, !.served = s \in ready, !.wire = <<reply>>]
<1>1. reply \in SoundMessages
  BY FullStateSound, PatchesSound, SocketAt
<1>2. <<reply>> \in Seq(SoundMessages)
  BY <1>1
<1> HIDE DEF reply
<1>3. (s \in ready) \in BOOLEAN
  OBVIOUS
<1>4. x \in SoundSockets
  BY <1>2, <1>3, SocketAt DEF SoundSockets
<1>5. sockets' = [sockets EXCEPT ![g] = x]
  BY DEF Greets, reply
<1> HIDE DEF x
<1> QED
  BY <1>4, <1>5, SocketReplaced

LEMMA OpensSafe ==
  ASSUME SocketsInv, NEW g \in DOMAIN sockets, Opens(g)
  PROVE  SocketsInv' /\ DOMAIN sockets' = DOMAIN sockets
<1> DEFINE x == [sockets[g] EXCEPT !.life = "open"]
<1>1. x \in SoundSockets
  BY SocketAt DEF SoundSockets, Life
<1>2. sockets' = [sockets EXCEPT ![g] = x]
  BY DEF Opens
<1> HIDE DEF x
<1> QED
  BY <1>1, <1>2, SocketReplaced

LEMMA EndedSafe ==
  ASSUME SocketsInv, NEW g \in DOMAIN sockets, sockets' = [sockets EXCEPT ![g] = Ended(sockets[g])]
  PROVE  SocketsInv' /\ DOMAIN sockets' = DOMAIN sockets
<1> DEFINE x == Ended(sockets[g])
<1>1. sockets[g].server \in Servers /\ sockets[g].hasState \in BOOLEAN
  BY SocketAt DEF SoundSockets
<1>2. x = [server |-> sockets[g].server, life |-> "closed", greeted |-> FALSE, served |-> FALSE,
           wire |-> <<>>, hasState |-> sockets[g].hasState]
  BY DEF Ended
<1>3. x \in SoundSockets
  BY <1>1, <1>2 DEF SoundSockets, Life
<1>4. sockets' = [sockets EXCEPT ![g] = x]
  OBVIOUS
<1> HIDE DEF x
<1> QED
  BY <1>3, <1>4, SocketReplaced

LEMMA ReadSound ==
  ASSUME NEW socket \in SoundSockets, NEW w \in Seq(SoundMessages), NEW has \in BOOLEAN
  PROVE  [socket EXCEPT !.wire = w, !.hasState = has] \in SoundSockets
  BY DEF SoundSockets

LEMMA ReceivesSafe ==
  ASSUME SocketsInv, StateInv, NEW g \in DOMAIN sockets, Receives(g)
  PROVE  SocketsInv' /\ StateInv' /\ DOMAIN sockets' = DOMAIN sockets
<1> DEFINE message == Head(sockets[g].wire)
           x == ReadBy(sockets[g])
<1>1. message \in SoundMessages /\ Tail(sockets[g].wire) \in Seq(SoundMessages)
  BY SocketAt DEF Receives
<1>2. sockets' = [sockets EXCEPT ![g] = x]
  BY DEF Receives
<1>3. x \in SoundSockets
  <2> DEFINE has == sockets[g].hasState \/ Carries(message)
  <2>1. has \in BOOLEAN
    OBVIOUS
  <2>2. sockets[g] \in SoundSockets
    BY SocketAt
  <2>3. x = [sockets[g] EXCEPT !.wire = Tail(sockets[g].wire), !.hasState = has]
    BY DEF ReadBy
  <2> HIDE DEF has, message, x
  <2> QED
    BY <1>1, <2>1, <2>2, <2>3, ReadSound
<1>4. status' \in Statuses
  BY DEF Receives, Statuses
<1>5. ApplyBackendMessage(state, message) \in SoundStates
  BY <1>1 DEF ApplyBackendMessage, SoundStates, SoundMessages, BackendStates, Messages, StateInv
<1>6. state' \in SoundStates
  BY <1>5 DEF Receives, StateInv
<1> HIDE DEF x
<1> QED
  BY <1>2, <1>3, <1>4, <1>6, SocketReplaced DEF StateInv

(* Save appends a socket and closes the one that was current.              *)
LEMMA RunEffectSafe ==
  ASSUME SocketsInv, NEW server \in Servers, RunEffect(server)
  PROVE  SocketsInv' /\ StateInv' /\ DOMAIN sockets' = DOMAIN sockets \cup {Current + 1}
<1>1. Current \in DOMAIN sockets /\ Current \in Nat /\ DOMAIN sockets = 1 .. Current
  BY CurrentListed DEF Current, SocketsInv
<1> DEFINE x == CloseSocket(sockets[Current])
           closed == [sockets EXCEPT ![Current] = x]
<1>2. x \in SoundSockets
  <2> DEFINE life == x.life
  <2>1. sockets[Current] \in SoundSockets
    BY <1>1, SocketAt
  <2>2. x = [sockets[Current] EXCEPT !.life = life] /\ life \in Life
    BY <2>1 DEF CloseSocket, SoundSockets, Life
  <2> HIDE DEF x, life
  <2> QED
    BY <2>1, <2>2 DEF SoundSockets
<1> HIDE DEF x
<1>3. closed \in Seq(SoundSockets) /\ Len(closed) = Current
  BY <1>1, <1>2 DEF SocketsInv, Current
<1>4. PICK life \in {"connecting", "closed"} :
        /\ sockets' = Append(closed, NewSocket(server, life))
        /\ status' = IF life = "connecting" THEN "connecting" ELSE "error"
  BY DEF RunEffect, x
<1>5. NewSocket(server, life) \in SoundSockets
  BY DEF NewSocket, SoundSockets, Life
<1> HIDE DEF closed
<1> DEFINE new == NewSocket(server, life)
<1> HIDE DEF new
<1>6. sockets' \in Seq(SoundSockets) /\ Len(sockets') = Current + 1
  BY <1>3, <1>4, <1>5, <1>1 DEF new
<1>7. SocketsInv'
  BY <1>1, <1>6 DEF SocketsInv
<1>8. DOMAIN sockets' = DOMAIN sockets \cup {Current + 1}
  BY <1>1, <1>6
<1>9. StateInv'
  <2>1. state' = emptyBackendState /\ status' \in Statuses
    BY <1>4 DEF RunEffect, Statuses
  <2>2. emptyBackendState \in SoundStates
    BY DEF emptyBackendState, SoundStates, BackendStates, Optional
  <2> QED
    BY <2>1, <2>2 DEF StateInv
<1> QED
  BY <1>7, <1>8, <1>9

-----------------------------------------------------------------------------
(* The steps of the dashboard *)

LEMMA ValueListed ==
  ASSUME NEW S, NEW o \in Optional(S), NEW default \in S
  PROVE  ValueOr(o, default) \in S
BY DEF Optional, ValueOr

LEMMA ShownAudioListed ==
  ASSUME StateInv, HasRow
  PROVE  ShownAudio \in AudioStates
<1>1. state.audio \in Optional(AudioStates)
  BY DEF StateInv, SoundStates, BackendStates
<1> QED
  BY <1>1 DEF HasRow, ShownAudio, Optional

LEMMA SliderInRange ==
  ASSUME StateInv, RowInv, HasRow
  PROVE  SliderValue \in Positions
<1>1. ShownAudio.volume \in Nat
  BY ShownAudioListed, ScaleAssumption DEF AudioStates
<1>2. Position(ShownAudio.volume) \in Positions
  BY <1>1, ScaleAssumption DEF Position, Positions
<1> QED
  BY <1>2, ValueListed DEF SliderValue, RowInv

LEMMA RunDeviceActionSafe ==
  ASSUME SocketsInv, RowInv, NEW volume \in Optional(Positions), NEW muted \in Optional(BOOLEAN),
         RunDeviceAction(volume, muted)
  PROVE  /\ pending' \subseteq Actions /\ rowError' \in BOOLEAN
         /\ requests' \subseteq RequestRecords /\ issued' \in 0 .. MaxActions
<1>1. Current \in Nat /\ Current > 0
  BY CurrentListed DEF SocketsInv, Current
<1>2. issued' \in 1 .. MaxActions
  BY <1>1, BoundsAssumption DEF RunDeviceAction, Acts, RowInv
<1>3. Action(volume) \in Actions
  BY DEF Action, Actions
<1> DEFINE r == [id |-> issued', server |-> ConfiguredServer, volume |-> volume, muted |-> muted,
                 stage |-> "sent"]
<1>4. r \in RequestRecords
  BY <1>2, CurrentListed DEF RequestRecords
<1>5. requests' = requests \cup {r}
  BY DEF RunDeviceAction
<1> HIDE DEF r
<1>6. requests' \subseteq RequestRecords
  BY <1>4, <1>5 DEF RowInv
<1>7. pending' \subseteq Actions /\ rowError' \in BOOLEAN
  BY <1>3 DEF RunDeviceAction, RowInv
<1> QED
  BY <1>2, <1>6, <1>7

LEMMA OrdersKept == ASSUME OrderInv, orders' = orders, unseen' \in BOOLEAN PROVE OrderInv'
  BY DEF OrderInv

LEMMA SaveSafe ==
  ASSUME IInv, NEW server \in Servers, Save(server)
  PROVE  IInv'
<1>1. SocketsInv' /\ StateInv' /\ DOMAIN sockets' = DOMAIN sockets \cup {Current + 1}
  BY RunEffectSafe DEF Save, IInv
<1>2. CheckInv'
  BY <1>1 DEF Save, IInv, CheckInv, checkingHttpStatus, Optional
<1>3. RowInv'
  BY DEF Save, IInv, RowInv, Optional
<1>4. OrderInv'
  BY OrdersKept DEF Save, IInv
<1> QED
  BY <1>1, <1>2, <1>3, <1>4 DEF Save, IInv, ServersInv, serverVars

LEMMA CheckEndsSafe ==
  ASSUME IInv, NEW g \in checks, CheckEnds(g)
  PROVE  IInv'
<1>1. UNCHANGED <<ready, audio, windows, changes, sockets, state, status>>
  BY DEF CheckEnds, serverVars, hookVars
<1>2. RowInv'
  BY DEF CheckEnds, rowVars, IInv, RowInv
<1>3. CheckInv'
  BY <1>1 DEF CheckEnds, IInv, CheckInv, Optional
<1>4. OrderInv'
  BY OrdersKept DEF CheckEnds, orderVars, IInv, OrderInv
<1> QED
  BY <1>1, <1>2, <1>3, <1>4 DEF IInv, ServersInv, SocketsInv, StateInv

LEMMA ReceivesMessageSafe ==
  ASSUME IInv, NEW g \in DOMAIN sockets, ReceivesMessage(g)
  PROVE  IInv'
<1>1. SocketsInv' /\ StateInv' /\ DOMAIN sockets' = DOMAIN sockets
  BY ReceivesSafe DEF ReceivesMessage, IInv
<1>2. RowInv'
  BY DEF ReceivesMessage, ClearDrafts, IInv, RowInv, Optional
<1>3. CheckInv'
  BY <1>1 DEF ReceivesMessage, checkVars, IInv, CheckInv
<1>4. ServersInv'
  BY DEF ReceivesMessage, Receives, serverVars, IInv, ServersInv
<1>5. unseen' \in BOOLEAN
  BY DEF ReceivesMessage, ClearDrafts, IInv, OrderInv
<1>6. OrderInv'
  BY <1>5, OrdersKept DEF ReceivesMessage, IInv
<1> QED
  BY <1>1, <1>2, <1>3, <1>4, <1>6 DEF IInv

(* The steps of the row leave everything but the row and orders alone.     *)
LEMMA RowSteps ==
  ASSUME IInv, UNCHANGED <<serverVars, hookVars, checkVars>>, RowInv', OrderInv'
  PROVE  IInv'
BY DEF IInv, ServersInv, SocketsInv, StateInv, CheckInv, serverVars, hookVars, checkVars

LEMMA DragSafe ==
  ASSUME IInv, NEW position \in Positions, Drag(position)
  PROVE  IInv'
<1>1. RowInv'
  BY DEF Drag, IInv, RowInv, Optional
<1>2. OrderInv'
  BY OrdersKept DEF Drag, IInv
<1> QED
  BY <1>1, <1>2, RowSteps DEF Drag

LEMMA FocusSafe == ASSUME IInv, Focus \/ LosesFocus PROVE IInv'
<1>1. RowInv'
  BY DEF Focus, LosesFocus, IInv, RowInv
<1>2. OrderInv'
  BY DEF Focus, LosesFocus, IInv, OrderInv, orderVars
<1> QED
  BY <1>1, <1>2, RowSteps DEF Focus, LosesFocus

LEMMA CommitVolumeSafe == ASSUME IInv, CommitVolume PROVE IInv'
<1>1. {SliderValue} \in Optional(Positions) /\ {} \in Optional(BOOLEAN)
  BY SliderInRange DEF CommitVolume, IInv, Optional
<1>2. RowInv'
  BY <1>1, RunDeviceActionSafe DEF CommitVolume, IInv, RowInv
<1>3. OrderInv'
  BY DEF CommitVolume, IInv, OrderInv, orderVars
<1> QED
  BY <1>2, <1>3, RowSteps DEF CommitVolume

LEMMA ToggleMutedSafe == ASSUME IInv, ToggleMuted PROVE IInv'
<1>1. {} \in Optional(Positions) /\ {~ShownAudio.muted} \in Optional(BOOLEAN)
  BY DEF Optional
<1>2. RowInv'
  BY <1>1, RunDeviceActionSafe DEF ToggleMuted, IInv, RowInv
<1>3. OrderInv'
  BY DEF ToggleMuted, IInv, OrderInv, orderVars
<1> QED
  BY <1>2, <1>3, RowSteps DEF ToggleMuted

LEMMA HandlesSafe ==
  ASSUME IInv, NEW r \in requests, Handles(r)
  PROVE  IInv'
<1>1. /\ r \in RequestRecords /\ r.server \in Servers
      /\ r.volume \in Optional(Positions) /\ r.muted \in Optional(BOOLEAN)
  BY DEF IInv, RowInv, RequestRecords
<1>2. [r EXCEPT !.stage = "accepted"] \in RequestRecords /\ [r EXCEPT !.stage = "refused"] \in RequestRecords
  BY <1>1 DEF RequestRecords
<1>3. RowInv'
  <2>1. requests' \subseteq RequestRecords
    BY <1>2 DEF Handles, IInv, RowInv
  <2> QED
    BY <2>1 DEF Handles, IInv, RowInv
<1> DEFINE order == [volume |-> r.volume, muted |-> r.muted]
<1>4. order \in Orders
  BY <1>1 DEF Orders
<1>5. orders' = orders \/ orders' = [orders EXCEPT ![r.server] = Append(orders[r.server], order)]
  BY DEF Handles
<1> HIDE DEF order
<1>6. orders' \in [Servers -> Seq(Orders)]
  <2>1. orders[r.server] \in Seq(Orders)
    BY <1>1 DEF IInv, OrderInv
  <2>2. Append(orders[r.server], order) \in Seq(Orders)
    BY <1>4, <2>1
  <2> QED
    BY <1>1, <1>5, <2>2 DEF IInv, OrderInv
<1>7. OrderInv'
  BY <1>6 DEF Handles, IInv, OrderInv
<1> QED
  BY <1>3, <1>7, RowSteps DEF Handles

(* The orders of a service that are left once its next one is through.     *)
LEMMA NextOrderSafe ==
  ASSUME OrderInv, NEW s \in Servers, NextOrder(s)
  PROVE  /\ orders' \in [Servers -> Seq(Orders)]
         /\ orders[s] \in Seq(Orders) /\ Head(orders[s]) \in Orders
         /\ orders'[s] = Tail(orders[s])
         /\ \A t \in Servers : t # s => orders'[t] = orders[t]
<1>1. orders[s] \in Seq(Orders) /\ orders[s] # <<>>
  BY DEF OrderInv, NextOrder
<1>2. Head(orders[s]) \in Orders /\ Tail(orders[s]) \in Seq(Orders)
  BY <1>1
<1>3. orders' = [orders EXCEPT ![s] = Tail(orders[s])]
  BY DEF NextOrder
<1> QED
  BY <1>1, <1>2, <1>3 DEF OrderInv

LEMMA OrderedListed ==
  ASSUME IInv, NEW s \in Servers, NextOrder(s)
  PROVE  Ordered(s) \in AudioStates
<1> DEFINE order == Head(orders[s])
<1>1. order \in Orders
  BY NextOrderSafe DEF IInv
<1> HIDE DEF order
<1>2. order.volume \in Optional(Positions) /\ order.muted \in Optional(BOOLEAN)
  BY <1>1 DEF Orders
<1>3. order.volume \in Optional(Volumes)
  BY <1>2, ScaleAssumption DEF Optional, Positions
<1>4. audio[s].volume \in Volumes /\ audio[s].muted \in BOOLEAN
  BY DEF IInv, ServersInv, AudioStates
<1>5. ValueOr(order.volume, audio[s].volume) \in Volumes
  BY <1>3, <1>4, ValueListed
<1>6. ValueOr(order.muted, audio[s].muted) \in BOOLEAN
  BY <1>2, <1>4, ValueListed
<1> QED
  BY <1>5, <1>6 DEF Ordered, AudioStates, order

LEMMA ShowsOrderSafe ==
  ASSUME IInv, NEW s \in Servers, ShowsOrder(s)
  PROVE  IInv' /\ DOMAIN sockets' = DOMAIN sockets
<1> DEFINE now == Ordered(s)
<1>1. now \in AudioStates
  BY OrderedListed DEF ShowsOrder
<1>2. audio' = [audio EXCEPT ![s] = now] /\ BroadcastAudio(s, now)
  BY DEF ShowsOrder
<1> HIDE DEF now
<1>3. SocketsInv' /\ DOMAIN sockets' = DOMAIN sockets
  BY <1>1, <1>2, BroadcastAudioSound DEF IInv
<1>4. audio' \in [Servers -> AudioStates]
  BY <1>1, <1>2 DEF IInv, ServersInv
<1>5. OrderInv'
  BY NextOrderSafe DEF ShowsOrder, IInv, OrderInv
<1>6. UNCHANGED <<ready, windows, changes, state, status, checkVars, rowVars>>
  BY DEF ShowsOrder
<1>7. RowInv'
  BY <1>6 DEF rowVars, IInv, RowInv
<1> QED
  BY <1>3, <1>4, <1>5, <1>6, <1>7 DEF IInv, ServersInv, StateInv, CheckInv, checkVars

LEMMA GivesUpOrderSafe ==
  ASSUME IInv, NEW s \in Servers, GivesUpOrder(s)
  PROVE  IInv'
<1>1. orders' \in [Servers -> Seq(Orders)]
  BY NextOrderSafe DEF GivesUpOrder, IInv
<1>2. unseen' \in BOOLEAN
  BY DEF GivesUpOrder, IInv, OrderInv
<1>3. RowInv'
  BY DEF GivesUpOrder, rowVars, IInv, RowInv
<1> QED
  BY <1>1, <1>2, <1>3, RowSteps DEF GivesUpOrder, OrderInv

LEMMA AnswersSafe ==
  ASSUME IInv, NEW r \in requests, Answers(r)
  PROVE  IInv'
<1>1. RowInv'
  BY DEF Answers, IInv, RowInv
<1>2. OrderInv'
  BY DEF Answers, IInv, OrderInv, orderVars
<1> QED
  BY <1>1, <1>2, RowSteps DEF Answers

LEMMA OutsideSafe == ASSUME IInv, Outside PROVE IInv'
<1> DEFINE Sound == ServersInv' /\ SocketsInv' /\ StateInv' /\ DOMAIN sockets' = DOMAIN sockets
<1>1. UNCHANGED <<checkVars, rowVars, orderVars>>
  BY DEF Outside
<1>2. ASSUME NEW s \in Servers, ServiceChanges(s) PROVE Sound
  BY <1>2, ServiceChangesSafe DEF ServiceChanges, IInv, StateInv
<1>3. ASSUME NEW s \in Servers, BecomesReady(s) PROVE Sound
  BY <1>3, BecomesReadySafe DEF BecomesReady, IInv, StateInv
<1>4. ASSUME NEW g \in DOMAIN sockets, Greets(g) PROVE Sound
  BY <1>4, GreetsSafe DEF Greets, serverVars, IInv, ServersInv, StateInv
<1>5. ASSUME NEW g \in DOMAIN sockets, Opens(g) PROVE Sound
  BY <1>5, OpensSafe DEF Opens, serverVars, IInv, ServersInv, StateInv
<1>6. ASSUME NEW g \in DOMAIN sockets, Drops(g) \/ ClosedSocketEnds(g) PROVE Sound
  <2>1. status' \in Statuses
    BY <1>6 DEF Drops, ClosedSocketEnds, Statuses, IInv, StateInv
  <2> QED
    BY <1>6, <2>1, EndedSafe
    DEF Drops, ClosedSocketEnds, serverVars, IInv, ServersInv, StateInv
<1>7. Sound
  BY <1>2, <1>3, <1>4, <1>5, <1>6 DEF Outside
<1>8. RowInv'
  BY <1>1 DEF rowVars, IInv, RowInv
<1>9. CheckInv'
  BY <1>1, <1>7 DEF checkVars, IInv, CheckInv
<1>10. OrderInv'
  BY <1>1 DEF orderVars, IInv, OrderInv
<1> QED
  BY <1>7, <1>8, <1>9, <1>10 DEF IInv

-----------------------------------------------------------------------------
(* The invariant *)

LEMMA InitSafe == Init => IInv
<1> SUFFICES ASSUME Init PROVE IInv
  OBVIOUS
<1>1. ServersInv
  BY DesktopsAssumption, ServersAssumption, BoundsAssumption, DesktopReadable
  DEF Init, HookInit, ServersInv
<1>2. NewSocket(FirstServer, "connecting") \in SoundSockets
  BY ServersAssumption DEF NewSocket, SoundSockets, Life
<1> DEFINE x == NewSocket(FirstServer, "connecting")
<1>3. sockets = <<x>>
  BY DEF Init, HookInit
<1> HIDE DEF x
<1>4. SocketsInv /\ DOMAIN sockets = {1}
  BY <1>2, <1>3 DEF x, SocketsInv
<1>5. StateInv
  BY DEF Init, HookInit, StateInv, Statuses, emptyBackendState, SoundStates, BackendStates, Optional
<1>6. CheckInv
  BY <1>4 DEF Init, CheckInv, checkingHttpStatus, Optional
<1>7. draft \in Optional(Positions)
  BY DEF Init, Optional
<1>8. issued \in 0 .. MaxActions
  BY BoundsAssumption DEF Init
<1>9. RowInv
  BY <1>7, <1>8 DEF Init, RowInv
<1>10. OrderInv
  <2>1. <<>> \in Seq(Orders)
    OBVIOUS
  <2>2. orders \in [Servers -> Seq(Orders)]
    BY <2>1 DEF Init
  <2> QED
    BY <2>2 DEF Init, OrderInv
<1> QED
  BY <1>1, <1>4, <1>5, <1>6, <1>9, <1>10 DEF IInv

LEMMA StepSafe == IInv /\ [Next]_vars => IInv'
<1> SUFFICES ASSUME IInv, [Next]_vars PROVE IInv'
  OBVIOUS
<1>1. CASE UNCHANGED vars
  <2>1. UNCHANGED <<serverVars, hookVars, checkVars, rowVars, orderVars>>
    BY <1>1 DEF vars
  <2>2. RowInv' /\ OrderInv'
    BY <2>1 DEF rowVars, orderVars, IInv, RowInv, OrderInv
  <2> QED
    BY <2>1, <2>2, RowSteps
<1> QED
  BY <1>1, OutsideSafe, SaveSafe, CheckEndsSafe, ReceivesMessageSafe, DragSafe, FocusSafe,
     CommitVolumeSafe, ToggleMutedSafe, HandlesSafe, AnswersSafe, ShowsOrderSafe, GivesUpOrderSafe
  DEF Next

LEMMA Invariance == Spec => []IInv
BY InitSafe, StepSafe, PTL DEF Spec

(* The variables of hook and dashboard keep their types; in particular no  *)
(* slider, and no request, ever asks for more than 100% (percentValue,     *)
(* setVolume).                                                             *)
THEOREM TypeCorrect == Spec => []TypeOK
<1>1. IInv => TypeOK
  <2> SUFFICES ASSUME IInv PROVE TypeOK
    OBVIOUS
  <2>1. Seq(SoundMessages) \subseteq Seq(Messages)
    BY DEF SoundMessages
  <2>2. SoundSockets \subseteq WebSockets
    BY <2>1 DEF SoundSockets, WebSockets
  <2>3. sockets \in Seq(WebSockets) /\ sockets # <<>>
    BY <2>2 DEF IInv, SocketsInv
  <2>4. windows \in [Servers -> Snapshots]
    BY DEF IInv, ServersInv, ReadableSnapshots
  <2>5. state \in BackendStates
    BY DEF IInv, StateInv, SoundStates
  <2>6. HookTypeOK
    BY <2>3, <2>4, <2>5 DEF IInv, ServersInv, StateInv, HookTypeOK
  <2> QED
    BY <2>6 DEF IInv, CheckInv, RowInv, OrderInv, RequestRecords, TypeOK
<1> QED
  BY <1>1, Invariance, PTL

(* However KWin contradicts itself, between list and flags or between the  *)
(* list and what it says of a window afterwards, the taskbar the dashboard *)
(* shows has at most one active item, the active window (CurrentSnapshot,  *)
(* ApplyBackfill, normalizeWindowSnapshot, windowsForTaskbar).             *)
THEOREM OneActiveShown == Spec => []TaskbarHasOneActive
<1>1. IInv => TaskbarHasOneActive
  BY DEF IInv, StateInv, SoundStates, SoundJson, TaskbarHasOneActive
<1> QED
  BY <1>1, Invariance, PTL

-----------------------------------------------------------------------------
(* What the dashboard follows *)

(* The socket in use: what is known came from it, and with what is under   *)
(* way will be the state of its service, audio and window.                 *)
Follows(socket, known, a, w) ==
  /\ socket.life \in {"connecting", "open", "closed"}
  /\ ~socket.hasState => known = emptyBackendState
  /\ (socket.served \/ socket.wire # <<>>) => socket.greeted
  /\ socket.greeted => socket.life = "open"
  /\ (socket.life # "closed" /\ ~socket.greeted) => ~socket.hasState
  /\ \A i \in DOMAIN socket.wire :
       ~Carries(socket.wire[i]) => socket.wire[i].audio = {} /\ socket.wire[i].windowState = {}
  /\ socket.served => /\ ArrivesAt(known.audio, AudioParts(socket.wire), a)
                      /\ ArrivesAt(known.windowState, WindowParts(socket.wire), w)

UsesCurrent ==
  /\ \A g \in DOMAIN sockets : g # Current => sockets[g].life \notin {"connecting", "open"}
  /\ Follows(sockets[Current], state, audio[ConfiguredServer], ToJson(windows[ConfiguredServer]))
  /\ StreamQuiet => status # "connecting"

ChecksCurrent ==
  /\ httpStatus \subseteq {Current}
  /\ Current \in checks \/ httpStatus = {Current}

(* Nobody drags: the slider shows what it was last committed at, if it was *)
(* moved.                                                                  *)
Committed == ~focused \/ "volume" \in pending

(* What is asked for will clear the draft v, or set the sink to it; a is   *)
(* the audio state of the service.                                         *)
Reaches(asked, v, a) == asked.volume = {v} \/ \E on \in asked.muted : on # a.muted

(* The request will do that at service s, or fail.                         *)
Corrects(r, v, s, a) ==
  \/ r.stage = "refused"
  \/ r.stage = "sent" /\ r.server = s /\ Reaches(r, v, a)

(* An order will.                                                          *)
OrderCorrects(queue, v, a) == \E i \in DOMAIN queue : Reaches(queue[i], v, a)

AudioUnderWay(socket) == \E i \in DOMAIN socket.wire : socket.wire[i].audio # {}

(* A draft that was committed shows the volume, failed, is corrected, or   *)
(* what would have corrected it came to nothing.                           *)
Settled(v) ==
  \/ rowError
  \/ unseen
  \/ AudioUnderWay(sockets[Current])
  \/ v = audio[ConfiguredServer].volume
  \/ \E r \in requests : Corrects(r, v, ConfiguredServer, audio[ConfiguredServer])
  \/ OrderCorrects(orders[ConfiguredServer], v, audio[ConfiguredServer])

RowSettles ==
  /\ \A action \in pending : \E r \in requests : action = Action(r.volume)
  /\ ~HasRow => draft = {}
  /\ (sockets[Current].served /\ Committed) => \A v \in draft : Settled(v)

SInv == UsesCurrent /\ ChecksCurrent /\ RowSettles


-----------------------------------------------------------------------------
(* Parts of the state under way *)

LEMMA PartsOf ==
  ASSUME NEW wire \in Seq(SoundMessages)
  PROVE  /\ Len(wire) \in Nat
         /\ DOMAIN AudioParts(wire) = 1 .. Len(wire)
         /\ DOMAIN WindowParts(wire) = 1 .. Len(wire)
         /\ \A i \in 1 .. Len(wire) : /\ AudioParts(wire)[i] = wire[i].audio
                                      /\ WindowParts(wire)[i] = wire[i].windowState
  BY DEF AudioParts, WindowParts

(* A part of a new message is the last to arrive. *)
LEMMA LastArrives ==
  ASSUME NEW n \in Nat, NEW P, DOMAIN P = 1 .. n, NEW Q, DOMAIN Q = 1 .. n + 1,
         \A i \in 1 .. n : Q[i] = P[i], NEW shown, NEW a, NEW b,
         Q[n + 1] = {b} \/ (Q[n + 1] = {} /\ b = a /\ ArrivesAt(shown, P, a))
  PROVE  ArrivesAt(shown, Q, b)
<1>1. CASE Q[n + 1] = {b}
  <2>1. n + 1 \in DOMAIN Q /\ Q[n + 1] # {}
    BY <1>1
  <2>2. ASSUME NEW i \in DOMAIN Q, Q[i] # {}, \A j \in DOMAIN Q : j > i => Q[j] = {}
        PROVE  Q[i] = {b}
    <3>1. ~(n + 1 > i)
      BY <2>1, <2>2
    <3>2. i = n + 1
      BY <3>1
    <3> QED BY <1>1, <3>2
  <2> QED BY <2>1, <2>2 DEF ArrivesAt
<1>2. CASE Q[n + 1] = {} /\ b = a /\ ArrivesAt(shown, P, a)
  <2>1. ASSUME \A i \in DOMAIN Q : Q[i] = {} PROVE shown = {b}
    BY <1>2, <2>1 DEF ArrivesAt
  <2>2. ASSUME NEW i \in DOMAIN Q, Q[i] # {}, \A j \in DOMAIN Q : j > i => Q[j] = {}
        PROVE  Q[i] = {b}
    <3>1. i \in 1 .. n
      BY <1>2, <2>2
    <3>2. \A j \in DOMAIN P : j > i => P[j] = {}
      BY <2>2
    <3> QED
      BY <1>2, <2>2, <3>1, <3>2 DEF ArrivesAt
  <2> QED BY <2>1, <2>2 DEF ArrivesAt
<1> QED BY <1>1, <1>2

(* The first part arrives. *)
LEMMA FirstArrives ==
  ASSUME NEW n \in Nat, n > 0, NEW P, DOMAIN P = 1 .. n, NEW Q, DOMAIN Q = 1 .. n - 1,
         \A i \in 1 .. n - 1 : Q[i] = P[i + 1], NEW shown, NEW a, ArrivesAt(shown, P, a)
  PROVE  ArrivesAt(IF P[1] # {} THEN P[1] ELSE shown, Q, a)
<1> DEFINE now == IF P[1] # {} THEN P[1] ELSE shown
<1>1. ASSUME \A i \in DOMAIN Q : Q[i] = {} PROVE now = {a}
  <2>1. \A j \in 1 .. n : j > 1 => P[j] = {}
    <3> TAKE j \in 1 .. n
    <3> HAVE j > 1
    <3>1. j - 1 \in 1 .. n - 1 /\ (j - 1) + 1 = j
      OBVIOUS
    <3> QED BY <1>1, <3>1
  <2>2. CASE P[1] # {}
    BY <2>1, <2>2 DEF ArrivesAt
  <2>3. CASE P[1] = {}
    <3>1. \A j \in 1 .. n : P[j] = {}
      BY <2>1, <2>3
    <3> QED BY <2>3, <3>1 DEF ArrivesAt
  <2> QED BY <2>2, <2>3
<1>2. ASSUME NEW i \in DOMAIN Q, Q[i] # {}, \A j \in DOMAIN Q : j > i => Q[j] = {}
      PROVE  Q[i] = {a}
  <2>1. i + 1 \in 1 .. n /\ P[i + 1] # {} /\ P[i + 1] = Q[i]
    BY <1>2
  <2>2. \A j \in 1 .. n : j > i + 1 => P[j] = {}
    <3> TAKE j \in 1 .. n
    <3> HAVE j > i + 1
    <3>1. j - 1 \in 1 .. n - 1 /\ (j - 1) + 1 = j /\ j - 1 > i
      BY <1>2
    <3> QED BY <1>2, <3>1
  <2> QED BY <2>1, <2>2 DEF ArrivesAt
<1> HIDE DEF now
<1>3. ArrivesAt(now, Q, a)
  BY <1>1, <1>2 DEF ArrivesAt
<1> QED BY <1>3 DEF now

(* A message is sent to the socket in use, which may be the first one.     *)
LEMMA FollowsSent ==
  ASSUME NEW socket \in SoundSockets, NEW d, NEW known, NEW a, NEW w, NEW b, NEW v,
         Follows(socket, known, a, w), NEW m \in SoundMessages, Carries(m),
         d.life = socket.life, d.greeted = socket.greeted, d.hasState = socket.hasState,
         d.wire = Append(socket.wire, m),
         socket.greeted,
         d.served => m.audio = {b} \/ (m.audio = {} /\ b = a /\ socket.served),
         d.served => m.windowState = {v} \/ (m.windowState = {} /\ v = w /\ socket.served)
  PROVE  Follows(d, known, b, v)
<1> DEFINE n == Len(socket.wire)
           P == AudioParts(socket.wire)
           Q == AudioParts(d.wire)
           R == WindowParts(socket.wire)
           S == WindowParts(d.wire)
<1>1. socket.wire \in Seq(SoundMessages) /\ d.wire \in Seq(SoundMessages) /\ n \in Nat
      /\ Len(d.wire) = n + 1 /\ d.wire[n + 1] = m /\ DOMAIN d.wire = 1 .. n + 1
      /\ DOMAIN socket.wire = 1 .. n
      /\ \A i \in 1 .. n : d.wire[i] = socket.wire[i]
  BY DEF SoundSockets
<1> HIDE DEF n
<1>2. /\ DOMAIN P = 1 .. n /\ DOMAIN R = 1 .. n
      /\ \A i \in 1 .. n : P[i] = socket.wire[i].audio /\ R[i] = socket.wire[i].windowState
  BY <1>1, PartsOf DEF n
<1>3. /\ DOMAIN Q = 1 .. n + 1 /\ DOMAIN S = 1 .. n + 1
      /\ \A i \in 1 .. n + 1 : Q[i] = d.wire[i].audio /\ S[i] = d.wire[i].windowState
  BY <1>1, PartsOf
<1>4. socket.served => ArrivesAt(known.audio, P, a) /\ ArrivesAt(known.windowState, R, w)
  BY DEF Follows
<1> HIDE DEF P, Q, R, S
<1>5. d.served => ArrivesAt(known.audio, Q, b)
  <2>1. n + 1 \in 1 .. n + 1 /\ \A i \in 1 .. n : i \in 1 .. n + 1
    BY <1>1
  <2>2. Q[n + 1] = m.audio /\ \A i \in 1 .. n : Q[i] = P[i]
    BY <1>1, <1>2, <1>3, <2>1
  <2>3. (Q[n + 1] = {b} \/ (Q[n + 1] = {} /\ b = a /\ ArrivesAt(known.audio, P, a)))
          => ArrivesAt(known.audio, Q, b)
    BY <1>1, <1>2, <1>3, <2>2, LastArrives
  <2> QED
    BY <1>4, <2>2, <2>3
<1>6. d.served => ArrivesAt(known.windowState, S, v)
  <2>1. n + 1 \in 1 .. n + 1 /\ \A i \in 1 .. n : i \in 1 .. n + 1
    BY <1>1
  <2>2. S[n + 1] = m.windowState /\ \A i \in 1 .. n : S[i] = R[i]
    BY <1>1, <1>2, <1>3, <2>1
  <2>3. (S[n + 1] = {v} \/ (S[n + 1] = {} /\ v = w /\ ArrivesAt(known.windowState, R, w)))
          => ArrivesAt(known.windowState, S, v)
    BY <1>1, <1>2, <1>3, <2>2, LastArrives
  <2> QED
    BY <1>4, <2>2, <2>3
<1>7. \A i \in DOMAIN d.wire :
        ~Carries(d.wire[i]) => d.wire[i].audio = {} /\ d.wire[i].windowState = {}
  BY <1>1 DEF Follows
<1> QED
  BY <1>5, <1>6, <1>7 DEF Follows, Q, S

LEMMA UnderWayAppended ==
  ASSUME NEW socket \in SoundSockets, NEW d, NEW m \in SoundMessages,
         d.wire = Append(socket.wire, m)
  PROVE  /\ m.audio # {} => AudioUnderWay(d)
         /\ AudioUnderWay(socket) => AudioUnderWay(d)
<1> DEFINE n == Len(socket.wire)
<1>1. /\ n \in Nat /\ DOMAIN socket.wire = 1 .. n /\ DOMAIN d.wire = 1 .. n + 1
      /\ d.wire[n + 1] = m /\ \A i \in 1 .. n : d.wire[i] = socket.wire[i]
  BY DEF SoundSockets
<1> QED BY <1>1 DEF AudioUnderWay

(* The first message reaches the listener. *)
LEMMA FollowsRead ==
  ASSUME NEW socket \in SoundSockets, NEW known \in SoundStates, NEW a, NEW w,
         Follows(socket, known, a, w), socket.wire # <<>>, socket.life = "open",
         NEW now, now = IF Carries(Head(socket.wire))
                        THEN ApplyBackendMessage(known, Head(socket.wire)) ELSE known
  PROVE  Follows(ReadBy(socket), now, a, w)
<1> DEFINE n == Len(socket.wire)
           d == ReadBy(socket)
           m == Head(socket.wire)
           P == AudioParts(socket.wire)
           Q == AudioParts(d.wire)
           R == WindowParts(socket.wire)
           S == WindowParts(d.wire)
<1>1. /\ d.wire = Tail(socket.wire) /\ d.life = socket.life /\ d.greeted = socket.greeted
      /\ d.served = socket.served /\ (d.hasState <=> socket.hasState \/ Carries(m))
  BY DEF ReadBy, SoundSockets
<1> HIDE DEF d
<1>2. socket.wire \in Seq(SoundMessages) /\ d.wire \in Seq(SoundMessages) /\ n \in Nat /\ n > 0
      /\ Len(d.wire) = n - 1 /\ m = socket.wire[1] /\ DOMAIN d.wire = 1 .. n - 1
      /\ DOMAIN socket.wire = 1 .. n /\ m \in SoundMessages
      /\ \A i \in 1 .. n - 1 : d.wire[i] = socket.wire[i + 1]
  BY <1>1 DEF SoundSockets
<1> HIDE DEF n, m
<1>3. /\ DOMAIN P = 1 .. n /\ DOMAIN R = 1 .. n
      /\ \A i \in 1 .. n : P[i] = socket.wire[i].audio /\ R[i] = socket.wire[i].windowState
  BY <1>2, PartsOf DEF n
<1>4. /\ DOMAIN Q = 1 .. n - 1 /\ DOMAIN S = 1 .. n - 1
      /\ \A i \in 1 .. n - 1 : Q[i] = d.wire[i].audio /\ S[i] = d.wire[i].windowState
  BY <1>2, PartsOf
<1>5. socket.served => ArrivesAt(known.audio, P, a) /\ ArrivesAt(known.windowState, R, w)
  BY DEF Follows
<1>6. ~Carries(m) => m.audio = {} /\ m.windowState = {}
  BY <1>2 DEF Follows
<1>7. /\ now.audio = IF m.audio # {} THEN m.audio ELSE known.audio
      /\ now.windowState = IF m.windowState # {} THEN m.windowState ELSE known.windowState
  BY <1>6 DEF ApplyBackendMessage, m
<1>8. ~d.hasState => now = emptyBackendState
  BY <1>1 DEF Follows, m
<1> HIDE DEF P, Q, R, S
<1>9. d.served => ArrivesAt(now.audio, Q, a)
  <2>1. P[1] = m.audio /\ \A i \in 1 .. n - 1 : Q[i] = P[i + 1]
    <3>1. 1 \in 1 .. n /\ \A i \in 1 .. n - 1 : i + 1 \in 1 .. n
      BY <1>2
    <3>2. P[1] = m.audio
      BY <1>2, <1>3, <3>1
    <3>3. ASSUME NEW i \in 1 .. n - 1 PROVE Q[i] = P[i + 1]
      BY <1>2, <1>3, <1>4, <3>1
    <3> QED BY <3>2, <3>3
  <2>2. ArrivesAt(known.audio, P, a) => ArrivesAt(IF P[1] # {} THEN P[1] ELSE known.audio, Q, a)
    BY <1>2, <1>3, <1>4, <2>1, FirstArrives
  <2> QED
    BY <1>1, <1>5, <1>7, <2>1, <2>2
<1>10. d.served => ArrivesAt(now.windowState, S, w)
  <2>1. R[1] = m.windowState /\ \A i \in 1 .. n - 1 : S[i] = R[i + 1]
    <3>1. 1 \in 1 .. n /\ \A i \in 1 .. n - 1 : i + 1 \in 1 .. n
      BY <1>2
    <3>2. R[1] = m.windowState
      BY <1>2, <1>3, <3>1
    <3>3. ASSUME NEW i \in 1 .. n - 1 PROVE S[i] = R[i + 1]
      BY <1>2, <1>3, <1>4, <3>1
    <3> QED BY <3>2, <3>3
  <2>2. ArrivesAt(known.windowState, R, w)
          => ArrivesAt(IF R[1] # {} THEN R[1] ELSE known.windowState, S, w)
    BY <1>2, <1>3, <1>4, <2>1, FirstArrives
  <2> QED
    BY <1>1, <1>5, <1>7, <2>1, <2>2
<1>11. \A i \in DOMAIN d.wire :
         ~Carries(d.wire[i]) => d.wire[i].audio = {} /\ d.wire[i].windowState = {}
  <2> TAKE i \in DOMAIN d.wire
  <2>1. i + 1 \in 1 .. n /\ d.wire[i] = socket.wire[i + 1]
    BY <1>2
  <2> QED BY <1>2, <2>1 DEF Follows
<1>12. socket.greeted
  BY DEF Follows
<1>13. Follows(d, now, a, w)
  BY <1>1, <1>8, <1>9, <1>10, <1>11, <1>12 DEF Follows, Q, S
<1> QED BY <1>13 DEF d


-----------------------------------------------------------------------------
(* The socket in use, step by step *)

LEMMA NotServed ==
  ASSUME NEW socket, NEW known, NEW a, NEW w, Follows(socket, known, a, w), ~socket.served,
         NEW b, NEW v
  PROVE  Follows(socket, known, b, v)
  BY DEF Follows

LEMMA CurrentKept ==
  ASSUME IInv, IInv', DOMAIN sockets' = DOMAIN sockets
  PROVE  Current' = Current /\ Current \in DOMAIN sockets
  BY DEF IInv, SocketsInv, Current

(* What is left to show of a step that creates no socket. *)
LEMMA StillUses ==
  ASSUME IInv, IInv', UsesCurrent, DOMAIN sockets' = DOMAIN sockets,
         sockets'[Current].server = ConfiguredServer,
         \A g \in DOMAIN sockets : g # Current => sockets'[g].life \notin {"connecting", "open"},
         Follows(sockets'[Current], state', audio'[ConfiguredServer],
                 ToJson(windows'[ConfiguredServer])),
         StreamQuiet' => status' # "connecting"
  PROVE  UsesCurrent' /\ Current' = Current /\ ConfiguredServer' = ConfiguredServer
<1>1. Current' = Current /\ ConfiguredServer' = sockets'[Current].server
  BY CurrentKept DEF ConfiguredServer
<1> QED BY <1>1 DEF UsesCurrent

(* The row is left alone, and the socket in use does not lose what clears  *)
(* its draft.                                                              *)
LEMMA RowStays ==
  ASSUME RowSettles, UNCHANGED <<rowVars, orderVars, state>>, Current' = Current,
         ConfiguredServer' = ConfiguredServer,
         sockets'[Current].served =>
           \/ ~HasRow
           \/ AudioUnderWay(sockets'[Current])
           \/ /\ sockets[Current].served
              /\ audio'[ConfiguredServer] = audio[ConfiguredServer]
              /\ AudioUnderWay(sockets[Current]) => AudioUnderWay(sockets'[Current])
  PROVE  RowSettles'
<1>1. /\ draft' = draft /\ focused' = focused /\ pending' = pending /\ rowError' = rowError
      /\ requests' = requests /\ orders' = orders /\ unseen' = unseen
      /\ (HasRow' <=> HasRow) /\ (Committed' <=> Committed)
  BY DEF rowVars, orderVars, HasRow, Committed
<1>2. ASSUME sockets'[Current].served, Committed, NEW v \in draft
      PROVE  Settled(v)'
  <2>1. CASE AudioUnderWay(sockets'[Current])
    BY <2>1 DEF Settled
  <2>2. CASE /\ sockets[Current].served /\ ~AudioUnderWay(sockets[Current])
             /\ audio'[ConfiguredServer] = audio[ConfiguredServer]
    <3>1. Settled(v)
      BY <1>2, <2>2 DEF RowSettles
    <3> QED BY <1>1, <2>2, <3>1 DEF Settled
  <2> QED
    BY <1>2, <2>1, <2>2 DEF RowSettles
<1> QED BY <1>1, <1>2 DEF RowSettles

(* What a service sends to all of its clients reaches the socket in use.   *)
LEMMA BroadcastFollows ==
  ASSUME IInv, UsesCurrent, NEW s \in Servers, NEW m \in SoundMessages, Carries(m),
         sockets' = Broadcast(s, m), NEW b, NEW v,
         ConfiguredServer = s => m.audio = {b} \/ (m.audio = {} /\ b = audio[s]),
         ConfiguredServer = s => m.windowState = {v} \/ (m.windowState = {} /\ v = ToJson(windows[s])),
         ConfiguredServer # s => b = audio[ConfiguredServer] /\ v = ToJson(windows[ConfiguredServer])
  PROVE  /\ Follows(sockets'[Current], state, b, v)
         /\ sockets'[Current].served = sockets[Current].served
         /\ \A g \in DOMAIN sockets : /\ sockets'[g].life = sockets[g].life
                                      /\ sockets'[g].server = sockets[g].server
         /\ sockets'[Current].greeted = sockets[Current].greeted
         /\ sockets'[Current].wire = <<>> => sockets[Current].wire = <<>>
         /\ AudioUnderWay(sockets[Current]) => AudioUnderWay(sockets'[Current])
         /\ (sockets[Current].served /\ ConfiguredServer = s /\ m.audio # {})
              => AudioUnderWay(sockets'[Current])
<1> DEFINE c == sockets[Current]
           d == sockets'[Current]
<1>1. Current \in DOMAIN sockets /\ c \in SoundSockets /\ ConfiguredServer = c.server
  BY CurrentListed, SocketAt DEF IInv, ConfiguredServer
<1>2. \A g \in DOMAIN sockets : /\ sockets'[g].life = sockets[g].life
                                /\ sockets'[g].server = sockets[g].server
  BY SocketAt DEF IInv, Broadcast, SoundSockets
<1>3. Follows(c, state, audio[ConfiguredServer], ToJson(windows[ConfiguredServer]))
  BY DEF UsesCurrent
<1>4. CASE ConfiguredServer = s /\ c.served
  <2>1. d = [c EXCEPT !.wire = Append(@, m)]
    BY <1>1, <1>4 DEF Broadcast
  <2>2. /\ d.life = c.life /\ d.greeted = c.greeted /\ d.served = c.served
        /\ d.hasState = c.hasState /\ d.wire = Append(c.wire, m)
    BY <1>1, <2>1 DEF SoundSockets
  <2> HIDE DEF c, d
  <2>3. c.greeted
    BY <1>3, <1>4 DEF Follows
  <2>4. /\ m.audio = {b} \/ (m.audio = {} /\ b = audio[ConfiguredServer] /\ c.served)
        /\ \/ m.windowState = {v}
           \/ m.windowState = {} /\ v = ToJson(windows[ConfiguredServer]) /\ c.served
    BY <1>4
  <2>5. /\ Follows(d, state, b, v)
        /\ m.audio # {} => AudioUnderWay(d)
        /\ AudioUnderWay(c) => AudioUnderWay(d)
    <3> DEFINE a == audio[ConfiguredServer]
               w == ToJson(windows[ConfiguredServer])
    <3>1. Follows(c, state, a, w)
      BY <1>3
    <3>2. /\ d.served => m.audio = {b} \/ (m.audio = {} /\ b = a /\ c.served)
          /\ d.served => m.windowState = {v} \/ (m.windowState = {} /\ v = w /\ c.served)
      BY <2>4
    <3> HIDE DEF a, w
    <3>3. Follows(d, state, b, v)
      BY <1>1, <2>2, <2>3, <3>1, <3>2, FollowsSent
    <3> QED BY <1>1, <2>2, <3>3, UnderWayAppended
  <2>6. d.wire # <<>>
    <3>1. c.wire \in Seq(SoundMessages)
      BY <1>1 DEF SoundSockets
    <3> QED BY <2>2, <3>1
  <2> QED BY <1>2, <2>2, <2>5, <2>6 DEF c, d
<1>5. CASE ~(ConfiguredServer = s /\ c.served)
  <2>1. d = c
    BY <1>1, <1>5 DEF Broadcast
  <2>2. Follows(d, state, b, v)
    BY <1>3, <1>5, <2>1, NotServed
  <2> QED BY <1>2, <1>5, <2>1, <2>2
<1> QED BY <1>4, <1>5


-----------------------------------------------------------------------------
(* The steps of services and sockets keep what the dashboard follows *)

LEMMA ChecksStay ==
  ASSUME ChecksCurrent, UNCHANGED checkVars, Current' = Current
  PROVE  ChecksCurrent'
  BY DEF ChecksCurrent, checkVars

LEMMA OthersClosed ==
  ASSUME UsesCurrent, \A g \in DOMAIN sockets : sockets'[g].life = sockets[g].life
  PROVE  \A g \in DOMAIN sockets : g # Current => sockets'[g].life \notin {"connecting", "open"}
  BY DEF UsesCurrent

(* A service sends a message to its clients, and the row is left alone or  *)
(* not: what the socket in use makes of it.                                *)
LEMMA BroadcastUsed ==
  ASSUME IInv, IInv', UsesCurrent, NEW s \in Servers, NEW m \in SoundMessages, Carries(m),
         sockets' = Broadcast(s, m), DOMAIN sockets' = DOMAIN sockets, UNCHANGED <<state, status>>,
         m.audio = {audio'[s]} \/ (m.audio = {} /\ audio'[s] = audio[s]),
         m.windowState = {ToJson(windows'[s])}
           \/ (m.windowState = {} /\ windows'[s] = windows[s]),
         \A t \in Servers \ {s} : audio'[t] = audio[t] /\ windows'[t] = windows[t]
  PROVE  /\ UsesCurrent' /\ Current' = Current /\ ConfiguredServer' = ConfiguredServer
         /\ sockets'[Current].served = sockets[Current].served
         /\ AudioUnderWay(sockets[Current]) => AudioUnderWay(sockets'[Current])
         /\ (sockets[Current].served /\ ConfiguredServer = s /\ m.audio # {})
              => AudioUnderWay(sockets'[Current])
<1> DEFINE b == audio'[ConfiguredServer]
           v == ToJson(windows'[ConfiguredServer])
<1>1. Current \in DOMAIN sockets /\ Current' = Current /\ ConfiguredServer \in Servers
  BY CurrentKept, CurrentListed DEF IInv
<1>2. /\ ConfiguredServer = s => m.audio = {b} \/ (m.audio = {} /\ b = audio[s])
      /\ ConfiguredServer = s =>
           m.windowState = {v} \/ (m.windowState = {} /\ v = ToJson(windows[s]))
      /\ ConfiguredServer # s =>
           b = audio[ConfiguredServer] /\ v = ToJson(windows[ConfiguredServer])
  BY <1>1
<1> HIDE DEF b, v
<1>3. /\ Follows(sockets'[Current], state, b, v)
      /\ sockets'[Current].served = sockets[Current].served
      /\ \A g \in DOMAIN sockets : /\ sockets'[g].life = sockets[g].life
                                   /\ sockets'[g].server = sockets[g].server
      /\ sockets'[Current].greeted = sockets[Current].greeted
      /\ sockets'[Current].wire = <<>> => sockets[Current].wire = <<>>
      /\ AudioUnderWay(sockets[Current]) => AudioUnderWay(sockets'[Current])
      /\ (sockets[Current].served /\ ConfiguredServer = s /\ m.audio # {})
           => AudioUnderWay(sockets'[Current])
  BY <1>2, BroadcastFollows
<1>4. StreamQuiet' => status' # "connecting"
  BY <1>1, <1>3 DEF StreamQuiet, UsesCurrent
<1>5. sockets'[Current].server = ConfiguredServer
  BY <1>1, <1>3 DEF ConfiguredServer
<1>6. UsesCurrent' /\ ConfiguredServer' = ConfiguredServer
  BY <1>3, <1>4, <1>5, OthersClosed, StillUses DEF b, v
<1> QED BY <1>1, <1>3, <1>6

LEMMA ServiceChangesSettles ==
  ASSUME IInv, IInv', SInv, NEW s \in Servers, ServiceChanges(s),
         DOMAIN sockets' = DOMAIN sockets, UNCHANGED <<checkVars, rowVars, orderVars>>
  PROVE  SInv'
<1>1. UsesCurrent /\ ChecksCurrent /\ RowSettles
  BY DEF SInv
<1>2. UNCHANGED <<state, status>> /\ ConfiguredServer \in Servers
  BY CurrentListed DEF ServiceChanges, IInv
<1>3. ASSUME NEW a \in AudioStates, a # audio[s], audio' = [audio EXCEPT ![s] = a],
             BroadcastAudio(s, a), UNCHANGED windows
      PROVE  SInv'
  <2> DEFINE m == [type |-> "patch", audio |-> {a}, windowState |-> {}]
  <2>1. m \in SoundMessages /\ Carries(m) /\ m.audio = {a} /\ m.windowState = {}
    BY PatchesSound DEF Carries
  <2>2. sockets' = Broadcast(s, m)
    BY <1>3 DEF BroadcastAudio
  <2>3. audio'[s] = a /\ \A t \in Servers \ {s} : audio'[t] = audio[t]
    BY <1>3 DEF IInv, ServersInv
  <2> HIDE DEF m
  <2>4. /\ UsesCurrent' /\ Current' = Current /\ ConfiguredServer' = ConfiguredServer
        /\ sockets'[Current].served = sockets[Current].served
        /\ AudioUnderWay(sockets[Current]) => AudioUnderWay(sockets'[Current])
        /\ (sockets[Current].served /\ ConfiguredServer = s) => AudioUnderWay(sockets'[Current])
    BY <1>1, <1>2, <1>3, <2>1, <2>2, <2>3, BroadcastUsed
  <2>5. RowSettles'
    BY <1>1, <1>2, <2>3, <2>4, RowStays
  <2> QED BY <1>1, <2>4, <2>5, ChecksStay DEF SInv
<1>4. ASSUME NEW d \in Desktops, NEW w \in Readings[d], windows' = [windows EXCEPT ![s] = w],
             sockets' = Broadcast(s, [type |-> "patch", audio |-> {}, windowState |-> {ToJson(w)}]),
             UNCHANGED audio
      PROVE  SInv'
  <2> DEFINE m == [type |-> "patch", audio |-> {}, windowState |-> {ToJson(w)}]
  <2>1. w \in ReadableSnapshots
    BY DesktopReadable
  <2>2. m \in SoundMessages /\ Carries(m) /\ m.audio = {} /\ m.windowState = {ToJson(w)}
    BY <2>1, PatchesSound DEF Carries
  <2>3. windows'[s] = w /\ \A t \in Servers \ {s} : windows'[t] = windows[t]
    BY <1>4 DEF IInv, ServersInv
  <2>4. sockets' = Broadcast(s, m)
    BY <1>4
  <2> HIDE DEF m
  <2>5. /\ UsesCurrent' /\ Current' = Current /\ ConfiguredServer' = ConfiguredServer
        /\ sockets'[Current].served = sockets[Current].served
        /\ AudioUnderWay(sockets[Current]) => AudioUnderWay(sockets'[Current])
    BY <1>1, <1>2, <1>4, <2>2, <2>3, <2>4, BroadcastUsed
  <2>6. RowSettles'
    BY <1>1, <1>2, <1>4, <2>5, RowStays
  <2> QED BY <1>1, <2>5, <2>6, ChecksStay DEF SInv
<1>5. \A a \in AudioStates :
        (a.volume # audio[s].volume) # (a.muted # audio[s].muted) => a # audio[s]
  OBVIOUS
<1> QED
  BY <1>3, <1>4, <1>5 DEF ServiceChanges


LEMMA BecomesReadySettles ==
  ASSUME IInv, IInv', SInv, NEW s \in Servers, BecomesReady(s),
         DOMAIN sockets' = DOMAIN sockets, UNCHANGED <<checkVars, rowVars, orderVars>>
  PROVE  SInv'
<1> DEFINE c == sockets[Current]
           d == sockets'[Current]
           a == audio[ConfiguredServer]
           w == ToJson(windows[ConfiguredServer])
           m == FullState(s)
<1>1. UsesCurrent /\ ChecksCurrent /\ RowSettles /\ Follows(c, state, a, w)
  BY DEF SInv, UsesCurrent
<1>2. /\ UNCHANGED <<audio, windows, state, status>>
      /\ Current \in DOMAIN sockets /\ Current' = Current /\ c \in SoundSockets
      /\ ConfiguredServer \in Servers /\ ConfiguredServer = c.server
  BY CurrentKept, CurrentListed, SocketAt DEF BecomesReady, IInv, ConfiguredServer
<1>3. \A g \in DOMAIN sockets : sockets'[g].life = sockets[g].life
                                /\ sockets'[g].server = sockets[g].server
  BY SocketAt DEF IInv, BecomesReady, SoundSockets
<1>4. m \in SoundMessages /\ Carries(m)
  BY FullStateSound DEF IInv, FullState, Carries
<1>5. /\ Follows(d, state, a, w)
      /\ d.served => AudioUnderWay(d) \/ (c.served /\ AudioUnderWay(c) => AudioUnderWay(d))
      /\ d.greeted = c.greeted /\ (d.wire = <<>> => c.wire = <<>>)
      /\ d.served => AudioUnderWay(d) \/ d = c
  <2>1. CASE ConfiguredServer = s /\ c.greeted
    <3>1. d = [c EXCEPT !.served = TRUE, !.wire = Append(@, m)]
      BY <1>2, <2>1 DEF BecomesReady
    <3>2. /\ d.life = c.life /\ d.greeted = c.greeted
          /\ d.hasState = c.hasState /\ d.wire = Append(c.wire, m)
      BY <1>2, <3>1 DEF SoundSockets
    <3>3. m.audio = {a} /\ m.windowState = {w}
      BY <2>1 DEF FullState
    <3>4. c.wire \in Seq(SoundMessages)
      BY <1>2 DEF SoundSockets
    <3> HIDE DEF c, d, m, a, w
    <3>5. Follows(d, state, a, w)
      BY <1>1, <1>2, <1>4, <2>1, <3>2, <3>3, FollowsSent
    <3>6. AudioUnderWay(d)
      BY <1>2, <1>4, <3>2, <3>3, UnderWayAppended
    <3>7. Append(c.wire, m) # <<>>
      BY <3>4
    <3> QED BY <3>2, <3>5, <3>6, <3>7
  <2>2. CASE ~(ConfiguredServer = s /\ c.greeted)
    <3>1. d = c
      BY <1>2, <2>2 DEF BecomesReady
    <3> QED BY <1>1, <3>1
  <2> QED BY <2>1, <2>2
<1>6. StreamQuiet' => status' # "connecting"
  BY <1>1, <1>2, <1>3, <1>5 DEF StreamQuiet, UsesCurrent
<1>7. /\ Follows(d, state', audio'[ConfiguredServer], ToJson(windows'[ConfiguredServer]))
      /\ d.server = ConfiguredServer
  BY <1>2, <1>3, <1>5
<1>8. UsesCurrent' /\ ConfiguredServer' = ConfiguredServer
  BY <1>1, <1>3, <1>6, <1>7, OthersClosed, StillUses
<1>9. RowSettles'
  BY <1>1, <1>2, <1>5, <1>8, RowStays
<1> QED BY <1>1, <1>2, <1>8, <1>9, ChecksStay DEF SInv

(* A step of one socket that is not in use any more.                       *)
LEMMA OtherSocketSettles ==
  ASSUME IInv, IInv', SInv, NEW g \in DOMAIN sockets, g # Current, NEW x,
         sockets' = [sockets EXCEPT ![g] = x], x.life \notin {"connecting", "open"},
         UNCHANGED <<serverVars, state, checkVars, rowVars, orderVars>>,
         status' = status \/ status' = "error"
  PROVE  SInv'
<1>1. UsesCurrent /\ ChecksCurrent /\ RowSettles
  BY DEF SInv
<1>2. /\ DOMAIN sockets' = DOMAIN sockets /\ sockets'[Current] = sockets[Current]
      /\ sockets'[g] = x /\ \A h \in DOMAIN sockets : h # g => sockets'[h] = sockets[h]
  OBVIOUS
<1>3. UNCHANGED <<audio, windows>> /\ Current' = Current
  BY <1>2, CurrentKept DEF serverVars
<1>4. \A h \in DOMAIN sockets : h # Current => sockets'[h].life \notin {"connecting", "open"}
  BY <1>1, <1>2 DEF UsesCurrent
<1>5. Follows(sockets'[Current], state', audio'[ConfiguredServer], ToJson(windows'[ConfiguredServer]))
  BY <1>1, <1>2, <1>3 DEF UsesCurrent
<1>6. StreamQuiet' => status' # "connecting"
  BY <1>1, <1>2, <1>3 DEF UsesCurrent, StreamQuiet
<1>7. UsesCurrent' /\ ConfiguredServer' = ConfiguredServer
  BY <1>1, <1>2, <1>4, <1>5, <1>6, StillUses DEF ConfiguredServer
<1>8. RowSettles'
  BY <1>1, <1>2, <1>3, <1>7, RowStays
<1> QED BY <1>1, <1>3, <1>7, <1>8, ChecksStay DEF SInv

(* A step of the socket in use, which the row hears nothing of.            *)
LEMMA CurrentSocketSettles ==
  ASSUME IInv, IInv', SInv, NEW x, sockets' = [sockets EXCEPT ![Current] = x],
         UNCHANGED <<serverVars, state, checkVars, rowVars, orderVars>>,
         x.server = ConfiguredServer,
         Follows(x, state, audio[ConfiguredServer], ToJson(windows[ConfiguredServer])),
         x.served => ~HasRow,
         StreamQuiet' => status' # "connecting"
  PROVE  SInv'
<1>1. UsesCurrent /\ ChecksCurrent /\ RowSettles
  BY DEF SInv
<1>2. /\ Current \in DOMAIN sockets /\ DOMAIN sockets' = DOMAIN sockets
      /\ sockets'[Current] = x /\ \A h \in DOMAIN sockets : h # Current => sockets'[h] = sockets[h]
  BY CurrentListed DEF IInv
<1>3. UNCHANGED <<audio, windows>> /\ Current' = Current
  BY <1>2, CurrentKept DEF serverVars
<1>4. \A h \in DOMAIN sockets : h # Current => sockets'[h].life \notin {"connecting", "open"}
  BY <1>1, <1>2 DEF UsesCurrent
<1>5. Follows(sockets'[Current], state', audio'[ConfiguredServer], ToJson(windows'[ConfiguredServer]))
  BY <1>2, <1>3
<1>6. UsesCurrent' /\ ConfiguredServer' = ConfiguredServer
  BY <1>1, <1>2, <1>4, <1>5, StillUses
<1>7. RowSettles'
  BY <1>1, <1>2, <1>3, <1>6, RowStays
<1> QED BY <1>1, <1>3, <1>6, <1>7, ChecksStay DEF SInv

LEMMA GreetsSettles ==
  ASSUME IInv, IInv', SInv, NEW g \in DOMAIN sockets, Greets(g), UNCHANGED <<checkVars, rowVars, orderVars>>
  PROVE  SInv'
<1> DEFINE c == sockets[g]
           s == c.server
           reply == IF s \in ready THEN FullState(s) ELSE NotReady
           x == [c EXCEPT !.greeted = TRUE, !.served = s \in ready, !.wire = <<reply>>]
<1>1. g = Current /\ c.life = "open" /\ ~c.greeted /\ s = ConfiguredServer
  BY DEF Greets, SInv, UsesCurrent, ConfiguredServer
<1>2. c \in SoundSockets /\ Follows(c, state, audio[s], ToJson(windows[s]))
  BY <1>1, SocketAt DEF IInv, SInv, UsesCurrent
<1>3. sockets' = [sockets EXCEPT ![g] = x] /\ UNCHANGED <<serverVars, state, status>>
  BY DEF Greets
<1>4. ~c.hasState /\ state = emptyBackendState
  BY <1>1, <1>2 DEF Follows
<1>5. /\ x.server = s /\ x.life = "open" /\ x.greeted /\ x.hasState = c.hasState
      /\ (x.served <=> s \in ready) /\ x.wire = <<reply>>
  BY <1>1, <1>2 DEF SoundSockets
<1> HIDE DEF x
<1>6. x.wire # <<>> /\ DOMAIN x.wire = 1 .. 1 /\ x.wire[1] = reply
  BY <1>5
<1>7. Follows(x, state, audio[s], ToJson(windows[s]))
  <2>1. ~Carries(reply) => reply.audio = {} /\ reply.windowState = {}
    BY DEF FullState, NotReady, Carries
  <2>2. x.served => reply.audio = {audio[s]} /\ reply.windowState = {ToJson(windows[s])}
    BY <1>5 DEF FullState
  <2>3. /\ DOMAIN AudioParts(x.wire) = 1 .. 1 /\ AudioParts(x.wire)[1] = reply.audio
        /\ DOMAIN WindowParts(x.wire) = 1 .. 1 /\ WindowParts(x.wire)[1] = reply.windowState
    BY <1>6 DEF AudioParts, WindowParts
  <2>4. x.served => /\ ArrivesAt(state.audio, AudioParts(x.wire), audio[s])
                    /\ ArrivesAt(state.windowState, WindowParts(x.wire), ToJson(windows[s]))
    BY <2>2, <2>3 DEF ArrivesAt
  <2> HIDE DEF reply
  <2> QED BY <1>4, <1>5, <1>6, <2>1, <2>4 DEF Follows
<1>8. ~HasRow
  BY <1>4 DEF HasRow, emptyBackendState
<1>9. StreamQuiet' => status' # "connecting"
  <2>1. Current' = Current /\ sockets'[Current] = x
    BY <1>1, <1>3, CurrentKept
  <2> QED BY <1>5, <1>6, <2>1 DEF StreamQuiet
<1> QED BY <1>1, <1>3, <1>5, <1>7, <1>8, <1>9, CurrentSocketSettles

LEMMA OpensSettles ==
  ASSUME IInv, IInv', SInv, NEW g \in DOMAIN sockets, Opens(g), UNCHANGED <<checkVars, rowVars, orderVars>>
  PROVE  SInv'
<1> DEFINE c == sockets[g]
           s == c.server
           x == [c EXCEPT !.life = "open"]
<1>1. g = Current /\ c.life = "connecting" /\ s = ConfiguredServer
  BY DEF Opens, SInv, UsesCurrent, ConfiguredServer
<1>2. c \in SoundSockets /\ Follows(c, state, audio[s], ToJson(windows[s]))
  BY <1>1, SocketAt DEF IInv, SInv, UsesCurrent
<1>3. sockets' = [sockets EXCEPT ![g] = x] /\ UNCHANGED <<serverVars, state, status>>
  BY DEF Opens
<1>4. /\ x.server = s /\ x.life = "open" /\ x.greeted = c.greeted /\ x.hasState = c.hasState
      /\ x.served = c.served /\ x.wire = c.wire
  BY <1>2 DEF SoundSockets
<1> HIDE DEF x
<1>5. ~c.greeted /\ ~c.served /\ ~c.hasState
  BY <1>1, <1>2 DEF Follows
<1>6. Follows(x, state, audio[s], ToJson(windows[s]))
  BY <1>2, <1>4, <1>5 DEF Follows
<1>7. StreamQuiet' => status' # "connecting"
  <2>1. Current' = Current /\ sockets'[Current] = x
    BY <1>1, <1>3, CurrentKept
  <2> QED BY <1>4, <1>5, <2>1 DEF StreamQuiet
<1> QED BY <1>1, <1>3, <1>4, <1>5, <1>6, <1>7, CurrentSocketSettles

LEMMA EndsSettles ==
  ASSUME IInv, IInv', SInv, NEW g \in DOMAIN sockets, Drops(g) \/ ClosedSocketEnds(g),
         UNCHANGED <<checkVars, rowVars, orderVars>>
  PROVE  SInv'
<1> DEFINE c == sockets[g]
           x == Ended(c)
<1>1. /\ sockets' = [sockets EXCEPT ![g] = x]
      /\ UNCHANGED <<serverVars, state>>
  BY DEF Drops, ClosedSocketEnds
<1>2. /\ x.server = c.server /\ x.life = "closed" /\ x.greeted = FALSE /\ x.served = FALSE
      /\ x.wire = <<>> /\ x.hasState = c.hasState
  BY DEF Ended
<1> HIDE DEF x
<1>3. CASE g = Current
  <2>1. /\ c.server = ConfiguredServer
        /\ Follows(c, state, audio[ConfiguredServer], ToJson(windows[ConfiguredServer]))
    BY <1>3 DEF SInv, UsesCurrent, ConfiguredServer
  <2>2. Drops(g)
    BY <1>3, <2>1 DEF ClosedSocketEnds, Follows
  <2>3. Follows(x, state, audio[ConfiguredServer], ToJson(windows[ConfiguredServer]))
    BY <1>2, <2>1 DEF Follows
  <2>4. status' # "connecting"
    BY <2>2 DEF Drops
  <2> QED BY <1>1, <1>2, <1>3, <2>1, <2>3, <2>4, CurrentSocketSettles
<1>4. CASE g # Current
  <2>1. status' = status \/ status' = "error"
    BY <1>4 DEF Drops, ClosedSocketEnds
  <2> QED BY <1>1, <1>2, <1>4, <2>1, OtherSocketSettles
<1> QED BY <1>3, <1>4


-----------------------------------------------------------------------------
(* The steps of the dashboard keep what it follows *)

LEMMA SaveSettles ==
  ASSUME IInv, IInv', SInv, NEW server \in Servers, Save(server)
  PROVE  SInv'
<1> DEFINE x == CloseSocket(sockets[Current])
           closed == [sockets EXCEPT ![Current] = x]
<1>1. Current \in DOMAIN sockets /\ Current \in Nat /\ DOMAIN sockets = 1 .. Current
      /\ sockets \in Seq(SoundSockets) /\ sockets[Current] \in SoundSockets
  BY CurrentListed, SocketAt DEF IInv, SocketsInv, Current
<1>2. UsesCurrent /\ ChecksCurrent /\ RowSettles
  BY DEF SInv
<1>3. PICK life \in {"connecting", "closed"} :
        /\ sockets' = Append(closed, NewSocket(server, life))
        /\ status' = IF life = "connecting" THEN "connecting" ELSE "error"
  BY DEF Save, RunEffect
<1>4. /\ state' = emptyBackendState /\ httpStatus' = {} /\ checks' = checks \cup {Current + 1}
      /\ draft' = (IF HasRow THEN {} ELSE draft)
      /\ UNCHANGED <<serverVars, focused, pending, rowError, requests>>
  BY DEF Save, RunEffect, checkingHttpStatus
<1> DEFINE new == NewSocket(server, life)
<1>5. /\ new.server = server /\ new.life = life /\ new.greeted = FALSE /\ new.served = FALSE
      /\ new.wire = <<>> /\ new.hasState = FALSE
  BY DEF NewSocket
<1>6. x.life \notin {"connecting", "open"} /\ x \in SoundSockets
  <2>1. sockets[Current].life \in {"connecting", "open", "closed"}
    BY <1>2 DEF UsesCurrent, Follows
  <2> DEFINE l == CASE sockets[Current].life = "connecting" -> "failing"
                    [] sockets[Current].life = "open" -> "closing"
                    [] OTHER -> sockets[Current].life
  <2>2. x = [sockets[Current] EXCEPT !.life = l]
    BY <1>1 DEF CloseSocket, SoundSockets
  <2>3. l \in {"failing", "closing", "closed"}
    BY <2>1
  <2> HIDE DEF x, l
  <2>4. l \in Life
    BY <2>3 DEF Life
  <2>5. \A c \in SoundSockets, k \in Life : /\ [c EXCEPT !.life = k] \in SoundSockets
                                           /\ [c EXCEPT !.life = k].life = k
    BY DEF SoundSockets
  <2> QED BY <1>1, <2>2, <2>3, <2>4, <2>5
<1> HIDE DEF x, new
<1>7. /\ closed \in Seq(SoundSockets) /\ Len(closed) = Current
      /\ DOMAIN closed = 1 .. Current /\ closed[Current] = x
      /\ \A g \in 1 .. Current : g # Current => closed[g] = sockets[g]
  <2>1. closed \in Seq(SoundSockets) /\ Len(closed) = Len(sockets)
    BY <1>1, <1>6
  <2>2. closed[Current] = x /\ \A g \in 1 .. Current : g # Current => closed[g] = sockets[g]
    BY <1>1
  <2>3. DOMAIN closed = 1 .. Current
    BY <1>1
  <2> QED BY <2>1, <2>2, <2>3, Zenon DEF Current
<1>8. new \in SoundSockets
  BY <1>3 DEF new, NewSocket, SoundSockets, Life
<1> HIDE DEF closed
<1>9. /\ DOMAIN sockets' = 1 .. Current + 1 /\ Len(sockets') = Current + 1
      /\ sockets'[Current + 1] = new /\ \A g \in 1 .. Current : sockets'[g] = closed[g]
  <2>1. sockets' = Append(closed, new)
    BY <1>3 DEF new
  <2> QED BY <1>1, <1>7, <1>8, <2>1
<1>10. Current' = Current + 1
  BY <1>9 DEF Current
<1>11. ConfiguredServer' = server /\ sockets'[Current'] = new
  BY <1>5, <1>9, <1>10 DEF ConfiguredServer
<1>12. UsesCurrent'
  <2>1. \A g \in DOMAIN sockets' : g # Current' => sockets'[g].life \notin {"connecting", "open"}
    <3> TAKE g \in DOMAIN sockets'
    <3> HAVE g # Current'
    <3>1. g \in 1 .. Current /\ sockets'[g] = closed[g]
      BY <1>1, <1>9, <1>10
    <3>2. CASE g = Current
      BY <1>6, <1>7, <3>1, <3>2
    <3>3. CASE g # Current
      BY <1>1, <1>2, <1>7, <3>1, <3>3 DEF UsesCurrent
    <3> QED BY <3>2, <3>3
  <2>2. \A a, w : Follows(new, state', a, w)
    <3>1. DOMAIN new.wire = {}
      BY <1>5
    <3> QED BY <1>4, <1>5, <3>1 DEF Follows
  <2>3. StreamQuiet' => status' # "connecting"
    BY <1>3, <1>5, <1>11 DEF StreamQuiet
  <2> QED BY <1>11, <2>1, <2>2, <2>3 DEF UsesCurrent
<1>13. ChecksCurrent'
  BY <1>4, <1>10 DEF ChecksCurrent
<1>14. RowSettles'
  <2>1. draft' = {}
    BY <1>2, <1>4 DEF RowSettles
  <2> QED BY <1>2, <1>4, <2>1 DEF RowSettles
<1> QED BY <1>12, <1>13, <1>14 DEF SInv

(* A step of the row, or of the check, leaves the sockets alone.           *)
LEMMA UsesStays ==
  ASSUME UsesCurrent, UNCHANGED <<serverVars, hookVars>>
  PROVE  UsesCurrent' /\ Current' = Current /\ ConfiguredServer' = ConfiguredServer
         /\ (HasRow' <=> HasRow)
<1>1. /\ sockets' = sockets /\ state' = state /\ status' = status
      /\ audio' = audio /\ windows' = windows
  BY DEF serverVars, hookVars
<1> QED BY <1>1 DEF UsesCurrent, Current, ConfiguredServer, StreamQuiet, HasRow

LEMMA CheckEndsSettles ==
  ASSUME IInv, IInv', SInv, NEW g \in checks, CheckEnds(g)
  PROVE  SInv'
<1>1. UsesCurrent /\ ChecksCurrent /\ RowSettles
  BY DEF SInv
<1>2. UNCHANGED <<serverVars, hookVars, rowVars, orderVars>>
  BY DEF CheckEnds
<1>3. UsesCurrent' /\ Current' = Current /\ ConfiguredServer' = ConfiguredServer
  BY <1>1, <1>2, UsesStays
<1>4. ChecksCurrent'
  BY <1>1, <1>3 DEF CheckEnds, ChecksCurrent
<1>5. RowSettles'
  <2>1. sockets' = sockets /\ state' = state /\ audio' = audio
    BY <1>2 DEF serverVars, hookVars
  <2> QED BY <1>1, <1>2, <1>3, <2>1, RowStays
<1> QED BY <1>3, <1>4, <1>5 DEF SInv

LEMMA ReceivesMessageSettles ==
  ASSUME IInv, IInv', SInv, NEW g \in DOMAIN sockets, ReceivesMessage(g)
  PROVE  SInv'
<1> DEFINE c == sockets[g]
           m == Head(c.wire)
           x == ReadBy(c)
<1>1. UsesCurrent /\ ChecksCurrent /\ RowSettles
  BY DEF SInv
<1>2. /\ g = Current /\ c.life = "open" /\ c.wire # <<>> /\ c.server = ConfiguredServer
  BY <1>1 DEF ReceivesMessage, Receives, UsesCurrent, ConfiguredServer
<1>3. /\ sockets' = [sockets EXCEPT ![g] = x]
      /\ state' = (IF Carries(m) THEN ApplyBackendMessage(state, m) ELSE state)
      /\ status' # "connecting"
      /\ draft' = (IF m.audio # {} THEN {} ELSE draft)
      /\ m.audio = {} => (unseen' <=> unseen)
      /\ UNCHANGED <<serverVars, checkVars, focused, pending, rowError, requests, orders>>
  BY DEF ReceivesMessage, Receives, ClearDrafts
<1>4. /\ c \in SoundSockets /\ state \in SoundStates
      /\ Follows(c, state, audio[ConfiguredServer], ToJson(windows[ConfiguredServer]))
  BY <1>1, <1>2, SocketAt DEF IInv, UsesCurrent, StateInv
<1>5. Follows(x, state', audio[ConfiguredServer], ToJson(windows[ConfiguredServer]))
  <2> DEFINE a == audio[ConfiguredServer]
             w == ToJson(windows[ConfiguredServer])
  <2>1. Follows(c, state, a, w)
    BY <1>4
  <2> HIDE DEF a, w, c
  <2>2. Follows(ReadBy(c), state', a, w)
    BY <1>2, <1>3, <1>4, <2>1, FollowsRead
  <2> QED BY <2>2 DEF a, w, c
<1>6. /\ x.server = c.server /\ x.life = c.life /\ x.served = c.served /\ x.wire = Tail(c.wire)
  BY <1>4 DEF ReadBy, SoundSockets
<1> HIDE DEF x
<1>7. /\ DOMAIN sockets' = DOMAIN sockets /\ sockets'[Current] = x
      /\ \A h \in DOMAIN sockets : h # Current => sockets'[h] = sockets[h]
  BY <1>2, <1>3
<1>8. UsesCurrent' /\ Current' = Current /\ ConfiguredServer' = ConfiguredServer
  <2>1. \A h \in DOMAIN sockets : h # Current => sockets'[h].life \notin {"connecting", "open"}
    BY <1>1, <1>7 DEF UsesCurrent
  <2>2. UNCHANGED <<audio, windows>>
    BY <1>3 DEF serverVars
  <2>3. Follows(sockets'[Current], state', audio'[ConfiguredServer], ToJson(windows'[ConfiguredServer]))
    BY <1>5, <1>7, <2>2
  <2> QED BY <1>1, <1>2, <1>3, <1>6, <1>7, <2>1, <2>3, StillUses
<1>9. RowSettles'
  <2>1. audio' = audio
    BY <1>3 DEF serverVars
  <2>2. ~HasRow' => draft' = {}
    <3>1. HasRow => HasRow'
      BY <1>3 DEF HasRow, ApplyBackendMessage
    <3> QED BY <1>1, <1>3, <3>1 DEF RowSettles
  <2>3. CASE m.audio # {}
    BY <1>1, <1>3, <2>2, <2>3 DEF RowSettles
  <2>4. CASE m.audio = {}
    <3>1. AudioUnderWay(c) => AudioUnderWay(x)
      <4> SUFFICES ASSUME NEW i \in DOMAIN c.wire, c.wire[i].audio # {}
                   PROVE  AudioUnderWay(x)
        BY DEF AudioUnderWay
      <4>1. c.wire \in Seq(SoundMessages)
        BY <1>4 DEF SoundSockets
      <4>2. i # 1 /\ i \in 1 .. Len(c.wire) /\ Len(c.wire) \in Nat
        BY <1>2, <2>4, <4>1
      <4>3. i - 1 \in DOMAIN Tail(c.wire) /\ Tail(c.wire)[i - 1] = c.wire[i]
        BY <1>2, <4>1, <4>2
      <4> QED BY <1>6, <4>3 DEF AudioUnderWay
    <3>2. ASSUME c.served, Committed, NEW v \in draft PROVE Settled(v)'
      <4>1. Settled(v)
        BY <1>1, <1>2, <3>2 DEF RowSettles
      <4> QED BY <1>2, <1>3, <1>7, <1>8, <2>1, <2>4, <3>1, <4>1 DEF Settled
    <3>3. draft' = draft /\ (Committed' <=> Committed)
      BY <1>3, <2>4 DEF Committed
    <3> QED BY <1>1, <1>3, <1>6, <1>7, <1>8, <2>2, <3>2, <3>3 DEF RowSettles
  <2> QED BY <2>3, <2>4
<1> QED BY <1>1, <1>3, <1>8, <1>9, ChecksStay DEF SInv


LEMMA RowStepSettles ==
  ASSUME SInv, UNCHANGED <<serverVars, hookVars, checkVars>>, RowSettles'
  PROVE  SInv'
  BY UsesStays, ChecksStay DEF SInv

LEMMA DragSettles ==
  ASSUME IInv, SInv, Focus \/ \E position \in Positions : Drag(position)
  PROVE  SInv'
<1>1. /\ UNCHANGED <<serverVars, hookVars, checkVars, pending, requests>>
      /\ focused' = TRUE /\ "volume" \notin pending /\ HasRow
  BY DEF Focus, Drag
<1>2. HasRow' /\ ~Committed'
  BY <1>1 DEF hookVars, HasRow, Committed
<1>3. RowSettles'
  BY <1>1, <1>2 DEF RowSettles, SInv
<1> QED BY <1>1, <1>3, RowStepSettles

LEMMA LosesFocusSettles == ASSUME IInv, SInv, LosesFocus PROVE SInv'
<1>1. /\ UNCHANGED <<serverVars, hookVars, checkVars, draft, pending, requests, rowError>>
      /\ orders' = orders /\ unseen' = unseen
      /\ ~HasRow \/ "volume" \in pending
  BY DEF LosesFocus, orderVars
<1>2. /\ (HasRow' <=> HasRow) /\ sockets' = sockets /\ audio' = audio
      /\ Current' = Current /\ ConfiguredServer' = ConfiguredServer
  BY <1>1 DEF hookVars, serverVars, HasRow, Current, ConfiguredServer
<1>3. ASSUME NEW v \in draft, sockets[Current].served PROVE Settled(v)'
  <2>1. Committed
    BY <1>1, <1>3 DEF SInv, RowSettles, Committed
  <2>2. Settled(v)
    BY <1>3, <2>1 DEF SInv, RowSettles
  <2> QED BY <1>1, <1>2, <2>2 DEF Settled
<1>4. RowSettles'
  BY <1>1, <1>2, <1>3 DEF SInv, RowSettles
<1> QED BY <1>1, <1>4, RowStepSettles

(* A new request, for the volume that the slider shows or for the other    *)
(* mute, covers the draft that it may leave.                               *)
LEMMA RequestSettles ==
  ASSUME IInv, SInv, UNCHANGED <<serverVars, hookVars, checkVars, draft>>, HasRow,
         NEW volume, NEW muted, RunDeviceAction(volume, muted),
         \A v \in draft : sockets[Current].served =>
           \/ AudioUnderWay(sockets[Current])
           \/ volume = {v} \/ \E on \in muted : on # audio[ConfiguredServer].muted
  PROVE  SInv'
<1> DEFINE r == [id |-> issued', server |-> ConfiguredServer, volume |-> volume, muted |-> muted,
                 stage |-> "sent"]
<1>1. /\ HasRow' /\ sockets' = sockets /\ audio' = audio /\ draft' = draft
      /\ Current' = Current /\ ConfiguredServer' = ConfiguredServer
  BY DEF hookVars, serverVars, HasRow, Current, ConfiguredServer
<1>2. requests' = requests \cup {r} /\ pending' = pending \cup {Action(volume)}
  BY DEF RunDeviceAction
<1>3. /\ r.server = ConfiguredServer /\ r.volume = volume /\ r.muted = muted /\ r.stage = "sent"
  OBVIOUS
<1> HIDE DEF r
<1>4. ASSUME NEW v \in draft, sockets[Current].served PROVE Settled(v)'
  <2>1. \/ AudioUnderWay(sockets[Current])
        \/ Corrects(r, v, ConfiguredServer, audio[ConfiguredServer])
    BY <1>3, <1>4 DEF Corrects, Reaches
  <2>2. r \in requests'
    BY <1>2
  <2> QED BY <1>1, <2>1, <2>2 DEF Settled
<1>5. \A action \in pending' : \E q \in requests' : action = Action(q.volume)
  BY <1>2, <1>3 DEF SInv, RowSettles
<1>6. RowSettles'
  BY <1>1, <1>4, <1>5 DEF RowSettles
<1> QED BY <1>6, RowStepSettles

LEMMA CommitVolumeSettles == ASSUME IInv, SInv, CommitVolume PROVE SInv'
<1>1. /\ UNCHANGED <<serverVars, hookVars, checkVars, draft>> /\ HasRow
      /\ RunDeviceAction({SliderValue}, {})
  BY DEF CommitVolume
<1>2. \A v \in draft : SliderValue = v
  BY DEF SliderValue, ValueOr, IInv, RowInv, Optional
<1> QED BY <1>1, <1>2, RequestSettles

LEMMA ToggleMutedSettles == ASSUME IInv, SInv, ToggleMuted PROVE SInv'
<1> DEFINE c == sockets[Current]
           a == audio[ConfiguredServer]
<1>1. /\ UNCHANGED <<serverVars, hookVars, checkVars, draft>> /\ HasRow
      /\ RunDeviceAction({}, {~ShownAudio.muted})
  BY DEF ToggleMuted
<1>2. ASSUME c.served, ~AudioUnderWay(c) PROVE \E on \in {~ShownAudio.muted} : on # a.muted
  <2>1. ArrivesAt(state.audio, AudioParts(c.wire), a)
    BY <1>2 DEF SInv, UsesCurrent, Follows
  <2>2. \A i \in DOMAIN AudioParts(c.wire) : AudioParts(c.wire)[i] = {}
    BY <1>2 DEF AudioUnderWay, AudioParts
  <2>3. state.audio = {a}
    BY <2>1, <2>2 DEF ArrivesAt
  <2>4. ShownAudio = a
    BY <2>3 DEF ShownAudio
  <2>5. a.muted \in BOOLEAN
    BY CurrentListed DEF IInv, ServersInv, AudioStates
  <2>6. (~a.muted) # a.muted
    BY <2>5
  <2> QED BY <2>4, <2>6
<1> QED BY <1>1, <1>2, RequestSettles

LEMMA AnswersSettles ==
  ASSUME IInv, SInv, NEW r \in requests, Answers(r)
  PROVE  SInv'
<1>1. /\ UNCHANGED <<serverVars, hookVars, checkVars, draft, focused>>
      /\ orders' = orders /\ unseen' = unseen
      /\ requests' = requests \ {r} /\ pending' = pending \ {Action(r.volume)}
      /\ rowError' = TRUE \/ (r.stage = "accepted" /\ rowError' = rowError)
  BY DEF Answers, orderVars
<1>2. /\ (HasRow' <=> HasRow) /\ sockets' = sockets /\ audio' = audio
      /\ Current' = Current /\ ConfiguredServer' = ConfiguredServer
  BY <1>1 DEF hookVars, serverVars, HasRow, Current, ConfiguredServer
<1>3. Committed' => Committed
  BY <1>1 DEF Committed
<1>4. ASSUME NEW v \in draft, Settled(v) PROVE Settled(v)'
  <2>1. CASE rowError'
    BY <2>1 DEF Settled
  <2>2. CASE ~rowError'
    <3>1. r.stage = "accepted" /\ rowError' = rowError
      BY <1>1, <2>2
    <3>2. ~Corrects(r, v, ConfiguredServer, audio[ConfiguredServer])
      BY <3>1 DEF Corrects
    <3> QED BY <1>1, <1>2, <1>4, <3>1, <3>2 DEF Settled
  <2> QED BY <2>1, <2>2
<1>5. \A action \in pending' : \E q \in requests' : action = Action(q.volume)
  BY <1>1 DEF SInv, RowSettles
<1>6. RowSettles'
  BY <1>1, <1>2, <1>3, <1>4, <1>5 DEF SInv, RowSettles
<1> QED BY <1>1, <1>6, RowStepSettles

(* An accepted request becomes an order, after those that were there.      *)
LEMMA OrderAppended ==
  ASSUME NEW queue \in Seq(Orders), NEW order \in Orders, NEW v, NEW a
  PROVE  /\ OrderCorrects(queue, v, a) => OrderCorrects(Append(queue, order), v, a)
         /\ Reaches(order, v, a) => OrderCorrects(Append(queue, order), v, a)
<1> DEFINE n == Len(queue)
           longer == Append(queue, order)
<1>1. /\ n \in Nat /\ DOMAIN queue = 1 .. n /\ DOMAIN longer = 1 .. n + 1
      /\ longer[n + 1] = order /\ \A i \in 1 .. n : longer[i] = queue[i]
  OBVIOUS
<1> HIDE DEF longer, n
<1>2. n + 1 \in 1 .. n + 1 /\ \A i \in 1 .. n : i \in 1 .. n + 1
  BY <1>1
<1>3. Reaches(order, v, a) => OrderCorrects(longer, v, a)
  BY <1>1, <1>2 DEF OrderCorrects
<1>4. OrderCorrects(queue, v, a) => OrderCorrects(longer, v, a)
  BY <1>1, <1>2 DEF OrderCorrects
<1> QED BY <1>3, <1>4 DEF longer

(* Of the orders only the first is gone.                                   *)
LEMMA FirstOrderGone ==
  ASSUME NEW queue \in Seq(Orders), queue # <<>>, NEW v, NEW a,
         OrderCorrects(queue, v, a), ~Reaches(Head(queue), v, a)
  PROVE  OrderCorrects(Tail(queue), v, a)
<1>1. PICK i \in DOMAIN queue : Reaches(queue[i], v, a)
  BY DEF OrderCorrects
<1>2. i \in 1 .. Len(queue) /\ Len(queue) \in Nat
  BY <1>1
<1>3. i # 1
  BY <1>1
<1>4. i - 1 \in DOMAIN Tail(queue) /\ Tail(queue)[i - 1] = queue[i]
  BY <1>2, <1>3
<1> QED BY <1>1, <1>4 DEF OrderCorrects

LEMMA HandlesSettles ==
  ASSUME IInv, IInv', SInv, NEW r \in requests, Handles(r)
  PROVE  SInv'
<1> DEFINE t == ConfiguredServer
           a == audio[ConfiguredServer]
<1>1. UsesCurrent /\ ChecksCurrent /\ RowSettles
  BY DEF SInv
<1>2. /\ UNCHANGED <<serverVars, hookVars, checkVars, draft, focused, pending, rowError, unseen>>
      /\ r.stage = "sent"
  BY DEF Handles
<1>3. r \in RequestRecords /\ r.server \in Servers
      /\ r.volume \in Optional(Positions) /\ r.muted \in Optional(BOOLEAN)
  BY DEF IInv, RowInv, RequestRecords
<1>4. /\ (HasRow' <=> HasRow) /\ (Committed' <=> Committed) /\ sockets' = sockets
      /\ Current' = Current /\ ConfiguredServer' = ConfiguredServer /\ audio' = audio
  BY <1>2 DEF HasRow, Committed, hookVars, serverVars, Current, ConfiguredServer
<1>5. PICK stage \in {"accepted", "refused"} :
        requests' = (requests \ {r}) \cup {[r EXCEPT !.stage = stage]}
  BY DEF Handles
<1> DEFINE q == [r EXCEPT !.stage = stage]
<1>6. q \in requests' /\ q.stage = stage /\ q.volume = r.volume
  BY <1>3, <1>5 DEF RequestRecords
<1> HIDE DEF q
<1>7. \A p \in requests : p # r => p \in requests'
  BY <1>5
<1>8. \A action \in pending' : \E p \in requests' : action = Action(p.volume)
  BY <1>1, <1>2, <1>6, <1>7 DEF RowSettles
<1> DEFINE order == [volume |-> r.volume, muted |-> r.muted]
<1>9. order \in Orders /\ order.volume = r.volume /\ order.muted = r.muted
  BY <1>3 DEF Orders
<1>10. /\ orders \in [Servers -> Seq(Orders)] /\ t \in Servers
       /\ orders[t] \in Seq(Orders)
  BY CurrentListed DEF IInv, OrderInv
<1>11. \/ orders' = [orders EXCEPT ![r.server] = Append(orders[r.server], order)]
       \/ orders' = orders /\ \E p \in requests' : p.stage = "refused"
  <2>1. CASE /\ orders' = orders
             /\ requests' = (requests \ {r}) \cup {[r EXCEPT !.stage = "refused"]}
    <3>1. [r EXCEPT !.stage = "refused"].stage = "refused"
      BY <1>3 DEF RequestRecords
    <3> QED BY <2>1, <3>1
  <2> QED BY <2>1 DEF Handles
<1> HIDE DEF order
<1>12. ASSUME NEW v \in draft, Settled(v) PROVE Settled(v)'
  <2>1. CASE \E p \in requests' : p.stage = "refused"
    BY <2>1 DEF Settled, Corrects
  <2>2. CASE orders' = [orders EXCEPT ![r.server] = Append(orders[r.server], order)]
    <3>1. /\ r.server = t => orders'[t] = Append(orders[t], order)
          /\ r.server # t => orders'[t] = orders[t]
      BY <1>3, <1>10, <2>2
    <3>2. OrderCorrects(orders[t], v, a) => OrderCorrects(orders'[t], v, a)
      BY <1>9, <1>10, <3>1, OrderAppended
    <3>3. Corrects(r, v, t, a) => OrderCorrects(orders'[t], v, a)
      <4>1. Corrects(r, v, t, a) => r.server = t /\ Reaches(order, v, a)
        BY <1>2, <1>9 DEF Corrects, Reaches
      <4> QED BY <1>9, <1>10, <3>1, <4>1, OrderAppended
    <3> QED BY <1>2, <1>4, <1>7, <1>12, <3>2, <3>3 DEF Settled
  <2> QED BY <1>11, <2>1, <2>2
<1>13. RowSettles'
  BY <1>1, <1>2, <1>4, <1>8, <1>12 DEF RowSettles
<1> QED BY <1>2, <1>13, RowStepSettles

(* What an order asks for is there once it is carried out.                 *)
LEMMA OrderReached ==
  ASSUME IInv, NEW s \in Servers, NextOrder(s), NEW v, Ordered(s) = audio[s],
         Reaches(Head(orders[s]), v, audio[s])
  PROVE  v = audio[s].volume
<1> DEFINE order == Head(orders[s])
<1>1. order \in Orders
  BY NextOrderSafe DEF IInv
<1>2. /\ ValueOr(order.volume, audio[s].volume) = audio[s].volume
      /\ ValueOr(order.muted, audio[s].muted) = audio[s].muted
  BY DEF Ordered
<1>3. Reaches(order, v, audio[s])
  OBVIOUS
<1> HIDE DEF order
<1>4. order.volume \in Optional(Positions) /\ order.muted \in Optional(BOOLEAN)
  BY <1>1 DEF Orders
<1>5. \A on \in order.muted : on = audio[s].muted
  BY <1>2, <1>4 DEF ValueOr, Optional
<1> QED BY <1>2, <1>3, <1>4, <1>5 DEF ValueOr, Optional, Reaches

(* The next order is through and the store of its service is what it was:  *)
(* what corrected a draft still does, unless the order was it.             *)
LEMMA NextOrderSettles ==
  ASSUME IInv, NEW s \in Servers, NextOrder(s), Current' = Current,
         ConfiguredServer' = ConfiguredServer,
         audio'[ConfiguredServer] = audio[ConfiguredServer],
         UNCHANGED <<rowVars, sockets>>, unseen => unseen',
         (s = ConfiguredServer /\ Ordered(s) # audio[s]) => unseen',
         NEW v, Settled(v)
  PROVE  Settled(v)'
<1> DEFINE t == ConfiguredServer
           a == audio[ConfiguredServer]
<1>1. rowError' = rowError /\ requests' = requests
  BY DEF rowVars
<1>2. t \in Servers
  BY CurrentListed DEF IInv
<1>3. CASE unseen'
  BY <1>3 DEF Settled
<1>4. CASE ~unseen' /\ OrderCorrects(orders[t], v, a)
  <2>1. CASE s # t
    <3>1. orders'[t] = orders[t]
      BY <1>2, <2>1, NextOrderSafe DEF IInv
    <3> QED BY <1>4, <3>1 DEF Settled
  <2>2. CASE s = t /\ Reaches(Head(orders[s]), v, a)
    <3>1. v = a.volume
      BY <1>4, <2>2, OrderReached
    <3> QED BY <3>1 DEF Settled
  <2>3. CASE s = t /\ ~Reaches(Head(orders[s]), v, a)
    <3>1. orders[t] \in Seq(Orders) /\ orders'[t] = Tail(orders[t]) /\ orders[t] # <<>>
      BY <2>3, NextOrderSafe DEF IInv, NextOrder
    <3>2. OrderCorrects(orders'[t], v, a)
      BY <1>4, <2>3, <3>1, FirstOrderGone
    <3> QED BY <3>2 DEF Settled
  <2> QED BY <2>1, <2>2, <2>3
<1>5. CASE ~unseen' /\ ~OrderCorrects(orders[t], v, a)
  BY <1>1, <1>5 DEF Settled
<1> QED BY <1>3, <1>4, <1>5

LEMMA GivesUpOrderSettles ==
  ASSUME IInv, SInv, NEW s \in Servers, GivesUpOrder(s)
  PROVE  SInv'
<1>1. /\ UNCHANGED <<serverVars, hookVars, checkVars, rowVars>> /\ NextOrder(s)
      /\ unseen => unseen'
      /\ (s = ConfiguredServer /\ Ordered(s) # audio[s]) => unseen'
  BY DEF GivesUpOrder
<1>2. /\ sockets' = sockets /\ audio' = audio
      /\ Current' = Current /\ ConfiguredServer' = ConfiguredServer
      /\ (HasRow' <=> HasRow) /\ (Committed' <=> Committed)
  BY <1>1 DEF hookVars, serverVars, rowVars, HasRow, Current, ConfiguredServer, Committed
<1>3. ASSUME NEW v \in draft, Settled(v) PROVE Settled(v)'
  <2>1. audio'[ConfiguredServer] = audio[ConfiguredServer]
    BY <1>2
  <2>2. UNCHANGED <<rowVars, sockets>>
    BY <1>1, <1>2
  <2> QED BY <1>1, <1>2, <1>3, <2>1, <2>2, NextOrderSettles
<1>4. draft' = draft /\ pending' = pending /\ requests' = requests
  BY <1>1 DEF rowVars
<1>5. RowSettles'
  BY <1>2, <1>3, <1>4 DEF SInv, RowSettles
<1> QED BY <1>1, <1>5, RowStepSettles

LEMMA ShowsOrderSettles ==
  ASSUME IInv, IInv', SInv, NEW s \in Servers, ShowsOrder(s), DOMAIN sockets' = DOMAIN sockets
  PROVE  SInv'
<1> DEFINE now == Ordered(s)
           c == sockets[Current]
<1>1. UsesCurrent /\ ChecksCurrent /\ RowSettles /\ ConfiguredServer \in Servers
  BY CurrentListed DEF SInv, IInv
<1>2. /\ UNCHANGED <<windows, state, status, checkVars, rowVars, unseen>>
      /\ NextOrder(s) /\ BroadcastAudio(s, now) /\ audio' = [audio EXCEPT ![s] = now]
  BY DEF ShowsOrder
<1>3. (HasRow' <=> HasRow) /\ (Committed' <=> Committed)
  BY <1>2 DEF HasRow, Committed, rowVars
<1>4. /\ draft' = draft /\ pending' = pending /\ rowError' = rowError /\ requests' = requests
      /\ unseen' = unseen
  BY <1>2 DEF rowVars
<1>5. now \in AudioStates
  BY <1>2, OrderedListed
<1>6. audio'[s] = now /\ \A t \in Servers \ {s} : audio'[t] = audio[t]
  BY <1>2 DEF IInv, ServersInv
<1>7. CASE now = audio[s]
  <2>1. sockets' = sockets /\ \A t \in Servers : audio'[t] = audio[t]
    BY <1>2, <1>6, <1>7 DEF BroadcastAudio
  <2>2. Current' = Current /\ ConfiguredServer' = ConfiguredServer
    BY <2>1 DEF Current, ConfiguredServer
  <2>3. audio'[ConfiguredServer] = audio[ConfiguredServer]
    BY <1>1, <2>1
  <2>4. UsesCurrent'
    BY <1>1, <1>2, <2>1, <2>2, <2>3 DEF UsesCurrent, StreamQuiet
  <2>5. \A v \in draft : Settled(v) => Settled(v)'
    BY <1>2, <1>4, <1>7, <2>1, <2>2, <2>3, NextOrderSettles
  <2>6. RowSettles'
    BY <1>1, <1>3, <1>4, <2>1, <2>2, <2>5 DEF RowSettles
  <2> QED BY <1>1, <1>2, <2>2, <2>4, <2>6, ChecksStay DEF SInv
<1>8. CASE now # audio[s]
  <2> DEFINE m == [type |-> "patch", audio |-> {now}, windowState |-> {}]
  <2> HIDE DEF now
  <2>1. m \in SoundMessages /\ Carries(m) /\ m.audio = {now} /\ m.windowState = {}
    BY <1>5, PatchesSound DEF Carries
  <2>2. sockets' = Broadcast(s, m)
    BY <1>2, <1>8 DEF BroadcastAudio
  <2> HIDE DEF m
  <2>3. /\ UsesCurrent' /\ Current' = Current /\ ConfiguredServer' = ConfiguredServer
        /\ sockets'[Current].served = c.served
        /\ AudioUnderWay(c) => AudioUnderWay(sockets'[Current])
        /\ (c.served /\ ConfiguredServer = s) => AudioUnderWay(sockets'[Current])
    BY <1>1, <1>2, <1>6, <2>1, <2>2, BroadcastUsed
  <2>4. ASSUME NEW v \in draft, c.served, Settled(v) PROVE Settled(v)'
    <3>1. CASE ConfiguredServer = s
      BY <2>3, <2>4, <3>1 DEF Settled
    <3>2. CASE ConfiguredServer # s
      <4>1. audio'[ConfiguredServer] = audio[ConfiguredServer]
        BY <1>1, <1>6, <3>2
      <4>2. orders'[ConfiguredServer] = orders[ConfiguredServer]
        BY <1>1, <1>2, <3>2, NextOrderSafe DEF IInv
      <4> QED BY <1>4, <2>3, <2>4, <4>1, <4>2 DEF Settled
    <3> QED BY <3>1, <3>2
  <2>5. RowSettles'
    BY <1>1, <1>3, <1>4, <2>3, <2>4 DEF RowSettles
  <2> QED BY <1>1, <1>2, <2>3, <2>5, ChecksStay DEF SInv
<1> QED BY <1>7, <1>8


-----------------------------------------------------------------------------
(* The second invariant, on top of the first *)

LEMMA OutsideSettles == ASSUME IInv, IInv', SInv, Outside PROVE SInv'
<1>1. UNCHANGED <<checkVars, rowVars, orderVars>>
  BY DEF Outside
<1>2. ASSUME NEW s \in Servers, ServiceChanges(s) PROVE SInv'
  <2>1. DOMAIN sockets' = DOMAIN sockets
    BY <1>2, ServiceChangesSafe DEF IInv
  <2> QED
    BY <1>1, <1>2, <2>1, ServiceChangesSettles
<1>3. ASSUME NEW s \in Servers, BecomesReady(s) PROVE SInv'
  <2>1. DOMAIN sockets' = DOMAIN sockets
    BY <1>3, BecomesReadySafe DEF IInv
  <2> QED
    BY <1>1, <1>3, <2>1, BecomesReadySettles
<1> QED
  BY <1>1, <1>2, <1>3, GreetsSettles, OpensSettles, EndsSettles DEF Outside

LEMMA NothingSettles == ASSUME SInv, UNCHANGED vars PROVE SInv'
<1>1. UNCHANGED <<serverVars, hookVars, checkVars, rowVars, orderVars>>
  BY DEF vars
<1>2. UNCHANGED <<sockets, state, audio>>
  BY <1>1 DEF serverVars, hookVars
<1>3. Current' = Current /\ ConfiguredServer' = ConfiguredServer
  BY <1>2 DEF Current, ConfiguredServer
<1>4. RowSettles'
  BY <1>1, <1>2, <1>3, RowStays DEF SInv, RowSettles, Settled
<1> QED
  BY <1>1, <1>4, RowStepSettles

LEMMA InitSettles == Init => SInv
<1> SUFFICES ASSUME Init PROVE SInv
  OBVIOUS
<1> DEFINE x == NewSocket(FirstServer, "connecting")
<1>1. sockets = <<x>> /\ x.life = "connecting" /\ ~x.greeted /\ ~x.served /\ x.wire = <<>>
      /\ ~x.hasState
  BY DEF Init, HookInit, NewSocket
<1> HIDE DEF x
<1>2. Current = 1 /\ sockets[Current] = x /\ DOMAIN sockets = {1}
  BY <1>1 DEF Current
<1>3. state = emptyBackendState
  BY DEF Init, HookInit
<1>4. Follows(x, state, audio[ConfiguredServer], ToJson(windows[ConfiguredServer]))
  BY <1>1, <1>3 DEF Follows
<1>5. UsesCurrent
  BY <1>1, <1>2, <1>4 DEF UsesCurrent, StreamQuiet
<1>6. ChecksCurrent
  BY <1>2 DEF Init, ChecksCurrent, checkingHttpStatus
<1>7. RowSettles
  BY DEF Init, RowSettles
<1> QED
  BY <1>5, <1>6, <1>7 DEF SInv

LEMMA StepSettles == IInv /\ IInv' /\ SInv /\ [Next]_vars => SInv'
<1> SUFFICES ASSUME IInv, IInv', SInv, [Next]_vars PROVE SInv'
  OBVIOUS
<1>1. ASSUME NEW s \in Servers, ShowsOrder(s) PROVE SInv'
  <2>1. DOMAIN sockets' = DOMAIN sockets
    BY <1>1, ShowsOrderSafe
  <2> QED
    BY <1>1, <2>1, ShowsOrderSettles
<1> QED
  BY <1>1, NothingSettles, OutsideSettles, SaveSettles, CheckEndsSettles, ReceivesMessageSettles,
     DragSettles, CommitVolumeSettles, LosesFocusSettles, ToggleMutedSettles, HandlesSettles,
     AnswersSettles, GivesUpOrderSettles
  DEF Next

LEMMA Settling == Spec => []SInv
<1>1. Spec => [](IInv /\ SInv)
  BY InitSafe, StepSafe, InitSettles, StepSettles, PTL DEF Spec
<1> QED
  BY <1>1, PTL

(* The dashboard shows the service and the connection that are configured  *)
(* now, whatever was saved before and still answers late: nothing before   *)
(* the current socket has sent a state, then, with what is under way,      *)
(* exactly the state of its service; and the check of the HTTP endpoint is *)
(* the one of the current settings (closedByEffect and hasState of         *)
(* useStateStream, cancelled of the check).                                *)
THEOREM ShowsConfigured == Spec => []ShowsConfiguredService
<1>1. SInv => ShowsConfiguredService
  BY DEF SInv, UsesCurrent, Follows, ChecksCurrent, ShowsConfiguredService, ConfiguredServer
<1> QED
  BY <1>1, Settling, PTL

LEMMA NothingUnderWay ==
  ASSUME NEW shown, NEW wire, wire = <<>>, NEW value,
         ArrivesAt(shown, AudioParts(wire), value)
  PROVE  shown = {value}
<1>1. DOMAIN AudioParts(wire) = {}
  BY DEF AudioParts
<1> QED
  BY <1>1 DEF ArrivesAt

(* Once nothing is under way - requests, messages, accepted orders - and   *)
(* nobody drags, no control of the dashboard is left disabled, connection  *)
(* and check have a result, and the slider shows the volume of the sink or *)
(* the row its error: every draft that was committed is cleared by a later *)
(* audio state, turned out to be the volume, or failed.  The one way out   *)
(* is an order the service accepted and PulseAudio did not carry out,      *)
(* after which the draft may stay (runDeviceAction, the effect that clears *)
(* volumeDrafts, useStateStream, setResolvedSinkVolume).                   *)
THEOREM Settles == Spec => []SettlesWithService
<1>1. ASSUME IInv, SInv PROVE SettlesWithService
  <2> DEFINE c == sockets[Current]
             a == audio[ConfiguredServer]
  <2>1. requests = {} => pending = {}
    BY <1>1 DEF SInv, RowSettles
  <2>2. StreamQuiet => status # "connecting"
    BY <1>1 DEF SInv, UsesCurrent
  <2>3. checks = {} => httpStatus # checkingHttpStatus
    BY <1>1 DEF SInv, ChecksCurrent, checkingHttpStatus
  <2>4. ASSUME StreamQuiet, c.served, requests = {}, ~focused, orders[ConfiguredServer] = <<>>
        PROVE  rowError \/ unseen \/ SliderValue = Position(a.volume)
    <3>1. Follows(c, state, a, ToJson(windows[ConfiguredServer]))
      BY <1>1 DEF SInv, UsesCurrent
    <3>2. c.wire = <<>>
      BY <2>4, <3>1 DEF StreamQuiet, Follows
    <3>3. ArrivesAt(state.audio, AudioParts(c.wire), a)
      BY <2>4, <3>1 DEF Follows
    <3>4. state.audio = {a}
      BY <3>2, <3>3, NothingUnderWay
    <3>5. ShownAudio = a
      BY <3>4 DEF ShownAudio
    <3>6. ~AudioUnderWay(c)
      BY <3>2 DEF AudioUnderWay
    <3>7. \A v \in draft : rowError \/ unseen \/ v = a.volume
      <4>1. DOMAIN orders[ConfiguredServer] = {}
        BY <2>4
      <4>2. \A v \in draft : ~OrderCorrects(orders[ConfiguredServer], v, a)
        BY <4>1 DEF OrderCorrects
      <4> QED BY <1>1, <2>4, <3>6, <4>2 DEF SInv, RowSettles, Committed, Settled
    <3>8. \A v \in draft : v \in Positions /\ draft = {v}
      BY <1>1 DEF IInv, RowInv, Optional
    <3>9. \A v \in Positions : Position(v) = v
      BY ScaleAssumption DEF Positions, Position
    <3>10. CASE draft = {}
      BY <3>5, <3>10 DEF SliderValue, ValueOr
    <3>11. CASE draft # {}
      <4>1. PICK v \in draft : TRUE
        BY <3>11
      <4>2. SliderValue = v
        BY <3>8, <3>11, <4>1 DEF SliderValue, ValueOr
      <4> QED
        BY <3>7, <3>8, <3>9, <4>1, <4>2
    <3> QED
      BY <3>10, <3>11
  <2> QED
    BY <2>1, <2>2, <2>3, <2>4 DEF SettlesWithService
<1> QED
  BY <1>1, Invariance, Settling, PTL
=============================================================================
