------------------------- MODULE AudioControlProofs -------------------------
(***************************************************************************)
(* Proofs about AudioControl, for any devices, volumes and values and any  *)
(* number of requests and of changes by others: its variables keep their   *)
(* types, the latest request prevails, and no request amplifies.           *)
(***************************************************************************)
EXTENDS AudioControl, TLAPS

-----------------------------------------------------------------------------
(* Volumes, refusals and orders *)

LEMMA TargetInRange ==
  ASSUME NEW operation \in Operations, NEW previous \in Volumes, NEW value \in Int
  PROVE  Target(operation, previous, value) \in 0 .. Normal
<1>1. \A v \in Int : ClampNormalizedVolume(v) \in 0 .. Normal
  BY VolumeAssumption DEF ClampNormalizedVolume
<1>2. previous \in Int
  BY VolumeAssumption DEF Volumes
<1>3. ClampNormalizedVolume(value) \in 0 .. Normal
  BY <1>1
<1>4. ClampNormalizedVolume(previous + value) \in 0 .. Normal
  BY <1>1, <1>2
<1>5. ClampNormalizedVolume(previous - value) \in 0 .. Normal
  BY <1>1, <1>2
<1> QED
  BY <1>3, <1>4, <1>5 DEF Target, Operations

LEMMA InRangeIsVolume == 0 .. Normal \subseteq Volumes
BY VolumeAssumption DEF Volumes

LEMMA AcceptedOnlyListed ==
  /\ \A d : Missing(d) = {} => Listed(d)
  /\ \A d : MuteRefusal(d) = {} => Listed(d) /\ d \in Writable
  /\ \A s, operation, value :
       VolumeRefusal(s, operation, value) = {} => Listed(s) /\ s \in Writable
<1>1. \A d : Missing(d) = {} => Listed(d)
  BY DEF Missing, Listed
<1> QED
  BY <1>1 DEF MuteRefusal, VolumeRefusal

LEMMA KindOfDevice ==
  ASSUME NEW d \in Devices
  PROVE  KindOf(d) \in Kinds /\ d \in KindOf(d) /\ \A k \in Kinds : d \in k => k = KindOf(d)
BY DevicesAssumption DEF KindOf, Kinds, Devices

(* An order tells by its setting what it is.                               *)
LEMMA OrderOfSetting ==
  ASSUME NEW order \in Orders
  PROVE  /\ order.setting \in {"volume", "muted", "default"}
         /\ order.device \in Devices
         /\ order.setting = "volume" => order \in VolumeOrders /\ order.device \in Sinks
         /\ order.setting = "muted" => order \in MuteOrders
         /\ order.setting = "default" => order \in DefaultOrders
BY DevicesAssumption DEF Orders, VolumeOrders, MuteOrders, DefaultOrders, Devices

LEMMA OrdersMade ==
  /\ \A s \in Sinks \cap Writable, operation \in Operations, value \in Values, target \in 0 .. Normal :
       VolumeOrder(s, operation, value, target) \in Orders
  /\ \A d \in Writable, target \in BOOLEAN : MuteOrder(d, target) \in Orders
  /\ \A d \in Devices : DefaultOrder(d) \in Orders
BY DEF VolumeOrder, MuteOrder, DefaultOrder, Orders, VolumeOrders, MuteOrders, DefaultOrders

LEMMA EventsMade ==
  \A d \in Devices, v \in Volumes \cup {NoVolume} : Event(d, v) \in Events
BY DEF Event, Events

-----------------------------------------------------------------------------
(* Types *)

(* The conjuncts of TypeOK, by what they are about.                        *)
RequestInv ==
  /\ latest \in [Sinks -> 0 .. Normal \cup {NoVolume}]
  /\ latestMuted \in [Devices -> SUBSET BOOLEAN]
  /\ latestDefault \in [Kinds -> SUBSET Devices]
  /\ \A k \in Kinds : latestDefault[k] \subseteq k
  /\ orders \in Seq(Orders)
  /\ answer \in Statuses \cup {"none"}
  /\ requests \in 0 .. MaxRequests

PulseInv ==
  /\ there \subseteq Devices /\ muted \subseteq Devices
  /\ volume \in [Sinks -> Volumes] /\ wanted \in [Sinks -> Volumes]
  /\ default \in [Kinds -> Devices \cup {NoDevice}]
  /\ \A k \in Kinds : default[k] \in (k \cap there) \cup {NoDevice}

KnownInv ==
  /\ context \in {"ready", "lost"}
  /\ found \subseteq Devices /\ known \in [Sinks -> Volumes]
  /\ events \in Seq(Events)
  /\ others \in 0 .. MaxOthers

LostInv == context = "lost" => found = {} /\ orders = <<>> /\ events = <<>>

LEMMA TypeParts == TypeOK <=> RequestInv /\ PulseInv /\ KnownInv /\ LostInv
BY DEF TypeOK, RequestInv, PulseInv, KnownInv, LostInv

LEMMA TypeInit == Init => TypeOK
<1> SUFFICES ASSUME Init PROVE TypeOK
  OBVIOUS
<1>1. {0, Loudest} \subseteq Volumes
  BY VolumeAssumption DEF Volumes
<1>2. PulseInv
  BY <1>1 DEF Init, PulseInv
<1>3. RequestInv
  BY BoundsAssumption DEF Init, RequestInv
<1>4. KnownInv /\ LostInv
  BY <1>1, BoundsAssumption DEF Init, KnownInv, LostInv
<1> QED
  BY <1>2, <1>3, <1>4, TypeParts

(* What an accepted request leaves alone.                                  *)
LEMMA AcceptedTypes ==
  ASSUME TypeOK, Accepted, context = "ready", orders' \in Seq(Orders),
         latest' \in [Sinks -> 0 .. Normal \cup {NoVolume}],
         latestMuted' \in [Devices -> SUBSET BOOLEAN],
         latestDefault' \in [Kinds -> SUBSET Devices],
         \A k \in Kinds : latestDefault'[k] \subseteq k
  PROVE  TypeOK'
<1>1. PulseInv' /\ KnownInv' /\ LostInv'
  BY TypeParts DEF Accepted, PulseInv, KnownInv, LostInv
<1>2. requests' \in 0 .. MaxRequests /\ answer' \in Statuses \cup {"none"}
  BY TypeParts, BoundsAssumption DEF Accepted, RequestInv, Statuses
<1>3. RequestInv'
  BY <1>2 DEF RequestInv
<1> QED
  BY <1>1, <1>3, TypeParts DEF TypeOK, RequestInv, PulseInv, KnownInv, LostInv

LEMMA AcceptTypes ==
  ASSUME TypeOK, NEW s \in Sinks, NEW operation \in Operations, NEW value \in Values,
         Accept(s, operation, value)
  PROVE  TypeOK'
<1> DEFINE target == Target(operation, known[s], value)
           order == VolumeOrder(s, operation, value, target)
<1>1. target \in 0 .. Normal
  BY TargetInRange, ValuesAssumption DEF TypeOK
<1>2. Listed(s) /\ s \in Writable
  BY AcceptedOnlyListed DEF Accept, AcceptsVolume
<1>3. order \in Orders
  BY <1>1, <1>2, OrdersMade
<1>4. orders' = Append(orders, order)
  BY DEF Accept
<1>5. latest' \in [Sinks -> 0 .. Normal \cup {NoVolume}]
  BY <1>1 DEF Accept, AcceptsVolume, TypeOK
<1> HIDE DEF order
<1>6. orders' \in Seq(Orders)
  BY <1>3, <1>4 DEF TypeOK
<1> QED
  BY <1>2, <1>5, <1>6, AcceptedTypes DEF Accept, AcceptsVolume, Listed, TypeOK

LEMMA SetMutedTypes ==
  ASSUME TypeOK, NEW d \in Devices, NEW target \in BOOLEAN, SetMuted(d, target)
  PROVE  TypeOK'
<1>1. Listed(d) /\ d \in Writable
  BY AcceptedOnlyListed DEF SetMuted
<1>2. MuteOrder(d, target) \in Orders
  BY <1>1, OrdersMade
<1>3. orders' \in Seq(Orders)
  BY <1>2 DEF SetMuted, TypeOK
<1>4. latestMuted' \in [Devices -> SUBSET BOOLEAN]
  BY DEF SetMuted, TypeOK
<1> QED
  BY <1>1, <1>3, <1>4, AcceptedTypes DEF SetMuted, Listed, TypeOK

LEMMA SetDefaultTypes ==
  ASSUME TypeOK, NEW d \in Devices, SetDefault(d)
  PROVE  TypeOK'
<1>1. Listed(d)
  BY AcceptedOnlyListed DEF SetDefault
<1>2. DefaultOrder(d) \in Orders
  BY OrdersMade
<1>3. orders' \in Seq(Orders)
  BY <1>2 DEF SetDefault, TypeOK
<1>4. /\ latestDefault' \in [Kinds -> SUBSET Devices]
      /\ \A k \in Kinds : latestDefault'[k] \subseteq k
  BY KindOfDevice DEF SetDefault, TypeOK
<1> QED
  BY <1>1, <1>3, <1>4, AcceptedTypes DEF SetDefault, Listed, TypeOK

LEMMA RefuseTypes ==
  ASSUME TypeOK, NEW refusal \in SUBSET Statuses, Refuse(refusal)
  PROVE  TypeOK'
<1>1. answer' \in Statuses
  BY DEF Refuse
<1>2. RequestInv' /\ PulseInv' /\ KnownInv' /\ LostInv'
  BY <1>1, TypeParts
  DEF Refuse, volumeVars, deviceVars, RequestInv, PulseInv, KnownInv, LostInv
<1> QED
  BY <1>2 DEF TypeOK, RequestInv, PulseInv, KnownInv, LostInv

LEMMA RefusalsAreStatuses ==
  /\ \A d : Missing(d) \subseteq Statuses /\ MuteRefusal(d) \subseteq Statuses
  /\ \A s, operation, value : VolumeRefusal(s, operation, value) \subseteq Statuses
<1>1. \A d : Missing(d) \subseteq Statuses
  BY DEF Missing, Statuses
<1> QED
  BY <1>1 DEF MuteRefusal, VolumeRefusal, Statuses

(* The volume an order leaves is the one asked for.                        *)
LEMMA CarryOutTypes ==
  ASSUME TypeOK, CarryOut
  PROVE  TypeOK'
<1> DEFINE order == Head(orders)
           d == order.device
<1>1. order \in Orders /\ Tail(orders) \in Seq(Orders)
  BY DEF CarryOut, TypeOK
<1>2. d \in Devices
  BY <1>1, OrderOfSetting
<1>3. context = "ready"
  BY DEF CarryOut, TypeOK
<1> HIDE DEF order
<1>4. PulseInv' /\ events' \in Seq(Events)
  <2>1. CASE order.device \in there /\ order.setting = "volume" /\ CarryOutVolume(order)
    <3>1. order \in VolumeOrders
      BY <1>1, <2>1, OrderOfSetting
    <3>2. order.target \in Volumes /\ order.operation \in Operations /\ order.value \in Int
          /\ d \in Sinks
      BY <3>1, InRangeIsVolume, ValuesAssumption DEF VolumeOrders
    <3>3. Target(order.operation, wanted[d], order.value) \in Volumes
      BY <3>2, TargetInRange, InRangeIsVolume DEF TypeOK
    <3>4. volume' \in [Sinks -> Volumes] /\ wanted' \in [Sinks -> Volumes]
      BY <2>1, <3>2, <3>3 DEF CarryOutVolume, TypeOK
    <3>5. Event(d, order.target) \in Events
      BY <1>2, <3>2, EventsMade
    <3>6. events' \in Seq(Events)
      BY <2>1, <3>5 DEF CarryOutVolume, TypeOK
    <3> QED
      BY <2>1, <3>4, <3>6 DEF CarryOut, CarryOutVolume, TypeOK, PulseInv
  <2>2. CASE order.device \in there /\ CarryOutDevice(order)
    <3>1. muted' \subseteq Devices
      BY <1>2, <2>2 DEF CarryOutDevice, TypeOK
    <3>2. /\ default' \in [Kinds -> Devices \cup {NoDevice}]
          /\ \A k \in Kinds : default'[k] \in (k \cap there) \cup {NoDevice}
      BY <1>2, <2>2, KindOfDevice DEF CarryOutDevice, TypeOK
    <3> QED
      BY <2>2, <3>1, <3>2 DEF CarryOut, CarryOutDevice, TypeOK, PulseInv
  <2>3. CASE UNCHANGED <<volume, wanted, muted, default, events>>
    BY <2>3 DEF CarryOut, TypeOK, PulseInv
  <2> QED
    BY <2>1, <2>2, <2>3 DEF CarryOut, order
<1>5. RequestInv'
  BY <1>1 DEF CarryOut, TypeOK, RequestInv
<1>6. KnownInv' /\ LostInv'
  BY <1>3, <1>4 DEF CarryOut, TypeOK, KnownInv, LostInv
<1> QED
  BY <1>4, <1>5, <1>6 DEF TypeOK, RequestInv, PulseInv, KnownInv, LostInv

LEMMA NotifyTypes ==
  ASSUME TypeOK, Notify
  PROVE  TypeOK'
<1> DEFINE event == Head(events)
<1>1. event \in Events /\ Tail(events) \in Seq(Events)
  BY DEF Notify, TypeOK
<1>2. context = "ready"
  BY DEF Notify, TypeOK
<1>3. event.volume \in Volumes \cup {NoVolume}
  BY <1>1 DEF Events
<1> HIDE DEF event
<1>4. found' \subseteq Devices /\ known' \in [Sinks -> Volumes]
  BY <1>3 DEF Notify, TypeOK, event
<1>5. KnownInv' /\ LostInv'
  BY <1>1, <1>2, <1>4 DEF Notify, TypeOK, KnownInv, LostInv
<1>6. RequestInv' /\ PulseInv'
  BY DEF Notify, volumeVars, deviceVars, TypeOK, RequestInv, PulseInv
<1> QED
  BY <1>5, <1>6 DEF TypeOK, RequestInv, PulseInv, KnownInv, LostInv

LEMMA TellsTypes ==
  ASSUME TypeOK, NEW event \in Events, Tells(event)
  PROVE  events' \in Seq(Events) /\ (context = "lost" => events' = <<>>)
BY DEF Tells, TypeOK

LEMMA OtherCounts == ASSUME TypeOK, Other PROVE others' \in 0 .. MaxOthers
BY BoundsAssumption DEF Other, TypeOK

LEMMA OtherSetsVolumeTypes ==
  ASSUME TypeOK, NEW s \in Sinks, NEW v \in {0, Loudest}, OtherSetsVolume(s, v)
  PROVE  TypeOK'
<1>1. v \in Volumes /\ s \in Devices
  BY VolumeAssumption DEF Volumes, Devices
<1>2. events' \in Seq(Events) /\ (context = "lost" => events' = <<>>)
  BY <1>1, EventsMade, TellsTypes DEF OtherSetsVolume
<1>3. PulseInv'
  BY <1>1 DEF OtherSetsVolume, deviceVars, TypeOK, PulseInv
<1>4. RequestInv'
  BY DEF OtherSetsVolume, deviceVars, TypeOK, RequestInv
<1>5. KnownInv' /\ LostInv'
  BY <1>2, OtherCounts DEF OtherSetsVolume, TypeOK, KnownInv, LostInv
<1> QED
  BY <1>3, <1>4, <1>5 DEF TypeOK, RequestInv, PulseInv, KnownInv, LostInv

LEMMA OtherDeviceTypes ==
  ASSUME TypeOK, NEW d \in Devices, OtherMutes(d) \/ OtherSetsDefault(d)
  PROVE  TypeOK'
<1>1. PulseInv'
  <2>1. muted' \subseteq Devices
    BY DEF OtherMutes, OtherSetsDefault, TypeOK
  <2>2. /\ default' \in [Kinds -> Devices \cup {NoDevice}]
        /\ \A k \in Kinds : default'[k] \in (k \cap there) \cup {NoDevice}
    <3>1. d \in there /\ KindOf(d) \in Kinds /\ d \in KindOf(d)
      BY KindOfDevice DEF OtherMutes, OtherSetsDefault
    <3>2. default' \in {default, [default EXCEPT ![KindOf(d)] = d]}
      BY DEF OtherMutes, OtherSetsDefault
    <3>3. /\ default \in [Kinds -> Devices \cup {NoDevice}]
          /\ \A k \in Kinds : default[k] \in (k \cap there) \cup {NoDevice}
      BY DEF TypeOK
    <3> QED
      BY <3>1, <3>2, <3>3
  <2> QED
    BY <2>1, <2>2 DEF OtherMutes, OtherSetsDefault, volumeVars, TypeOK, PulseInv
<1>2. RequestInv'
  <2>1. /\ latestMuted' \in {latestMuted, [latestMuted EXCEPT ![d] = {}]}
        /\ latestDefault' \in {latestDefault, [latestDefault EXCEPT ![KindOf(d)] = {}]}
        /\ UNCHANGED <<orders, latest, answer, requests>>
    BY DEF OtherMutes, OtherSetsDefault, volumeVars
  <2>2. RequestInv
    BY DEF TypeOK, RequestInv
  <2> QED
    BY <2>1, <2>2, KindOfDevice DEF RequestInv
<1>3. KnownInv' /\ LostInv'
  BY OtherCounts DEF OtherMutes, OtherSetsDefault, TypeOK, KnownInv, LostInv
<1> QED
  BY <1>1, <1>2, <1>3 DEF TypeOK, RequestInv, PulseInv, KnownInv, LostInv

LEMMA DeviceVanishesTypes ==
  ASSUME TypeOK, NEW d \in Devices, DeviceVanishes(d)
  PROVE  TypeOK'
<1>1. events' \in Seq(Events) /\ (context = "lost" => events' = <<>>)
  BY EventsMade, TellsTypes DEF DeviceVanishes
<1>2. \A k \in Kinds : k \subseteq Devices
  BY DEF Kinds, Devices
<1>3. /\ default' \in [Kinds -> Devices \cup {NoDevice}]
      /\ \A k \in Kinds : default'[k] \in (k \cap there') \cup {NoDevice}
  <2>1. KindOf(d) \in Kinds /\ \A k \in Kinds : d \in k => k = KindOf(d)
    BY KindOfDevice
  <2>2. CASE default[KindOf(d)] = d
    <3>1. PICK e \in (KindOf(d) \cap there') \cup {NoDevice} : default' = [default EXCEPT ![KindOf(d)] = e]
      BY <2>2 DEF DeviceVanishes
    <3> QED
      BY <1>2, <2>1, <3>1 DEF DeviceVanishes, TypeOK
  <2>3. CASE default[KindOf(d)] # d
    BY <2>1, <2>3 DEF DeviceVanishes, TypeOK
  <2> QED
    BY <2>2, <2>3
<1>4. PulseInv'
  BY <1>3 DEF DeviceVanishes, volumeVars, TypeOK, PulseInv
<1>5. RequestInv'
  BY DEF DeviceVanishes, volumeVars, TypeOK, RequestInv
<1>6. KnownInv' /\ LostInv'
  BY <1>1, OtherCounts DEF DeviceVanishes, TypeOK, KnownInv, LostInv
<1> QED
  BY <1>4, <1>5, <1>6 DEF TypeOK, RequestInv, PulseInv, KnownInv, LostInv

LEMMA ContextTypes ==
  ASSUME TypeOK, ContextLost \/ ContextBack
  PROVE  TypeOK'
<1>1. CASE ContextLost
  <2>1. RequestInv'
    BY <1>1 DEF ContextLost, TypeOK, RequestInv
  <2>2. PulseInv'
    BY <1>1 DEF ContextLost, TypeOK, PulseInv
  <2>3. KnownInv' /\ LostInv'
    BY <1>1, OtherCounts DEF ContextLost, TypeOK, KnownInv, LostInv
  <2> QED
    BY <2>1, <2>2, <2>3 DEF TypeOK, RequestInv, PulseInv, KnownInv, LostInv
<1>2. CASE ContextBack
  <2>1. RequestInv' /\ PulseInv' /\ KnownInv' /\ LostInv'
    BY <1>2 DEF ContextBack, volumeVars, deviceVars, TypeOK, RequestInv, PulseInv, KnownInv, LostInv
  <2> QED
    BY <2>1 DEF TypeOK, RequestInv, PulseInv, KnownInv, LostInv
<1> QED
  BY <1>1, <1>2

LEMMA TypeStep == TypeOK /\ [Next]_vars => TypeOK'
<1> SUFFICES ASSUME TypeOK, [Next]_vars PROVE TypeOK'
  OBVIOUS
<1>1. CASE VolumeControl
  BY <1>1, AcceptTypes, RefuseTypes, RefusalsAreStatuses DEF VolumeControl
<1>2. CASE DeviceControl
  BY <1>2, SetMutedTypes, SetDefaultTypes, RefuseTypes, RefusalsAreStatuses DEF DeviceControl
<1>3. CASE Outside
  BY <1>3, CarryOutTypes, NotifyTypes, OtherSetsVolumeTypes, OtherDeviceTypes,
     DeviceVanishesTypes, ContextTypes DEF Outside
<1>4. CASE UNCHANGED vars
  BY <1>4 DEF vars, volumeVars, deviceVars, TypeOK
<1> QED
  BY <1>1, <1>2, <1>3, <1>4 DEF Next

(* The controllers keep their types; in particular no order asks for a     *)
(* volume beyond 100%, whatever is requested and however loud a sink is    *)
(* (clampNormalizedVolume), and no device that is not writable is ordered  *)
(* to change its volume or mute (isVolumeWritable).                        *)
THEOREM TypeCorrect == Spec => []TypeOK
BY TypeInit, TypeStep, PTL DEF Spec

(* A request never amplifies a sink: what an order leaves is within the    *)
(* normalized range, whatever others did to the sink before it was         *)
(* computed and until it is carried out (clampNormalizedVolume).           *)
THEOREM NoAmplification == Spec => NeverAmplifies
<1> DEFINE Amplified == \E s \in Sinks : volume'[s] > Normal /\ volume'[s] # volume[s] /\ ~(others' > others)
<1>1. ASSUME TypeOK, CarryOut PROVE ~Amplified
  <2> DEFINE order == Head(orders)
  <2>1. order \in Orders
    BY <1>1 DEF CarryOut, TypeOK
  <2>2. \/ UNCHANGED volume
        \/ order.setting = "volume" /\ volume' = [volume EXCEPT ![order.device] = order.target]
    BY <1>1 DEF CarryOut, CarryOutVolume, CarryOutDevice
  <2>3. order.setting = "volume" => order.target \in 0 .. Normal
    BY <2>1, OrderOfSetting DEF VolumeOrders
  <2> HIDE DEF order
  <2>4. \A s \in Sinks : volume'[s] = volume[s] \/ volume'[s] \in 0 .. Normal
    BY <1>1, <2>2, <2>3 DEF TypeOK
  <2> QED
    BY <2>4, VolumeAssumption
<1>2. ASSUME TypeOK, Other PROVE ~Amplified
  BY <1>2, BoundsAssumption DEF Other, TypeOK
<1>3. ASSUME TypeOK, [Next]_vars PROVE ~Amplified
  <2>1. CASE UNCHANGED volume
    BY <2>1
  <2>2. UNCHANGED volume \/ CarryOut \/ Other
    BY <1>3 DEF Next, VolumeControl, DeviceControl, Outside, Refuse, Accept, AcceptsVolume,
       SetMuted, SetDefault, Accepted, Notify, OtherSetsVolume, OtherMutes, OtherSetsDefault,
       DeviceVanishes, ContextLost, ContextBack, volumeVars, vars
  <2> QED
    BY <1>1, <1>2, <1>3, <2>1, <2>2
<1>4. TypeOK /\ [Next]_vars =>
        [\A s \in Sinks : volume'[s] > Normal => volume'[s] = volume[s] \/ others' > others]_vars
  BY <1>3
<1> QED
  BY <1>4, TypeCorrect, PTL DEF Spec, NeverAmplifies

-----------------------------------------------------------------------------
(* The latest request prevails *)

(* Of the orders of q that are in K the last one is in T; or there are     *)
(* none.                                                                   *)
LastIs(q, K, T) == \E i \in DOMAIN q : q[i] \in T /\ \A j \in DOMAIN q : q[j] \in K => j <= i
NoneOf(q, K) == \A j \in DOMAIN q : q[j] \notin K

LEMMA AppendsOther ==
  ASSUME NEW S, NEW q \in Seq(S), NEW o \in S, NEW K, NEW T, o \notin K
  PROVE  /\ LastIs(q, K, T) => LastIs(Append(q, o), K, T)
         /\ NoneOf(q, K) => NoneOf(Append(q, o), K)
<1>1. /\ DOMAIN Append(q, o) = 1 .. (Len(q) + 1) /\ DOMAIN q = 1 .. Len(q) /\ Len(q) \in Nat
      /\ \A i \in DOMAIN q : Append(q, o)[i] = q[i]
      /\ Append(q, o)[Len(q) + 1] = o
  OBVIOUS
<1>2. \A j \in DOMAIN Append(q, o) : Append(q, o)[j] \in K => j \in DOMAIN q /\ q[j] \in K
  BY <1>1
<1> QED
  BY <1>1, <1>2 DEF LastIs, NoneOf

LEMMA AppendsLast ==
  ASSUME NEW S, NEW q \in Seq(S), NEW o \in S, NEW K, NEW T, o \in T
  PROVE  LastIs(Append(q, o), K, T)
<1>1. /\ DOMAIN Append(q, o) = 1 .. (Len(q) + 1) /\ Len(q) \in Nat
      /\ Append(q, o)[Len(q) + 1] = o
  OBVIOUS
<1> QED
  BY <1>1 DEF LastIs

LEMMA TakesFirst ==
  ASSUME NEW S, NEW q \in Seq(S), q # <<>>, NEW K, NEW T, T \subseteq K
  PROVE  /\ LastIs(q, K, T) => LastIs(Tail(q), K, T) \/ (Head(q) \in T /\ NoneOf(Tail(q), K))
         /\ NoneOf(q, K) => Head(q) \notin K /\ NoneOf(Tail(q), K)
<1>1. /\ DOMAIN q = 1 .. Len(q) /\ Len(q) \in Nat /\ Len(q) > 0
      /\ DOMAIN Tail(q) = 1 .. (Len(q) - 1)
      /\ \A j \in DOMAIN Tail(q) : Tail(q)[j] = q[j + 1]
      /\ Head(q) = q[1]
  OBVIOUS
<1>2. ASSUME LastIs(q, K, T)
      PROVE  LastIs(Tail(q), K, T) \/ (Head(q) \in T /\ NoneOf(Tail(q), K))
  <2>1. PICK i \in DOMAIN q : q[i] \in T /\ \A j \in DOMAIN q : q[j] \in K => j <= i
    BY <1>2 DEF LastIs
  <2>2. CASE i = 1
    <3>1. \A j \in DOMAIN Tail(q) : Tail(q)[j] \notin K
      BY <1>1, <2>1, <2>2
    <3> QED
      BY <1>1, <2>1, <2>2, <3>1 DEF NoneOf
  <2>3. CASE i # 1
    <3>1. i - 1 \in DOMAIN Tail(q) /\ Tail(q)[i - 1] \in T
      BY <1>1, <2>1, <2>3
    <3>2. \A j \in DOMAIN Tail(q) : Tail(q)[j] \in K => j <= i - 1
      BY <1>1, <2>1
    <3> QED
      BY <3>1, <3>2 DEF LastIs
  <2> QED
    BY <2>2, <2>3
<1>3. ASSUME NoneOf(q, K) PROVE Head(q) \notin K /\ NoneOf(Tail(q), K)
  BY <1>1, <1>3 DEF NoneOf
<1> QED
  BY <1>2, <1>3

LEMMA NothingOrdered == \A K, T : ~LastIs(<<>>, K, T)
BY DEF LastIs

(* The orders about one setting of a device or kind, and those among them  *)
(* for what was asked last.                                                *)
VolumesOf(s) == {o \in Orders : o.setting = "volume" /\ o.device = s}
VolumesTo(s, target) == {o \in VolumesOf(s) : o.target = target}
MutesOf(d) == {o \in Orders : o.setting = "muted" /\ o.device = d}
MutesTo(d, target) == {o \in MutesOf(d) : o.target = target}
DefaultsOf(k) == {o \in Orders : o.setting = "default" /\ o.device \in k}
DefaultsTo(d) == {o \in Orders : o.setting = "default" /\ o.device = d}

(* What was asked last is the last order of its setting on its way, or     *)
(* there is none and PulseAudio has it.                                    *)
VolumeInv ==
  \A s \in Sinks : latest[s] # NoVolume =>
    \/ LastIs(orders, VolumesOf(s), VolumesTo(s, latest[s]))
    \/ NoneOf(orders, VolumesOf(s)) /\ (s \in there => volume[s] = latest[s])

MuteInv ==
  \A d \in Devices : \A target \in latestMuted[d] :
    \/ LastIs(orders, MutesOf(d), MutesTo(d, target))
    \/ NoneOf(orders, MutesOf(d)) /\ (d \in there => target = (d \in muted))

DefaultInv ==
  \A k \in Kinds : \A d \in latestDefault[k] :
    \/ LastIs(orders, DefaultsOf(k), DefaultsTo(d))
    \/ NoneOf(orders, DefaultsOf(k)) /\ (d \in there => default[k] = d)

PrevailInv == VolumeInv /\ MuteInv /\ DefaultInv

LEMMA PrevailInit == Init => PrevailInv
BY DEF Init, PrevailInv, VolumeInv, MuteInv, DefaultInv

LEMMA AcceptPrevails ==
  ASSUME TypeOK, PrevailInv, NEW s \in Sinks, NEW operation \in Operations, NEW value \in Values,
         Accept(s, operation, value)
  PROVE  PrevailInv'
<1> DEFINE target == Target(operation, known[s], value)
           o == VolumeOrder(s, operation, value, target)
<1>1. target \in 0 .. Normal
  BY TargetInRange, ValuesAssumption DEF TypeOK
<1>2. Listed(s) /\ s \in Writable
  BY AcceptedOnlyListed DEF Accept, AcceptsVolume
<1>3. o \in Orders /\ o.setting = "volume" /\ o.device = s /\ o.target = target
  BY <1>1, <1>2, OrdersMade DEF VolumeOrder
<1>4. orders' = Append(orders, o) /\ orders \in Seq(Orders)
  BY DEF Accept, TypeOK
<1>5. latest' = [latest EXCEPT ![s] = IF operation = "setVolume" THEN target ELSE NoVolume]
  BY DEF Accept, AcceptsVolume
<1>6. UNCHANGED <<there, volume, muted, default, latestMuted, latestDefault>>
  BY DEF Accept, AcceptsVolume, Accepted
<1> HIDE DEF o, target
<1>7. VolumeInv'
  <2> SUFFICES ASSUME NEW x \in Sinks, latest'[x] # NoVolume
               PROVE  \/ LastIs(orders', VolumesOf(x), VolumesTo(x, latest'[x]))
                      \/ NoneOf(orders', VolumesOf(x)) /\ (x \in there' => volume'[x] = latest'[x])
    BY DEF VolumeInv
  <2>1. CASE x = s
    <3>1. o \in VolumesTo(x, latest'[x])
      BY <1>3, <1>5, <2>1 DEF VolumesTo, VolumesOf, TypeOK
    <3> QED
      BY <1>3, <1>4, <3>1, AppendsLast
  <2>2. CASE x # s
    <3>1. o \notin VolumesOf(x) /\ latest'[x] = latest[x]
      BY <1>3, <1>5, <2>2 DEF VolumesOf, TypeOK
    <3> QED
      BY <1>3, <1>4, <1>6, <3>1, AppendsOther DEF PrevailInv, VolumeInv
  <2> QED
    BY <2>1, <2>2
<1>8. \A d : o \notin MutesOf(d) /\ o \notin DefaultsOf(d)
  BY <1>3 DEF MutesOf, DefaultsOf
<1>9. MuteInv' /\ DefaultInv'
  BY <1>3, <1>4, <1>6, <1>8, AppendsOther DEF PrevailInv, MuteInv, DefaultInv
<1> QED
  BY <1>7, <1>9 DEF PrevailInv

LEMMA SetMutedPrevails ==
  ASSUME TypeOK, PrevailInv, NEW d \in Devices, NEW target \in BOOLEAN, SetMuted(d, target)
  PROVE  PrevailInv'
<1> DEFINE o == MuteOrder(d, target)
<1>1. o \in Orders /\ o.setting = "muted" /\ o.device = d /\ o.target = target
  BY AcceptedOnlyListed, OrdersMade DEF SetMuted, MuteOrder
<1>2. orders' = Append(orders, o) /\ orders \in Seq(Orders)
  BY DEF SetMuted, TypeOK
<1>3. latestMuted' = [latestMuted EXCEPT ![d] = {target}]
  BY DEF SetMuted
<1>4. UNCHANGED <<there, volume, muted, default, latest, latestDefault>>
  BY DEF SetMuted, Accepted
<1> HIDE DEF o
<1>5. MuteInv'
  <2> SUFFICES ASSUME NEW x \in Devices, NEW t \in latestMuted'[x]
               PROVE  \/ LastIs(orders', MutesOf(x), MutesTo(x, t))
                      \/ NoneOf(orders', MutesOf(x)) /\ (x \in there' => t = (x \in muted'))
    BY DEF MuteInv
  <2>1. CASE x = d
    <3>1. o \in MutesTo(x, t)
      BY <1>1, <1>3, <2>1 DEF MutesTo, MutesOf, TypeOK
    <3> QED
      BY <1>1, <1>2, <3>1, AppendsLast
  <2>2. CASE x # d
    <3>1. o \notin MutesOf(x) /\ t \in latestMuted[x]
      BY <1>1, <1>3, <2>2 DEF MutesOf, TypeOK
    <3>2. \/ LastIs(orders, MutesOf(x), MutesTo(x, t))
          \/ NoneOf(orders, MutesOf(x)) /\ (x \in there => t = (x \in muted))
      BY <3>1 DEF PrevailInv, MuteInv
    <3> QED
      BY <1>1, <1>2, <1>4, <3>1, <3>2, AppendsOther
  <2> QED
    BY <2>1, <2>2
<1>6. \A k : o \notin VolumesOf(k) /\ o \notin DefaultsOf(k)
  BY <1>1 DEF VolumesOf, DefaultsOf
<1>7. VolumeInv' /\ DefaultInv'
  BY <1>1, <1>2, <1>4, <1>6, AppendsOther DEF PrevailInv, VolumeInv, DefaultInv
<1> QED
  BY <1>5, <1>7 DEF PrevailInv

LEMMA SetDefaultPrevails ==
  ASSUME TypeOK, PrevailInv, NEW d \in Devices, SetDefault(d)
  PROVE  PrevailInv'
<1> DEFINE o == DefaultOrder(d)
<1>1. o \in Orders /\ o.setting = "default" /\ o.device = d
  BY OrdersMade DEF DefaultOrder
<1>2. orders' = Append(orders, o) /\ orders \in Seq(Orders)
  BY DEF SetDefault, TypeOK
<1>3. latestDefault' = [latestDefault EXCEPT ![KindOf(d)] = {d}]
  BY DEF SetDefault
<1>4. UNCHANGED <<there, volume, muted, default, latest, latestMuted>>
  BY DEF SetDefault, Accepted
<1> HIDE DEF o
<1>5. DefaultInv'
  <2> SUFFICES ASSUME NEW k \in Kinds, NEW x \in latestDefault'[k]
               PROVE  \/ LastIs(orders', DefaultsOf(k), DefaultsTo(x))
                      \/ NoneOf(orders', DefaultsOf(k)) /\ (x \in there' => default'[k] = x)
    BY DEF DefaultInv
  <2>1. CASE k = KindOf(d)
    <3>1. o \in DefaultsTo(x)
      BY <1>1, <1>3, <2>1 DEF DefaultsTo, TypeOK
    <3> QED
      BY <1>1, <1>2, <3>1, AppendsLast
  <2>2. CASE k # KindOf(d)
    <3>1. o \notin DefaultsOf(k) /\ x \in latestDefault[k]
      BY <1>1, <1>3, <2>2, KindOfDevice DEF DefaultsOf, TypeOK
    <3> QED
      BY <1>1, <1>2, <1>4, <3>1, AppendsOther DEF PrevailInv, DefaultInv
  <2> QED
    BY <2>1, <2>2
<1>6. \A k : o \notin VolumesOf(k) /\ o \notin MutesOf(k)
  BY <1>1 DEF VolumesOf, MutesOf
<1>7. VolumeInv'
  BY <1>1, <1>2, <1>4, <1>6, AppendsOther DEF PrevailInv, VolumeInv
<1>8. MuteInv'
  BY <1>1, <1>2, <1>4, <1>6, AppendsOther DEF PrevailInv, MuteInv
<1> QED
  BY <1>5, <1>7, <1>8 DEF PrevailInv

(* An order carried out is the last of its setting, or not the latest.     *)
LEMMA CarryOutPrevails ==
  ASSUME TypeOK, PrevailInv, CarryOut
  PROVE  PrevailInv'
<1> DEFINE o == Head(orders)
           d == o.device
<1>1. o \in Orders /\ orders \in Seq(Orders) /\ orders # <<>> /\ orders' = Tail(orders)
  BY DEF CarryOut, TypeOK
<1>2. UNCHANGED <<there, latest, latestMuted, latestDefault>>
  BY DEF CarryOut
<1>3. \/ d \in there /\ o.setting = "volume" /\ CarryOutVolume(o)
      \/ d \in there /\ CarryOutDevice(o)
      \/ d \notin there /\ UNCHANGED <<volume, wanted, muted, default, events>>
  BY DEF CarryOut
<1> HIDE DEF o
<1>4. VolumeInv'
  <2> SUFFICES ASSUME NEW s \in Sinks, latest[s] # NoVolume
               PROVE  \/ LastIs(orders', VolumesOf(s), VolumesTo(s, latest[s]))
                      \/ NoneOf(orders', VolumesOf(s)) /\ (s \in there => volume'[s] = latest[s])
    BY <1>2 DEF VolumeInv
  <2>1. VolumesTo(s, latest[s]) \subseteq VolumesOf(s)
    BY DEF VolumesTo
  <2>2. o \in VolumesTo(s, latest[s]) => (s \in there => volume'[s] = latest[s])
    BY <1>3 DEF VolumesTo, VolumesOf, CarryOutVolume, CarryOutDevice, TypeOK
  <2>3. o \notin VolumesOf(s) => volume'[s] = volume[s]
    BY <1>1, <1>3 DEF VolumesOf, CarryOutVolume, CarryOutDevice, TypeOK
  <2>4. \/ LastIs(orders, VolumesOf(s), VolumesTo(s, latest[s]))
        \/ NoneOf(orders, VolumesOf(s)) /\ (s \in there => volume[s] = latest[s])
    BY DEF PrevailInv, VolumeInv
  <2> QED
    BY <1>1, <2>1, <2>2, <2>3, <2>4, TakesFirst DEF o
<1>5. MuteInv'
  <2> SUFFICES ASSUME NEW x \in Devices, NEW t \in latestMuted[x]
               PROVE  \/ LastIs(orders', MutesOf(x), MutesTo(x, t))
                      \/ NoneOf(orders', MutesOf(x)) /\ (x \in there => t = (x \in muted'))
    BY <1>2 DEF MuteInv
  <2>1. MutesTo(x, t) \subseteq MutesOf(x)
    BY DEF MutesTo
  <2>2. o \in MutesTo(x, t) => (x \in there => t = (x \in muted'))
    <3> SUFFICES ASSUME o \in MutesTo(x, t), x \in there PROVE t = (x \in muted')
      OBVIOUS
    <3>1. o.setting = "muted" /\ d = x /\ o.target = t /\ t \in BOOLEAN
      BY DEF MutesTo, MutesOf, TypeOK
    <3>2. muted' = IF o.target THEN muted \cup {d} ELSE muted \ {d}
      BY <1>3, <3>1 DEF CarryOutDevice
    <3>3. CASE t = TRUE
      BY <3>1, <3>2, <3>3
    <3>4. CASE t = FALSE
      BY <3>1, <3>2, <3>4
    <3> QED
      BY <3>1, <3>3, <3>4
  <2>3. o \notin MutesOf(x) => (x \in muted' <=> x \in muted)
    BY <1>1, <1>3 DEF MutesOf, CarryOutVolume, CarryOutDevice
  <2>4. \/ LastIs(orders, MutesOf(x), MutesTo(x, t))
        \/ NoneOf(orders, MutesOf(x)) /\ (x \in there => t = (x \in muted))
    BY DEF PrevailInv, MuteInv
  <2>5. \/ LastIs(orders', MutesOf(x), MutesTo(x, t))
        \/ /\ NoneOf(orders', MutesOf(x))
           /\ \/ o \in MutesTo(x, t)
              \/ o \notin MutesOf(x) /\ (x \in there => t = (x \in muted))
    BY <1>1, <2>1, <2>4, TakesFirst DEF o
  <2> QED
    BY <2>2, <2>3, <2>5
<1>6. DefaultInv'
  <2> SUFFICES ASSUME NEW k \in Kinds, NEW x \in latestDefault[k]
               PROVE  \/ LastIs(orders', DefaultsOf(k), DefaultsTo(x))
                      \/ NoneOf(orders', DefaultsOf(k)) /\ (x \in there => default'[k] = x)
    BY <1>2 DEF DefaultInv
  <2>0. x \in k /\ x \in Devices /\ KindOf(x) = k
    BY KindOfDevice DEF TypeOK
  <2>1. DefaultsTo(x) \subseteq DefaultsOf(k)
    BY <2>0 DEF DefaultsTo, DefaultsOf
  <2>2. o \in DefaultsTo(x) => (x \in there => default'[k] = x)
    BY <1>3, <2>0 DEF DefaultsTo, CarryOutDevice, TypeOK
  <2>3. o \notin DefaultsOf(k) => default'[k] = default[k]
    <3>1. d \in Devices
      BY <1>1, OrderOfSetting
    <3>2. o.setting = "default" /\ o \notin DefaultsOf(k) => KindOf(d) # k
      BY <1>1, <3>1, KindOfDevice DEF DefaultsOf
    <3> QED
      BY <1>3, <3>2 DEF CarryOutVolume, CarryOutDevice, TypeOK
  <2>4. \/ LastIs(orders, DefaultsOf(k), DefaultsTo(x))
        \/ NoneOf(orders, DefaultsOf(k)) /\ (x \in there => default[k] = x)
    BY DEF PrevailInv, DefaultInv
  <2> QED
    BY <1>1, <2>1, <2>2, <2>3, <2>4, TakesFirst DEF o
<1> QED
  BY <1>4, <1>5, <1>6 DEF PrevailInv

(* Others cancel what was asked of the device they change.                 *)
LEMMA OthersPrevail ==
  ASSUME TypeOK, PrevailInv,
         \/ \E s \in Sinks, v \in {0, Loudest} : OtherSetsVolume(s, v)
         \/ \E d \in Devices : OtherMutes(d) \/ OtherSetsDefault(d)
  PROVE  PrevailInv'
<1>1. ASSUME NEW s \in Sinks, NEW v \in {0, Loudest}, OtherSetsVolume(s, v) PROVE PrevailInv'
  <2>1. UNCHANGED <<orders, there, muted, default, latestMuted, latestDefault>>
    BY <1>1 DEF OtherSetsVolume, deviceVars
  <2>2. \A x \in Sinks : latest'[x] # NoVolume => latest'[x] = latest[x] /\ volume'[x] = volume[x]
    BY <1>1 DEF OtherSetsVolume, TypeOK
  <2>3. VolumeInv'
    BY <2>1, <2>2 DEF PrevailInv, VolumeInv
  <2>4. MuteInv' /\ DefaultInv'
    BY <2>1 DEF PrevailInv, MuteInv, DefaultInv
  <2> QED
    BY <2>3, <2>4 DEF PrevailInv
<1>2. ASSUME NEW d \in Devices, OtherMutes(d) PROVE PrevailInv'
  <2>1. UNCHANGED <<orders, there, volume, default, latest, latestDefault>>
    BY <1>2 DEF OtherMutes, volumeVars
  <2>2. \A x \in Devices : latestMuted'[x] # {} => latestMuted'[x] = latestMuted[x] /\ (x \in muted' <=> x \in muted)
    BY <1>2 DEF OtherMutes, TypeOK
  <2>3. MuteInv'
    <3> SUFFICES ASSUME NEW x \in Devices, NEW t \in latestMuted'[x]
                 PROVE  \/ LastIs(orders, MutesOf(x), MutesTo(x, t))
                        \/ NoneOf(orders, MutesOf(x)) /\ (x \in there => t = (x \in muted'))
      BY <2>1 DEF MuteInv
    <3>1. t \in latestMuted[x] /\ (x \in muted' <=> x \in muted)
      BY <2>2
    <3>2. \/ LastIs(orders, MutesOf(x), MutesTo(x, t))
          \/ NoneOf(orders, MutesOf(x)) /\ (x \in there => t = (x \in muted))
      BY <3>1 DEF PrevailInv, MuteInv
    <3> QED
      BY <3>1, <3>2
  <2>4. VolumeInv' /\ DefaultInv'
    BY <2>1 DEF PrevailInv, VolumeInv, DefaultInv
  <2> QED
    BY <2>3, <2>4 DEF PrevailInv
<1>3. ASSUME NEW d \in Devices, OtherSetsDefault(d) PROVE PrevailInv'
  <2>1. UNCHANGED <<orders, there, volume, muted, latest, latestMuted>>
    BY <1>3 DEF OtherSetsDefault, volumeVars
  <2>2. \A k \in Kinds : latestDefault'[k] # {} => latestDefault'[k] = latestDefault[k] /\ default'[k] = default[k]
    BY <1>3 DEF OtherSetsDefault, TypeOK
  <2>3. DefaultInv'
    BY <2>1, <2>2 DEF PrevailInv, DefaultInv
  <2>4. VolumeInv' /\ MuteInv'
    BY <2>1 DEF PrevailInv, VolumeInv, MuteInv
  <2> QED
    BY <2>3, <2>4 DEF PrevailInv
<1> QED
  BY <1>1, <1>2, <1>3

LEMMA DeviceVanishesPrevails ==
  ASSUME TypeOK, PrevailInv, NEW d \in Devices, DeviceVanishes(d)
  PROVE  PrevailInv'
<1>1. UNCHANGED <<orders, volume, muted, latest, latestMuted, latestDefault>> /\ there' \subseteq there
  BY DEF DeviceVanishes, volumeVars
<1>2. VolumeInv'
  BY <1>1 DEF PrevailInv, VolumeInv
<1>3. MuteInv'
  BY <1>1 DEF PrevailInv, MuteInv
<1>4. \A k \in Kinds : default[k] \in there' => default'[k] = default[k]
  BY KindOfDevice DEF DeviceVanishes, TypeOK
<1>5. DefaultInv'
  BY <1>1, <1>4 DEF PrevailInv, DefaultInv
<1> QED
  BY <1>2, <1>3, <1>5 DEF PrevailInv

LEMMA PrevailStep == TypeOK /\ PrevailInv /\ [Next]_vars => PrevailInv'
<1> SUFFICES ASSUME TypeOK, PrevailInv, [Next]_vars PROVE PrevailInv'
  OBVIOUS
<1>1. CASE UNCHANGED <<orders, there, volume, muted, default, latest, latestMuted, latestDefault>>
  BY <1>1 DEF PrevailInv, VolumeInv, MuteInv, DefaultInv
<1>2. CASE ContextLost
  BY <1>2 DEF ContextLost, PrevailInv, VolumeInv, MuteInv, DefaultInv
<1>3. CASE VolumeControl
  BY <1>1, <1>3, AcceptPrevails DEF VolumeControl, Refuse, volumeVars, deviceVars
<1>4. CASE DeviceControl
  BY <1>1, <1>4, SetMutedPrevails, SetDefaultPrevails DEF DeviceControl, Refuse, volumeVars, deviceVars
<1>5. CASE Notify \/ ContextBack \/ UNCHANGED vars
  BY <1>1, <1>5 DEF Notify, ContextBack, vars, volumeVars, deviceVars
<1> QED
  BY <1>2, <1>3, <1>4, <1>5, CarryOutPrevails, OthersPrevail, DeviceVanishesPrevails
  DEF Next, Outside

(* What was asked last of a device is what it is left at, for any number   *)
(* of requests and changes by others: volume, mute and default requests    *)
(* share one connection, and none is judged by a state that is stale       *)
(* (setResolvedSinkVolume, setResolvedDeviceMuted, setDefaultSink).        *)
THEOREM LatestPrevails == Spec => []LatestSetPrevails
<1>1. TypeOK /\ PrevailInv => LatestSetPrevails
  <2> SUFFICES ASSUME TypeOK, PrevailInv, orders = <<>>
               PROVE  /\ \A s \in Sinks \cap there : latest[s] # NoVolume => volume[s] = latest[s]
                      /\ \A d \in there : \A target \in latestMuted[d] : target = (d \in muted)
                      /\ \A k \in Kinds : \A d \in latestDefault[k] \cap there : default[k] = d
    BY DEF LatestSetPrevails
  <2>1. \A s \in Sinks \cap there : latest[s] # NoVolume => volume[s] = latest[s]
    BY NothingOrdered DEF PrevailInv, VolumeInv
  <2>2. ASSUME NEW d \in there, NEW target \in latestMuted[d] PROVE target = (d \in muted)
    <3>1. d \in Devices
      BY DEF TypeOK
    <3>2. \/ LastIs(<<>>, MutesOf(d), MutesTo(d, target))
          \/ NoneOf(orders, MutesOf(d)) /\ (d \in there => target = (d \in muted))
      BY <3>1 DEF PrevailInv, MuteInv
    <3> QED
      BY <3>2, NothingOrdered
  <2>3. \A k \in Kinds : \A d \in latestDefault[k] \cap there : default[k] = d
    BY NothingOrdered DEF PrevailInv, DefaultInv
  <2> QED
    BY <2>1, <2>2, <2>3
<1> QED
  BY <1>1, TypeInit, TypeStep, PrevailInit, PrevailStep, PTL DEF Spec
=============================================================================
