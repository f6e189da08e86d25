---------------------------- MODULE AudioControl ----------------------------
(***************************************************************************)
(* PulseAudioVolumeController and PulseAudioDeviceController               *)
(* (pulse_audio_volume_controller.cpp, pulse_audio_device_controller.cpp): *)
(* sinks whose volume is set, incremented and decremented, sinks and       *)
(* sources that are muted and made the default, by requests of HTTP        *)
(* clients and of audio_control_probe, and by other programs.              *)
(*                                                                         *)
(* The volume controller reads the volume PulseAudioQt last heard of and   *)
(* sends the new one to PulseAudio.  Requests to PulseAudio and its        *)
(* notifications are asynchronous and stay in order (external).  Volumes   *)
(* are counted in steps of the backend, the rounded normalized value.      *)
(***************************************************************************)
EXTENDS Integers, Sequences

CONSTANTS
  Sinks, Sources,
  NoDevice,     (* there is no default device                                *)
  Writable,     (* the devices with isVolumeWritable                         *)
  Normal,       (* normalVolume, the normalized value 1.0                    *)
  Loudest,      (* other programs may amplify up to this                     *)
  Values,       (* values requested, in steps                                *)
  MaxRequests,  (* bound: accepted requests                                  *)
  MaxOthers     (* bound: changes by others: devices, connection             *)

Devices == Sinks \cup Sources

ASSUME DevicesAssumption ==
  Sinks \cap Sources = {} /\ NoDevice \notin Devices /\ Writable \subseteq Devices
ASSUME VolumeAssumption == Normal \in Nat /\ Loudest \in Nat /\ Normal <= Loudest
ASSUME ValuesAssumption == Values \subseteq Int
ASSUME BoundsAssumption == MaxRequests \in Nat /\ MaxOthers \in Nat

Kinds == {Sinks, Sources}
KindOf(d) == IF d \in Sinks THEN Sinks ELSE Sources
Volumes == 0 .. Loudest
Operations == {"setVolume", "incrementVolume", "decrementVolume"}
Statuses == {"Accepted", "NotReady", "NotFound", "NotWritable", "InvalidValue"}
NoVolume == -1

VARIABLES
  context,   (* "ready" or "lost"                                            *)
  found,     (* the devices PulseAudioQt lists                               *)
  known,     (* known[s]: sink->volume()                                     *)
  orders,    (* changes on their way to PulseAudio                           *)
  there,     (* the devices PulseAudio has                                   *)
  volume,    (* volume[s]: the volume PulseAudio has                         *)
  muted,     (* the devices muted in PulseAudio                              *)
  default,   (* default[k]: PulseAudio's default device of a kind            *)
  events,    (* notifications on their way back                              *)
  wanted,    (* history: what the requests and others, applied in order of   *)
             (* arrival to the volume of each sink, add up to                *)
  latest,    (* history: target of the latest setVolume, NoVolume when       *)
             (* something else was asked of the sink since                   *)
  latestMuted, latestDefault,
             (* history: what was last asked of a device or of a kind, {}    *)
             (* when others changed it since                                 *)
  answer,    (* the status of the last answer                                *)
  requests, others

volumeVars == <<volume, wanted, latest>>
deviceVars == <<muted, default, latestMuted, latestDefault>>
vars == <<context, found, known, orders, there, volumeVars, deviceVars, events, answer,
          requests, others>>

VolumeOrder(s, operation, value, target) ==
  [device |-> s, setting |-> "volume", operation |-> operation, value |-> value, target |-> target]
MuteOrder(d, target) == [device |-> d, setting |-> "muted", target |-> target]
DefaultOrder(d) == [device |-> d, setting |-> "default"]

Event(d, v) == [device |-> d, volume |-> v]

VolumeOrders ==
  [device : Sinks \cap Writable, setting : {"volume"}, operation : Operations,
   value : Values, target : 0 .. Normal]
MuteOrders == [device : Writable, setting : {"muted"}, target : BOOLEAN]
DefaultOrders == [device : Devices, setting : {"default"}]
Orders == VolumeOrders \cup MuteOrders \cup DefaultOrders
Events == [device : Devices, volume : Volumes \cup {NoVolume}]

TypeOK ==
  /\ context \in {"ready", "lost"}
  /\ found \subseteq Devices /\ there \subseteq Devices /\ muted \subseteq Devices
  /\ (context = "lost" => found = {} /\ orders = <<>> /\ events = <<>>)
  /\ known \in [Sinks -> Volumes] /\ volume \in [Sinks -> Volumes] /\ wanted \in [Sinks -> Volumes]
  /\ latest \in [Sinks -> 0 .. Normal \cup {NoVolume}]
  /\ default \in [Kinds -> Devices \cup {NoDevice}]
  /\ latestMuted \in [Devices -> SUBSET BOOLEAN]
  /\ latestDefault \in [Kinds -> SUBSET Devices]
  /\ \A k \in Kinds : /\ default[k] \in (k \cap there) \cup {NoDevice}
                      /\ latestDefault[k] \subseteq k
  /\ orders \in Seq(Orders)
  /\ events \in Seq(Events)
  /\ answer \in Statuses \cup {"none"}
  /\ requests \in 0 .. MaxRequests /\ others \in 0 .. MaxOthers

Init ==
  /\ context = "ready" /\ found = Devices /\ there = Devices
  /\ volume \in [Sinks -> {0, Loudest}]
  /\ known = volume /\ wanted = volume
  /\ muted = {} /\ default = [k \in Kinds |-> NoDevice]
  /\ orders = <<>> /\ events = <<>>
  /\ latest = [s \in Sinks |-> NoVolume]
  /\ latestMuted = [d \in Devices |-> {}] /\ latestDefault = [k \in Kinds |-> {}]
  /\ answer = "none"
  /\ requests = 0 /\ others = 0

-----------------------------------------------------------------------------
ClampNormalizedVolume(value) ==
  IF value < 0 THEN 0 ELSE IF value > Normal THEN Normal ELSE value

TargetUnclamped(operation, previous, value) ==
  CASE operation = "setVolume"       -> ClampNormalizedVolume(value)
    [] operation = "incrementVolume" -> previous + value
    [] operation = "decrementVolume" -> ClampNormalizedVolume(previous - value)

(* What an operation makes of a volume; setVolume does not look at it.     *)
Target(operation, previous, value) ==
  CASE operation = "setVolume"       -> ClampNormalizedVolume(value)
    [] operation = "incrementVolume" -> ClampNormalizedVolume(previous + value)
    [] operation = "decrementVolume" -> ClampNormalizedVolume(previous - value)

(* The refusal of values that are not finite is left out: JSON cannot      *)
(* carry one.                                                              *)
InvalidValue(operation, value) == operation # "setVolume" /\ value < 0

(* readyContext and findSink or findSource. *)
Listed(d) == context = "ready" /\ d \in found

Missing(d) ==
  CASE context # "ready" -> {"NotReady"}
    [] d \notin found    -> {"NotFound"}
    [] OTHER             -> {}

(* Refusals, in the order of the code; {} when the request is accepted.    *)
VolumeRefusal(s, operation, value) ==
  CASE InvalidValue(operation, value) -> {"InvalidValue"}
    [] ~Listed(s)                     -> Missing(s)
    [] s \notin Writable              -> {"NotWritable"}
    [] OTHER                          -> {}

MuteRefusal(d) ==
  IF Listed(d) THEN IF d \in Writable THEN {} ELSE {"NotWritable"} ELSE Missing(d)

Refuse(refusal) ==
  /\ answer' \in refusal
  /\ UNCHANGED <<context, found, known, orders, there, volumeVars, deviceVars, events,
                 requests, others>>

Accepted ==
  /\ requests < MaxRequests /\ requests' = requests + 1
  /\ answer' = "Accepted"
  /\ UNCHANGED <<context, found, known, there, volume, wanted, muted, default, events, others>>

AcceptsVolume(s, operation, value) ==
  /\ VolumeRefusal(s, operation, value) = {}
  /\ Accepted
  /\ latest' = [latest EXCEPT ![s] = IF operation = "setVolume" THEN Target(operation, known[s], value)
                                     ELSE NoVolume]
  /\ UNCHANGED <<latestMuted, latestDefault>>

AcceptUnlessKnown(s, operation, value) ==
  /\ AcceptsVolume(s, operation, value)
  /\ LET target == Target(operation, known[s], value) IN
     orders' = IF target = known[s] THEN orders
               ELSE Append(orders, VolumeOrder(s, operation, value, target))

(* setResolvedSinkVolume: the volume is sent even when it is the known one. *)
Accept(s, operation, value) ==
  /\ AcceptsVolume(s, operation, value)
  /\ orders' = Append(orders, VolumeOrder(s, operation, value, Target(operation, known[s], value)))

(* setResolvedDeviceMuted *)
SetMuted(d, target) ==
  /\ MuteRefusal(d) = {}
  /\ Accepted
  /\ orders' = Append(orders, MuteOrder(d, target))
  /\ latestMuted' = [latestMuted EXCEPT ![d] = {target}]
  /\ UNCHANGED <<latest, latestDefault>>

(* setDefaultSink, setDefaultSource *)
SetDefault(d) ==
  /\ Missing(d) = {}
  /\ Accepted
  /\ orders' = Append(orders, DefaultOrder(d))
  /\ latestDefault' = [latestDefault EXCEPT ![KindOf(d)] = {d}]
  /\ UNCHANGED <<latest, latestMuted>>

-----------------------------------------------------------------------------
(* PulseAudio, PulseAudioQt and other programs (external) *)

(* PulseAudio carries out an order, unless the device is gone.  What the   *)
(* controllers read, the volume, is notified.                              *)
CarryOutVolume(order) ==
  LET s == order.device
  IN  /\ volume' = [volume EXCEPT ![s] = order.target]
      /\ wanted' = [wanted EXCEPT ![s] = Target(order.operation, wanted[s], order.value)]
      /\ events' = Append(events, Event(s, order.target))
      /\ UNCHANGED <<muted, default>>

CarryOutDevice(order) ==
  LET d == order.device
  IN  /\ \/ /\ order.setting = "muted"
            /\ muted' = IF order.target THEN muted \cup {d} ELSE muted \ {d}
            /\ UNCHANGED default
         \/ /\ order.setting = "default"
            /\ default' = [default EXCEPT ![KindOf(d)] = d]
            /\ UNCHANGED muted
      /\ UNCHANGED <<volume, wanted, events>>

CarryOut ==
  /\ orders # <<>>
  /\ orders' = Tail(orders)
  /\ LET order == Head(orders)
     IN  \/ order.device \in there /\ order.setting = "volume" /\ CarryOutVolume(order)
         \/ order.device \in there /\ CarryOutDevice(order)
         \/ order.device \notin there /\ UNCHANGED <<volume, wanted, muted, default, events>>
  /\ UNCHANGED <<context, found, known, there, latest, latestMuted, latestDefault, answer,
                 requests, others>>

(* PulseAudioQt hears of it. *)
Notify ==
  /\ events # <<>>
  /\ events' = Tail(events)
  /\ LET event == Head(events) IN
     IF event.volume = NoVolume
       THEN found' = found \ {event.device} /\ UNCHANGED known
       ELSE known' = [known EXCEPT ![event.device] = event.volume] /\ UNCHANGED found
  /\ UNCHANGED <<context, orders, there, volumeVars, deviceVars, answer, requests, others>>

Other == others < MaxOthers /\ others' = others + 1

Tells(event) == events' = IF context = "ready" THEN Append(events, event) ELSE events

OtherSetsVolume(s, v) ==
  /\ Other
  /\ s \in there /\ volume[s] # v
  /\ volume' = [volume EXCEPT ![s] = v] /\ wanted' = [wanted EXCEPT ![s] = v]
  /\ latest' = [latest EXCEPT ![s] = NoVolume]
  /\ Tells(Event(s, v))
  /\ UNCHANGED <<context, found, known, orders, there, deviceVars, answer, requests>>

OtherMutes(d) ==
  /\ Other
  /\ d \in there
  /\ muted' = IF d \in muted THEN muted \ {d} ELSE muted \cup {d}
  /\ latestMuted' = [latestMuted EXCEPT ![d] = {}]
  /\ UNCHANGED <<context, found, known, orders, there, volumeVars, default, latestDefault, events,
                 answer, requests>>

OtherSetsDefault(d) ==
  /\ Other
  /\ d \in there /\ default[KindOf(d)] # d
  /\ default' = [default EXCEPT ![KindOf(d)] = d]
  /\ latestDefault' = [latestDefault EXCEPT ![KindOf(d)] = {}]
  /\ UNCHANGED <<context, found, known, orders, there, volumeVars, muted, latestMuted, events,
                 answer, requests>>

(* Another device of its kind, if there is one, takes over as default.     *)
DeviceVanishes(d) ==
  /\ Other
  /\ d \in there /\ there' = there \ {d}
  /\ LET k == KindOf(d)
     IN  IF default[k] = d
           THEN \E e \in (k \cap there') \cup {NoDevice} : default' = [default EXCEPT ![k] = e]
           ELSE UNCHANGED default
  /\ Tells(Event(d, NoVolume))
  /\ UNCHANGED <<context, found, known, orders, volumeVars, muted, latestMuted, latestDefault,
                 answer, requests>>

ContextLost ==
  /\ Other
  /\ context = "ready" /\ context' = "lost"
  /\ found' = {} /\ orders' = <<>> /\ events' = <<>>
  /\ latest' = [s \in Sinks |-> NoVolume]
  /\ latestMuted' = [d \in Devices |-> {}] /\ latestDefault' = [k \in Kinds |-> {}]
  /\ UNCHANGED <<known, there, volume, wanted, muted, default, answer, requests>>

ContextBack ==
  /\ context = "lost" /\ context' = "ready"
  /\ found' = there /\ known' = volume
  /\ UNCHANGED <<orders, there, volumeVars, deviceVars, events, answer, requests, others>>

VolumeControl ==
  \E s \in Sinks, operation \in Operations, value \in Values :
    \/ Refuse(VolumeRefusal(s, operation, value))
    \/ Accept(s, operation, value)

DeviceControl ==
  \E d \in Devices :
    \/ Refuse(MuteRefusal(d))
    \/ \E target \in BOOLEAN : SetMuted(d, target)
    \/ Refuse(Missing(d))
    \/ SetDefault(d)

Outside ==
  \/ CarryOut
  \/ Notify
  \/ \E s \in Sinks, v \in {0, Loudest} : OtherSetsVolume(s, v)
  \/ \E d \in Devices : OtherMutes(d)
  \/ \E d \in Devices : OtherSetsDefault(d)
  \/ \E d \in Devices : DeviceVanishes(d)
  \/ ContextLost
  \/ ContextBack

Next == VolumeControl \/ DeviceControl \/ Outside

Spec == Init /\ [][Next]_vars

-----------------------------------------------------------------------------
(* What was asked last is what a device is left at, whatever is on its way *)
(* when it is asked: a volume must not be judged by one that is stale      *)
(* (setResolvedSinkVolume), and volume, mute and default requests of       *)
(* several devices share one connection (setResolvedDeviceMuted,           *)
(* setDefaultSink).                                                        *)
LatestSetPrevails ==
  orders = <<>> =>
    /\ \A s \in Sinks \cap there : latest[s] # NoVolume => volume[s] = latest[s]
    /\ \A d \in there : \A target \in latestMuted[d] : target = (d \in muted)
    /\ \A k \in Kinds : \A d \in latestDefault[k] \cap there : default[k] = d

(* A request never amplifies a sink: it is left within the normalized      *)
(* range whatever others did to it before (clampNormalizedVolume).         *)
NeverAmplifies ==
  [][\A s \in Sinks : volume'[s] > Normal => volume'[s] = volume[s] \/ others' > others]_vars

(* Once everything has arrived the accepted requests and the changes of    *)
(* others have added up: an increment "increases the normalized sink       *)
(* volume by a non-negative delta" (specs/openapi.yaml), however soon it   *)
(* follows another one.                                                    *)
DeltasAddUp ==
  \A s \in Sinks \cap there : (orders = <<>> /\ events = <<>>) => volume[s] = wanted[s]
=============================================================================
