---------------------------- MODULE AudioObserver ----------------------------
(***************************************************************************)
(* PulseAudioStateObserver (pulse_audio_state_observer.cpp): how the       *)
(* service follows the audio devices of the desktop, and what              *)
(* AudioStateStore makes of the state it publishes.                        *)
(*                                                                         *)
(* PulseAudioQt (external) keeps the devices and the defaults and emits    *)
(* signals.  Everything runs in one thread: the signals of one change are  *)
(* handled before the next event, so one action is a change of PulseAudio  *)
(* together with the slots its signals call.  The order of the devices in  *)
(* a state (sortDevices) is left out: a state holds a set of them.         *)
(***************************************************************************)
EXTENDS Naturals

CONSTANTS
  Sinks, Sources,
  Monitors,    (* the sources isMonitorSource recognises                     *)
  Contents,    (* volume, mute, label, state and properties of a device      *)
  None,        (* no device                                                  *)
  MaxChanges   (* bound: changes of PulseAudio                               *)

ASSUME DevicesAssumption ==
  Monitors \subseteq Sources /\ Sinks \cap Sources = {} /\ None \notin Sinks \cup Sources
ASSUME ChangesAssumption == MaxChanges \in Nat

Devices == Sinks \cup Sources

VARIABLES
  context,            (* state of the connection to PulseAudio               *)
  present,            (* the devices PulseAudioQt knows                      *)
  content,            (* what it knows of each                               *)
  defaultSinkName,    (* the defaults the server names, present or not       *)
  defaultSourceName,
  attached,           (* m_attachedDevices                                   *)
  timer,              (* m_initialPublishTimer: "idle" or "armed"            *)
  published,          (* m_initialStatePublished                             *)
  state,              (* m_state, copied by the store at every signal        *)
  changes             (* how often PulseAudio has changed                    *)

pulseVars == <<context, present, content, defaultSinkName, defaultSourceName>>
vars == <<pulseVars, attached, timer, published, state, changes>>

-----------------------------------------------------------------------------
(* PulseAudioQt::Server: the default is the device of that name, if there. *)
DefaultSink == IF defaultSinkName \in present THEN defaultSinkName ELSE None
DefaultSource == IF defaultSourceName \in present THEN defaultSourceName ELSE None

IsMonitor(source) == source \in Monitors

(* deviceStateFromObject *)
DeviceState(device, selected, default) ==
  [id |-> device, content |-> content[device],
   isDefault |-> \/ selected # None /\ device = selected
                 \/ selected = None /\ device = default]

DeviceList(devices, selected, default) ==
  {DeviceState(d, selected, default) : d \in devices}

SelectedSource == IF IsMonitor(DefaultSource) THEN None ELSE DefaultSource

BuildStateOf(selectedSource) ==
  [sinks   |-> DeviceList(present \cap Sinks, DefaultSink, DefaultSink),
   sources |-> DeviceList((present \cap Sources) \ Monitors, selectedSource, DefaultSource),
   selectedSinkId   |-> DefaultSink,
   selectedSourceId |-> selectedSource]

BuildStateSelectingMonitors == BuildStateOf(DefaultSource)
BuildState == BuildStateOf(SelectedSource)

EmptyState == [sinks |-> {}, sources |-> {}, selectedSinkId |-> None, selectedSourceId |-> None]

DeviceStates(devices) == [id : devices, content : Contents, isDefault : BOOLEAN]
States == [sinks : SUBSET DeviceStates(Sinks), sources : SUBSET DeviceStates(Sources \ Monitors),
           selectedSinkId : Sinks \cup {None}, selectedSourceId : Sources \cup {None}]

TypeOK ==
  /\ context \in {"connecting", "ready", "failed"}
  /\ present \subseteq Devices
  /\ content \in [Devices -> Contents]
  /\ defaultSinkName \in Sinks \cup {None}
  /\ defaultSourceName \in Sources \cup {None}
  /\ attached \subseteq Devices \ Monitors
  /\ timer \in {"idle", "armed"}
  /\ published \in BOOLEAN
  /\ state \in States
  /\ changes \in 0 .. MaxChanges

(* After start(): connected to every signal, nothing known yet. *)
Init ==
  /\ context \in {"connecting", "failed"}
  /\ present = {} /\ content \in [Devices -> Contents]
  /\ defaultSinkName = None /\ defaultSourceName = None
  /\ attached = {} /\ timer = "idle" /\ published = FALSE
  /\ state = EmptyState
  /\ changes = 0

-----------------------------------------------------------------------------
(* Signals of PulseAudioQt and the slots connected to them *)

Signal(kind, device) == [kind |-> kind, device |-> device]

(* The server announces a changed default, and so does every device of     *)
(* that type.                                                              *)
DefaultSignals ==
  (IF DefaultSink' # DefaultSink
     THEN {Signal("defaultSinkChanged", DefaultSink')}
            \cup {Signal("deviceChanged", d) : d \in present \cap Sinks} ELSE {})
  \cup
  (IF DefaultSource' # DefaultSource
     THEN {Signal("defaultSourceChanged", DefaultSource')}
            \cup {Signal("deviceChanged", d) : d \in present \cap Sources} ELSE {})

(* Does a slot act on the signal?  Monitors are ignored, and only devices  *)
(* attached before are listened to.                                        *)
Heard(signal) ==
  IF signal.kind = "deviceChanged" THEN signal.device \in attached
  ELSE ~IsMonitor(signal.device)

(* Before the initial state is published a change of the devices or the    *)
(* defaults (re)starts the timer; afterwards every signal rebuilds the     *)
(* state.                                                                  *)
Handle(signals) ==
  LET heard == {signal \in signals : Heard(signal)} IN
  /\ UNCHANGED published
  /\ state' = IF published /\ heard # {} THEN BuildState' ELSE state
  /\ timer' = IF ~published /\ \E signal \in heard : signal.kind # "deviceChanged"
                THEN "armed" ELSE timer

AttachMonitorsToo(devices) == attached' = attached \cup devices
(* attachSink, attachSource *)
Attach(devices) == attached' = attached \cup (devices \ Monitors)
(* the destroyed signal *)
Detach(devices) == attached' = attached \ devices

Change == changes < MaxChanges /\ changes' = changes + 1

AddDeviceUnwatched(d, c) ==
  /\ context = "ready" /\ d \notin present
  /\ present' = present \cup {d} /\ content' = [content EXCEPT ![d] = c]
  /\ UNCHANGED <<context, defaultSinkName, defaultSourceName>>
  /\ UNCHANGED attached
  /\ Handle({Signal("deviceAdded", d)} \cup DefaultSignals)
  /\ Change

AddDevice(d, c) ==
  /\ context = "ready" /\ d \notin present
  /\ present' = present \cup {d} /\ content' = [content EXCEPT ![d] = c]
  /\ UNCHANGED <<context, defaultSinkName, defaultSourceName>>
  /\ Attach({d})
  /\ Handle({Signal("deviceAdded", d)} \cup DefaultSignals)
  /\ Change

RemoveDevice(d) ==
  /\ d \in present
  /\ present' = present \ {d}
  /\ UNCHANGED <<context, content, defaultSinkName, defaultSourceName>>
  /\ Detach({d})
  /\ Handle({Signal("deviceRemoved", d)} \cup DefaultSignals)
  /\ Change

ChangeDevice(d, c) ==
  /\ d \in present /\ content[d] # c
  /\ content' = [content EXCEPT ![d] = c]
  /\ UNCHANGED <<context, present, defaultSinkName, defaultSourceName, attached>>
  /\ Handle({Signal("deviceChanged", d)})
  /\ Change

ChangeDefaultSink(name) ==
  /\ context = "ready" /\ name # defaultSinkName
  /\ defaultSinkName' = name
  /\ UNCHANGED <<context, present, content, defaultSourceName, attached>>
  /\ Handle(DefaultSignals)
  /\ Change

ChangeDefaultSource(name) ==
  /\ context = "ready" /\ name # defaultSourceName
  /\ defaultSourceName' = name
  /\ UNCHANGED <<context, present, content, defaultSinkName, attached>>
  /\ Handle(DefaultSignals)
  /\ Change

-----------------------------------------------------------------------------
(* handleContextStateChanged *)

ContextReadyUnscheduled ==
  /\ context = "connecting" /\ context' = "ready"
  /\ UNCHANGED <<present, content, defaultSinkName, defaultSourceName>>
  /\ Attach(present)
  /\ state' = IF published THEN BuildState' ELSE state
  /\ UNCHANGED <<published, timer, changes>>

ContextReady ==
  /\ context = "connecting" /\ context' = "ready"
  /\ UNCHANGED <<present, content, defaultSinkName, defaultSourceName>>
  /\ Attach(present)
  /\ state' = IF published THEN BuildState' ELSE state
  /\ timer' = IF published THEN timer ELSE "armed"
  /\ UNCHANGED <<published, changes>>

(* A lost connection removes every device.  The observer reports the       *)
(* failure only before its initial state, and changes nothing itself.      *)
ContextFails ==
  /\ context # "failed" /\ context' = "failed"
  /\ present' = {} /\ defaultSinkName' = None /\ defaultSourceName' = None
  /\ UNCHANGED content
  /\ Detach(present)
  /\ Handle({Signal("deviceRemoved", d) : d \in present} \cup DefaultSignals)
  /\ Change

ContextReconnects ==
  /\ context = "failed" /\ context' = "connecting"
  /\ UNCHANGED <<present, content, defaultSinkName, defaultSourceName,
                 attached, timer, published, state, changes>>

(* 200 ms without a further start of the timer. *)
PublishInitialState ==
  /\ timer = "armed" /\ timer' = "idle"
  /\ ~published
  /\ published' = TRUE
  /\ Attach(present)
  /\ state' = BuildState
  /\ UNCHANGED <<pulseVars, changes>>

Next ==
  \/ \E d \in Devices, c \in Contents : AddDevice(d, c)
  \/ \E d \in Devices : RemoveDevice(d)
  \/ \E d \in Devices, c \in Contents : ChangeDevice(d, c)
  \/ \E name \in Sinks \cup {None} : ChangeDefaultSink(name)
  \/ \E name \in Sources \cup {None} : ChangeDefaultSource(name)
  \/ ContextReady
  \/ ContextFails
  \/ ContextReconnects
  \/ PublishInitialState

Spec == Init /\ [][Next]_vars

(* Qt timers fire.  Nothing is assumed of PulseAudio. *)
FairSpec == Spec /\ WF_vars(PublishInitialState)

-----------------------------------------------------------------------------
(* Once the initial state is published, the state the store holds is that  *)
(* of PulseAudio, after every change: no signal that matters is ignored,   *)
(* although changes of monitors and of unattached devices are              *)
(* (refreshAndEmit, attachSource, the defaultSourceChanged slot).          *)
PublishedIsCurrent == published => state = BuildState

(* A published selection names a listed device, which is the only one of   *)
(* its kind that is flagged default: AudioStateStore::defaultSink and      *)
(* defaultSource find it, and nothing when nothing is selected, even while *)
(* the default source of the server is a monitor.                          *)
FlaggedDefaults(devices) == {d.id : d \in {device \in devices : device.isDefault}}
SelectionIsListed ==
  published =>
    /\ FlaggedDefaults(state.sinks) = {state.selectedSinkId} \ {None}
    /\ FlaggedDefaults(state.sources) = {state.selectedSourceId} \ {None}

(* A service that was connected once publishes its initial state, whatever *)
(* happens in between, even when the connection is lost again              *)
(* (handleContextStateChanged, scheduleInitialPublish, the timer).         *)
InitialStatePublished == context = "ready" ~> published
=============================================================================
