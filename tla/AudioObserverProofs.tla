------------------------- MODULE AudioObserverProofs -------------------------
(***************************************************************************)
(* Proofs about AudioObserver, for all sets of devices and contents and    *)
(* any number of changes.                                                  *)
(***************************************************************************)
EXTENDS AudioObserver, TLAPS

-----------------------------------------------------------------------------
(* Types *)

LEMMA DefaultTypes ==
  ASSUME TypeOK
  PROVE  /\ DefaultSink \in (present \cap Sinks) \cup {None}
         /\ DefaultSource \in (present \cap Sources) \cup {None}
         /\ SelectedSource \in ((present \cap Sources) \ Monitors) \cup {None}
         /\ SelectedSource = None => DefaultSource \in Monitors \cup {None}
  BY DevicesAssumption DEF TypeOK, DefaultSink, DefaultSource, SelectedSource, IsMonitor

(* What the environment and the slots leave of the types, apart from the   *)
(* published state.                                                        *)
Rest ==
  /\ context \in {"connecting", "ready", "failed"}
  /\ present \subseteq Devices
  /\ content \in [Devices -> Contents]
  /\ defaultSinkName \in Sinks \cup {None}
  /\ defaultSourceName \in Sources \cup {None}
  /\ attached \subseteq Devices \ Monitors
  /\ timer \in {"idle", "armed"}
  /\ published \in BOOLEAN
  /\ changes \in 0 .. MaxChanges

LEMMA TypeSplit == TypeOK <=> Rest /\ state \in States
  BY DEF TypeOK, Rest

(* A state that is rebuilt or kept is well typed. *)
LEMMA RebuiltType ==
  ASSUME TypeOK, Rest', state' \in {state, BuildState'}
  PROVE  TypeOK'
<1>1. ASSUME NEW D, NEW d \in D, D \subseteq Devices, NEW selected, NEW default
      PROVE  DeviceState(d, selected, default)' \in DeviceStates(D)
  BY <1>1 DEF Rest, DeviceState, DeviceStates
<1>2. {DeviceState(d, DefaultSink, DefaultSink)' : d \in present' \cap Sinks} \subseteq DeviceStates(Sinks)
  BY <1>1 DEF Devices
<1>3. {DeviceState(d, SelectedSource, DefaultSource)' : d \in (present' \cap Sources) \ Monitors}
        \subseteq DeviceStates(Sources \ Monitors)
  BY <1>1 DEF Devices
<1>4. DefaultSink' \in Sinks \cup {None} /\ SelectedSource' \in Sources \cup {None}
  BY DevicesAssumption DEF Rest, DefaultSink, DefaultSource, SelectedSource, IsMonitor
<1>5. BuildState' \in States
  BY <1>2, <1>3, <1>4 DEF BuildState, BuildStateOf, DeviceList, States
<1> QED BY <1>5, TypeSplit DEF TypeOK, Rest

LEMMA HandleRebuilds ==
  ASSUME NEW signals, Handle(signals)
  PROVE  state' \in {state, BuildState'}
  BY DEF Handle

LEMMA TypeInit == Init => TypeOK
<1>1. EmptyState \in States
  BY DEF EmptyState, States
<1>2. Init => Rest
  <2> SUFFICES ASSUME Init PROVE Rest
    OBVIOUS
  <2>1. changes \in 0 .. MaxChanges
    BY ChangesAssumption DEF Init
  <2>2. context \in {"connecting", "ready", "failed"} /\ timer \in {"idle", "armed"}
    BY DEF Init
  <2>3. content \in [Devices -> Contents] /\ published \in BOOLEAN
    BY DEF Init
  <2>4. present \subseteq Devices /\ attached \subseteq Devices \ Monitors
    BY DEF Init
  <2> QED BY <2>1, <2>2, <2>3, <2>4 DEF Init, Rest
<1> QED BY <1>1, <1>2, TypeSplit DEF Init

LEMMA TypeStep == TypeOK /\ [Next]_vars => TypeOK'
<1> SUFFICES ASSUME TypeOK, [Next]_vars PROVE TypeOK'
  OBVIOUS
<1>1. ASSUME NEW d \in Devices, NEW c \in Contents, AddDevice(d, c) PROVE TypeOK'
  <2>1. Rest'
    BY <1>1, ChangesAssumption DEF AddDevice, Attach, Handle, Change, TypeOK, Rest
  <2> QED BY <1>1, <2>1, HandleRebuilds, RebuiltType DEF AddDevice
<1>2. ASSUME NEW d \in Devices, RemoveDevice(d) PROVE TypeOK'
  <2>1. Rest'
    BY <1>2, ChangesAssumption DEF RemoveDevice, Detach, Handle, Change, TypeOK, Rest
  <2> QED BY <1>2, <2>1, HandleRebuilds, RebuiltType DEF RemoveDevice
<1>3. ASSUME NEW d \in Devices, NEW c \in Contents, ChangeDevice(d, c) PROVE TypeOK'
  <2>1. Rest'
    BY <1>3, ChangesAssumption DEF ChangeDevice, Handle, Change, TypeOK, Rest
  <2> QED BY <1>3, <2>1, HandleRebuilds, RebuiltType DEF ChangeDevice
<1>4. ASSUME NEW name \in Sinks \cup {None}, ChangeDefaultSink(name) PROVE TypeOK'
  <2>1. Rest'
    BY <1>4, ChangesAssumption DEF ChangeDefaultSink, Handle, Change, TypeOK, Rest
  <2> QED BY <1>4, <2>1, HandleRebuilds, RebuiltType DEF ChangeDefaultSink
<1>5. ASSUME NEW name \in Sources \cup {None}, ChangeDefaultSource(name) PROVE TypeOK'
  <2>1. Rest'
    BY <1>5, ChangesAssumption DEF ChangeDefaultSource, Handle, Change, TypeOK, Rest
  <2> QED BY <1>5, <2>1, HandleRebuilds, RebuiltType DEF ChangeDefaultSource
<1>6. CASE ContextReady
  <2>1. Rest'
    BY <1>6 DEF ContextReady, Attach, TypeOK, Rest
  <2> QED BY <1>6, <2>1, RebuiltType DEF ContextReady
<1>7. CASE ContextFails
  <2>1. Rest'
    BY <1>7, ChangesAssumption DEF ContextFails, Detach, Handle, Change, TypeOK, Rest
  <2> QED BY <1>7, <2>1, HandleRebuilds, RebuiltType DEF ContextFails
<1>8. CASE ContextReconnects
  BY <1>8 DEF ContextReconnects, TypeOK
<1>9. CASE PublishInitialState
  <2>1. Rest'
    BY <1>9 DEF PublishInitialState, Attach, TypeOK, Rest, pulseVars
  <2>2. state' = BuildState'
    BY <1>9 DEF PublishInitialState, pulseVars, BuildState, BuildStateOf, DeviceList, DeviceState,
                SelectedSource, DefaultSource, DefaultSink, IsMonitor
  <2> QED BY <2>1, <2>2, RebuiltType
<1>10. CASE UNCHANGED vars
  BY <1>10 DEF vars, pulseVars, TypeOK
<1> QED BY <1>1, <1>2, <1>3, <1>4, <1>5, <1>6, <1>7, <1>8, <1>9, <1>10 DEF Next

(* Every reachable state is well typed: no monitor is ever attached or     *)
(* listed (attachSource, buildState).                                      *)
THEOREM TypeCorrect == Spec => []TypeOK
  BY TypeInit, TypeStep, PTL DEF Spec

-----------------------------------------------------------------------------
(* The published state is that of PulseAudio *)

(* Every device that is not a monitor is listened to from the moment it    *)
(* appears: this is what makes up for the signals that are ignored.        *)
Watched == attached = present \ Monitors

(* buildState depends on the devices that are not monitors, and on a       *)
(* default that is one not at all.                                         *)
LEMMA SameBuild ==
  ASSUME TypeOK, present' \subseteq Devices,
         present' \ Monitors = present \ Monitors,
         \A d \in present \ Monitors : content'[d] = content[d],
         DefaultSink' = DefaultSink,
         SelectedSource' = SelectedSource
  PROVE  BuildState' = BuildState
<1>1. \A d \in present \cap Sinks :
        DeviceState(d, DefaultSink, DefaultSink)' = DeviceState(d, DefaultSink, DefaultSink)
  BY DevicesAssumption DEF DeviceState
<1>2. present' \cap Sinks = present \cap Sinks
  BY DevicesAssumption
<1>3. \A d \in (present \cap Sources) \ Monitors :
        DeviceState(d, SelectedSource, DefaultSource)' = DeviceState(d, SelectedSource, DefaultSource)
  <2> SUFFICES ASSUME NEW d \in (present \cap Sources) \ Monitors
               PROVE  DeviceState(d, SelectedSource, DefaultSource)'
                        = DeviceState(d, SelectedSource, DefaultSource)
    OBVIOUS
  <2>1. SelectedSource = None => DefaultSource # d /\ DefaultSource' # d
    BY DevicesAssumption DEF SelectedSource, IsMonitor
  <2> QED BY <2>1 DEF DeviceState
<1>4. (present' \cap Sources) \ Monitors = (present \cap Sources) \ Monitors
  OBVIOUS
<1> QED BY <1>1, <1>2, <1>3, <1>4 DEF BuildState, BuildStateOf, DeviceList

(* What a change has to give: whatever no slot hears changes nothing that  *)
(* buildState looks at.                                                    *)
LEMMA HandleKeepsCurrent ==
  ASSUME PublishedIsCurrent, NEW signals, Handle(signals),
         (\A signal \in signals : ~Heard(signal)) => BuildState' = BuildState
  PROVE  PublishedIsCurrent'
  BY DEF Handle, PublishedIsCurrent

(* A default sink that changes is announced by a signal with a slot; a     *)
(* default source that becomes a monitor is announced by the device that   *)
(* was the default before.                                                 *)
LEMMA UnheardDefaults ==
  ASSUME TypeOK, Watched, \A signal \in DefaultSignals : ~Heard(signal),
         defaultSinkName' \in Sinks \cup {None}, defaultSourceName' \in Sources \cup {None},
         present' \subseteq Devices
  PROVE  DefaultSink' = DefaultSink /\ SelectedSource' = SelectedSource
<1>1. DefaultSink' = DefaultSink
  <2> SUFFICES ASSUME DefaultSink' # DefaultSink PROVE FALSE
    OBVIOUS
  <2>1. Signal("defaultSinkChanged", DefaultSink') \in DefaultSignals
    BY DEF DefaultSignals
  <2>2. DefaultSink' \notin Monitors
    BY DevicesAssumption DEF DefaultSink
  <2> QED BY <2>1, <2>2 DEF Heard, Signal, IsMonitor
<1>2. SelectedSource' = SelectedSource
  <2> SUFFICES ASSUME DefaultSource' # DefaultSource PROVE SelectedSource' = SelectedSource
    BY DEF SelectedSource
  <2>1. Signal("defaultSourceChanged", DefaultSource') \in DefaultSignals
    BY DEF DefaultSignals
  <2>2. DefaultSource' \in Monitors
    BY <2>1 DEF Heard, Signal, IsMonitor
  <2>3. DefaultSource \in Monitors \cup {None}
    <3> SUFFICES ASSUME DefaultSource \in (present \cap Sources) \ Monitors PROVE FALSE
      BY DefaultTypes
    <3>1. Signal("deviceChanged", DefaultSource) \in DefaultSignals
      BY DEF DefaultSignals
    <3> QED BY <3>1 DEF Heard, Signal, Watched
  <2> QED BY <2>2, <2>3 DEF SelectedSource, IsMonitor
<1> QED BY <1>1, <1>2

LEMMA WatchedInit == Init => Watched
  BY DEF Init, Watched

LEMMA WatchedStep == TypeOK /\ Watched /\ [Next]_vars => Watched'
  BY DEF Next, vars, pulseVars, Watched, AddDevice, RemoveDevice, ChangeDevice, ChangeDefaultSink,
         ChangeDefaultSource, ContextReady, ContextFails, ContextReconnects, PublishInitialState,
         Attach, Detach

LEMMA CurrentStep == TypeOK /\ Watched /\ PublishedIsCurrent /\ [Next]_vars => PublishedIsCurrent'
<1> SUFFICES ASSUME TypeOK, Watched, PublishedIsCurrent, [Next]_vars PROVE PublishedIsCurrent'
  OBVIOUS
<1>t. TypeOK'
  BY TypeStep
<1>t1. /\ present' \subseteq Devices
       /\ defaultSinkName' \in Sinks \cup {None} /\ defaultSourceName' \in Sources \cup {None}
  BY <1>t DEF TypeOK
<1>1. ASSUME NEW d \in Devices, NEW c \in Contents, AddDevice(d, c) PROVE PublishedIsCurrent'
  <2> DEFINE signals == {Signal("deviceAdded", d)} \cup DefaultSignals
  <2>1. ASSUME \A signal \in signals : ~Heard(signal) PROVE BuildState' = BuildState
    <3>0. ~Heard(Signal("deviceAdded", d))
      BY <2>1
    <3>1. d \in Monitors
      BY <3>0 DEF Heard, Signal, IsMonitor
    <3>2. DefaultSink' = DefaultSink /\ SelectedSource' = SelectedSource
      BY <2>1, <1>t1, UnheardDefaults
    <3>3. /\ present' \ Monitors = present \ Monitors
          /\ \A e \in present \ Monitors : content'[e] = content[e]
      BY <1>1, <3>1 DEF AddDevice, TypeOK
    <3> QED BY <3>2, <3>3, <1>t1, SameBuild
  <2>2. Handle(signals)
    BY <1>1 DEF AddDevice
  <2> HIDE DEF signals
  <2> QED BY <2>1, <2>2, HandleKeepsCurrent
<1>2. ASSUME NEW d \in Devices, RemoveDevice(d) PROVE PublishedIsCurrent'
  <2> DEFINE signals == {Signal("deviceRemoved", d)} \cup DefaultSignals
  <2>1. ASSUME \A signal \in signals : ~Heard(signal) PROVE BuildState' = BuildState
    <3>0. ~Heard(Signal("deviceRemoved", d))
      BY <2>1
    <3>1. d \in Monitors
      BY <3>0 DEF Heard, Signal, IsMonitor
    <3>2. DefaultSink' = DefaultSink /\ SelectedSource' = SelectedSource
      BY <2>1, <1>t1, UnheardDefaults
    <3>3. /\ present' \ Monitors = present \ Monitors
          /\ \A e \in present \ Monitors : content'[e] = content[e]
      BY <1>2, <3>1 DEF RemoveDevice
    <3> QED BY <3>2, <3>3, <1>t1, SameBuild
  <2>2. Handle(signals)
    BY <1>2 DEF RemoveDevice
  <2> HIDE DEF signals
  <2> QED BY <2>1, <2>2, HandleKeepsCurrent
<1>3. ASSUME NEW d \in Devices, NEW c \in Contents, ChangeDevice(d, c) PROVE PublishedIsCurrent'
  <2> DEFINE signals == {Signal("deviceChanged", d)}
  <2>1. ASSUME \A signal \in signals : ~Heard(signal) PROVE BuildState' = BuildState
    <3>0. ~Heard(Signal("deviceChanged", d))
      BY <2>1
    <3>1. d \in Monitors
      BY <1>3, <3>0 DEF Heard, Signal, Watched, ChangeDevice
    <3>2. DefaultSink' = DefaultSink /\ SelectedSource' = SelectedSource
      BY <1>3 DEF ChangeDevice, DefaultSink, DefaultSource, SelectedSource
    <3>3. /\ present' \ Monitors = present \ Monitors
          /\ \A e \in present \ Monitors : content'[e] = content[e]
      BY <1>3, <3>1 DEF ChangeDevice, TypeOK
    <3> QED BY <3>2, <3>3, <1>t1, SameBuild
  <2>2. Handle(signals)
    BY <1>3 DEF ChangeDevice
  <2> HIDE DEF signals
  <2> QED BY <2>1, <2>2, HandleKeepsCurrent
<1>4. ASSUME NEW name \in Sinks \cup {None}, ChangeDefaultSink(name) PROVE PublishedIsCurrent'
  <2>1. ASSUME \A signal \in DefaultSignals : ~Heard(signal) PROVE BuildState' = BuildState
    <3>1. DefaultSink' = DefaultSink /\ SelectedSource' = SelectedSource
      BY <2>1, <1>t1, UnheardDefaults
    <3> QED BY <1>4, <3>1, <1>t1, SameBuild DEF ChangeDefaultSink
  <2> QED BY <1>4, <2>1, HandleKeepsCurrent DEF ChangeDefaultSink
<1>5. ASSUME NEW name \in Sources \cup {None}, ChangeDefaultSource(name) PROVE PublishedIsCurrent'
  <2>1. ASSUME \A signal \in DefaultSignals : ~Heard(signal) PROVE BuildState' = BuildState
    <3>1. DefaultSink' = DefaultSink /\ SelectedSource' = SelectedSource
      BY <2>1, <1>t1, UnheardDefaults
    <3> QED BY <1>5, <3>1, <1>t1, SameBuild DEF ChangeDefaultSource
  <2> QED BY <1>5, <2>1, HandleKeepsCurrent DEF ChangeDefaultSource
<1>6. CASE ContextReady
  BY <1>6 DEF ContextReady, PublishedIsCurrent
<1>7. CASE ContextFails
  <2> DEFINE signals == {Signal("deviceRemoved", d) : d \in present} \cup DefaultSignals
  <2>1. ASSUME \A signal \in signals : ~Heard(signal) PROVE BuildState' = BuildState
    <3>0. \A d \in present : ~Heard(Signal("deviceRemoved", d))
      BY <2>1
    <3>1. present \subseteq Monitors
      BY <3>0 DEF Heard, Signal, IsMonitor
    <3>2. DefaultSink' = DefaultSink /\ SelectedSource' = SelectedSource
      BY <2>1, <1>t1, UnheardDefaults
    <3>3. /\ present' \ Monitors = present \ Monitors
          /\ \A e \in present \ Monitors : content'[e] = content[e]
      BY <1>7, <3>1 DEF ContextFails
    <3> QED BY <3>2, <3>3, <1>t1, SameBuild
  <2>2. Handle(signals)
    BY <1>7 DEF ContextFails
  <2> HIDE DEF signals
  <2> QED BY <2>1, <2>2, HandleKeepsCurrent
<1>8. ASSUME UNCHANGED <<present, content, defaultSinkName, defaultSourceName>>
      PROVE  BuildState' = BuildState
  BY <1>8 DEF BuildState, BuildStateOf, DeviceList, DeviceState, SelectedSource, DefaultSource, DefaultSink
<1>9. CASE ContextReconnects
  BY <1>8, <1>9 DEF ContextReconnects, PublishedIsCurrent
<1>10. CASE PublishInitialState
  BY <1>8, <1>10 DEF PublishInitialState, PublishedIsCurrent, pulseVars
<1>11. CASE UNCHANGED vars
  BY <1>8, <1>11 DEF vars, pulseVars, PublishedIsCurrent
<1> QED BY <1>1, <1>2, <1>3, <1>4, <1>5, <1>6, <1>7, <1>9, <1>10, <1>11 DEF Next

(* Once published, the state is that of PulseAudio after every change:     *)
(* no sequence of changes of devices, monitors, defaults and connection    *)
(* makes the observer miss one.                                            *)
THEOREM PublishedCurrent == Spec => []PublishedIsCurrent
<1>1. Init => PublishedIsCurrent
  BY DEF Init, PublishedIsCurrent
<1> QED BY <1>1, TypeInit, TypeStep, WatchedInit, WatchedStep, CurrentStep, PTL DEF Spec

(* Which devices of a list built by deviceStateFromObject are flagged.     *)
LEMMA FlaggedInBuild ==
  ASSUME NEW D, NEW selected, NEW default
  PROVE  FlaggedDefaults(DeviceList(D, selected, default))
           = {d \in D : \/ selected # None /\ d = selected
                        \/ selected = None /\ d = default}
<1>1. \A d \in D : /\ DeviceState(d, selected, default).id = d
                   /\ DeviceState(d, selected, default).isDefault
                        <=> \/ selected # None /\ d = selected
                            \/ selected = None /\ d = default
  BY DEF DeviceState
<1> QED BY <1>1 DEF FlaggedDefaults, DeviceList

(* The selection of such a state names the one device flagged default.     *)
LEMMA ListedInBuild == TypeOK /\ PublishedIsCurrent => SelectionIsListed
<1> SUFFICES ASSUME TypeOK, published, state = BuildState
             PROVE  /\ FlaggedDefaults(state.sinks) = {state.selectedSinkId} \ {None}
                    /\ FlaggedDefaults(state.sources) = {state.selectedSourceId} \ {None}
  BY DEF PublishedIsCurrent, SelectionIsListed
<1>1. None \notin Devices
  BY DevicesAssumption DEF Devices
<1>2. /\ state.sinks = DeviceList(present \cap Sinks, DefaultSink, DefaultSink)
      /\ state.selectedSinkId = DefaultSink
      /\ state.sources = DeviceList((present \cap Sources) \ Monitors, SelectedSource, DefaultSource)
      /\ state.selectedSourceId = SelectedSource
  BY DEF BuildState, BuildStateOf
<1>3. FlaggedDefaults(state.sinks) = {DefaultSink} \ {None}
  <2>1. FlaggedDefaults(state.sinks)
          = {d \in present \cap Sinks : \/ DefaultSink # None /\ d = DefaultSink
                                        \/ DefaultSink = None /\ d = DefaultSink}
    BY <1>2, FlaggedInBuild
  <2>2. DefaultSink \in (present \cap Sinks) \cup {None} /\ None \notin present \cap Sinks
    BY <1>1, DefaultTypes DEF Devices
  <2> QED BY <2>1, <2>2
<1>4. FlaggedDefaults(state.sources) = {SelectedSource} \ {None}
  <2>1. FlaggedDefaults(state.sources)
          = {d \in (present \cap Sources) \ Monitors :
               \/ SelectedSource # None /\ d = SelectedSource
               \/ SelectedSource = None /\ d = DefaultSource}
    BY <1>2, FlaggedInBuild
  <2>2. /\ SelectedSource \in ((present \cap Sources) \ Monitors) \cup {None}
        /\ SelectedSource = None => DefaultSource \in Monitors \cup {None}
        /\ None \notin (present \cap Sources) \ Monitors
    BY <1>1, DefaultTypes DEF Devices
  <2> QED BY <2>1, <2>2
<1> QED BY <1>2, <1>3, <1>4

(* The published selection names the one listed device flagged default, or *)
(* nothing.                                                                *)
THEOREM SelectionListed == Spec => []SelectionIsListed
  BY PublishedCurrent, TypeCorrect, ListedInBuild, PTL
=============================================================================
