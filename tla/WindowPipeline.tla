-------------------------- MODULE WindowPipeline --------------------------
(***************************************************************************)
(* How window snapshots travel from KWin to the service: the KWin script   *)
(* pushes them over D-Bus to window_probe_helper, a process of its own     *)
(* that caches them in a file and signals them; KWinScriptWindowObserver   *)
(* installs script and helper when the service starts, subscribes to the   *)
(* signal and reads the cache (kwin_script_window_backend.cpp,             *)
(* window_probe_helper.cpp).                                               *)
(*                                                                         *)
(* KWin, the helper, the service and a window_probe command that sets up   *)
(* or tears down the same backend run concurrently; the blocking D-Bus     *)
(* calls of setup, teardown and start are separate steps between which     *)
(* the other processes run.                                                *)
(*                                                                         *)
(* A snapshot is abstracted to the number of the desktop state it shows.   *)
(***************************************************************************)
EXTENDS Naturals, Sequences, SequencesExt

CONSTANTS
  Commands,    (* commands window_probe may be run with: "setup", "teardown" *)
  MaxCommands, (* bound: how often window_probe is run                       *)
  MaxDesk,     (* bound: the number of the last desktop state                *)
  MaxFaults    (* bound: I/O and D-Bus calls that fail, helper crashes       *)

NoSnapshot == 0
PreviousSession == 1
FirstDesk == 2
Snapshots == NoSnapshot .. MaxDesk

ASSUME BoundsAssumption == {MaxCommands, MaxDesk, MaxFaults} \subseteq Nat /\ FirstDesk <= MaxDesk
ASSUME CommandsAssumption == Commands \subseteq {"setup", "teardown"}

VARIABLES
  desk,         (* the current state of KWin's windows                        *)
  loaded,       (* the script runs inside KWin                                *)
  reload,       (* KWin was asked to reload its scripts and has not yet       *)
  scriptFiles,  (* metadata.json and main.js are installed                    *)
  serviceFile,  (* the D-Bus service file that starts the helper is installed *)
  enabled,      (* the script is enabled in kwinrc                            *)
  pushes,       (* PushSnapshot calls of the script, in flight                *)
  helper,       (* "up" or "down"                                             *)
  kept,         (* m_snapshot of the helper                                   *)
  cache,        (* the cached snapshot file                                   *)
  subscribed,   (* the observer receives SnapshotChanged                      *)
  signals,      (* SnapshotChanged signals on their way to the observer       *)
  published,    (* m_snapshot of the observer, which the store copies         *)
  todo,         (* todo[p]: the steps process p still has to do               *)
  failed,       (* processes that gave up                                     *)
  commands,     (* how often window_probe was run                             *)
  faults        (* how many faults have happened                              *)

kwinVars == <<desk, loaded, reload, pushes>>
fileVars == <<scriptFiles, serviceFile, enabled, cache>>
helperVars == <<helper, kept>>
observerVars == <<subscribed, signals, published>>
controlVars == <<todo, failed, commands, faults>>
vars == <<desk, loaded, reload, scriptFiles, serviceFile, enabled, pushes, helper,
          kept, cache, subscribed, signals, published, todo, failed,
          commands, faults>>

Processes == {"service", "probe"}

(* The order of the calls of setup, of teardown and of the start of the    *)
(* observer, which sets up first.                                          *)
SetupSteps == <<"install", "stopHelper", "unload", "enable", "reconfigure", "startScripts">>
TeardownSteps == <<"disable", "stopHelper", "unload", "remove", "reconfigure">>
StartStepsCacheFirst == SetupSteps \o <<"readCache", "askHelper", "subscribe">>
StartSteps == SetupSteps \o <<"subscribe", "readCache", "askHelper">>

CommandSteps(command) == IF command = "setup" THEN SetupSteps ELSE TeardownSteps

TypeOK ==
  /\ desk \in FirstDesk .. MaxDesk
  /\ loaded \in BOOLEAN /\ reload \in BOOLEAN
  /\ scriptFiles \in BOOLEAN /\ serviceFile \in BOOLEAN /\ enabled \in BOOLEAN
  /\ pushes \in Seq(FirstDesk .. MaxDesk)
  /\ helper \in {"up", "down"}
  /\ kept \in Snapshots
  /\ helper = "down" => kept = NoSnapshot
  /\ cache \in Snapshots
  /\ subscribed \in BOOLEAN
  /\ signals \in Seq(FirstDesk .. MaxDesk)
  /\ published \in Snapshots
  /\ DOMAIN todo = Processes
  /\ todo["service"] \in Suffixes(StartSteps)
  /\ todo["probe"] \in Suffixes(SetupSteps) \cup Suffixes(TeardownSteps)
  /\ failed \subseteq Processes
  /\ commands \in 0 .. MaxCommands
  /\ faults \in 0 .. MaxFaults

(* A first start, or one after an earlier session left the backend set up, *)
(* its script loaded by KWin, and possibly a snapshot in the cache.        *)
Init ==
  /\ desk = FirstDesk
  /\ reload = FALSE
  /\ scriptFiles \in BOOLEAN
  /\ serviceFile = scriptFiles /\ enabled = scriptFiles /\ loaded = scriptFiles
  /\ pushes = <<>>
  /\ helper = "down" /\ kept = NoSnapshot
  /\ cache \in IF scriptFiles THEN {NoSnapshot, PreviousSession} ELSE {NoSnapshot}
  /\ subscribed = FALSE /\ signals = <<>> /\ published = NoSnapshot
  /\ todo = [p \in Processes |-> IF p = "service" THEN StartSteps ELSE <<>>]
  /\ failed = {}
  /\ commands = 0 /\ faults = 0

-----------------------------------------------------------------------------
(* Steps of a process *)

Does(p, step) ==
  /\ todo[p] # <<>>
  /\ Head(todo[p]) = step
  /\ todo' = [todo EXCEPT ![p] = Tail(@)]
  /\ UNCHANGED <<failed, commands, faults>>

Fault ==
  /\ faults < MaxFaults
  /\ faults' = faults + 1
  /\ UNCHANGED commands

(* The step fails and the process reports it and does nothing more. *)
GivesUp(p, step) ==
  /\ todo[p] # <<>>
  /\ Head(todo[p]) = step
  /\ Fault
  /\ todo' = [todo EXCEPT ![p] = <<>>]
  /\ failed' = failed \cup {p}

(* Calls already read by a helper that stops are lost with it. *)
HelperStops ==
  /\ helper' = "down"
  /\ kept' = NoSnapshot
  /\ \E n \in 0 .. Len(pushes) : pushes' = SubSeq(pushes, n + 1, Len(pushes))

(* Looking at a helper that is down starts it when the service file is     *)
(* installed, but too late for the call it was looked at for; a new helper *)
(* begins with the cached snapshot (loadCachedSnapshot).                   *)
HelperStartsLate ==
  /\ helper = "down"
  /\ IF serviceFile THEN helper' = "up" /\ kept' = cache ELSE UNCHANGED helperVars

(* The step fails and the process goes on to the next one. *)
SkipsWithFault(p, step) ==
  /\ todo[p] # <<>>
  /\ Head(todo[p]) = step
  /\ Fault
  /\ todo' = [todo EXCEPT ![p] = Tail(@)]
  /\ UNCHANGED failed

(* window_probe is run while the service is starting or running. *)
RunProbe ==
  /\ commands < MaxCommands
  /\ commands' = commands + 1
  /\ todo["probe"] = <<>>
  /\ \E command \in Commands : todo' = [todo EXCEPT !["probe"] = CommandSteps(command)]
  /\ UNCHANGED <<kwinVars, fileVars, helperVars, observerVars, failed, faults>>

(* setup: the helper executable is checked and the three files written; a  *)
(* failure leaves what was written before it.                              *)
InstallFiles(p) ==
  /\ \/ Does(p, "install") /\ scriptFiles' = TRUE /\ serviceFile' = TRUE
     \/ GivesUp(p, "install") /\ scriptFiles' \in {scriptFiles, TRUE} /\ UNCHANGED serviceFile
  /\ UNCHANGED <<kwinVars, enabled, cache, helperVars, observerVars>>

(* stopHelperServiceBestEffort *)
StopHelper(p) ==
  /\ \/ Does(p, "stopHelper") /\ helper = "up" /\ HelperStops
     \/ Does(p, "stopHelper") /\ HelperStartsLate /\ UNCHANGED pushes
     \/ SkipsWithFault(p, "stopHelper") /\ UNCHANGED <<helperVars, pushes>>
  /\ UNCHANGED <<desk, loaded, reload, fileVars, observerVars>>

(* unloadKWinScriptBestEffort *)
UnloadScript(p) ==
  /\ \/ Does(p, "unload") /\ loaded' = FALSE
     \/ SkipsWithFault(p, "unload") /\ UNCHANGED loaded
  /\ UNCHANGED <<desk, reload, pushes, fileVars, helperVars, observerVars>>

(* setScriptEnabled *)
SetEnabled(p) ==
  /\ \/ Does(p, "enable") /\ enabled' = TRUE
     \/ Does(p, "disable") /\ enabled' = FALSE
  /\ UNCHANGED <<kwinVars, scriptFiles, serviceFile, cache, helperVars, observerVars>>

(* reconfigureKWin *)
ReconfigureKWin(p) ==
  /\ \/ Does(p, "reconfigure") /\ reload' = TRUE
     \/ GivesUp(p, "reconfigure") /\ UNCHANGED reload
  /\ UNCHANGED <<desk, loaded, pushes, fileVars, helperVars, observerVars>>

(* startKWinScriptsBestEffort *)
StartScripts(p) ==
  /\ \/ Does(p, "startScripts") /\ reload' = TRUE
     \/ SkipsWithFault(p, "startScripts") /\ UNCHANGED reload
  /\ UNCHANGED <<desk, loaded, pushes, fileVars, helperVars, observerVars>>

(* teardown: script directory, service file and cache are removed in this  *)
(* order; a failure leaves the rest.                                       *)
RemoveFiles(p) ==
  /\ \/ Does(p, "remove") /\ scriptFiles' = FALSE /\ serviceFile' = FALSE /\ cache' = NoSnapshot
     \/ /\ GivesUp(p, "remove")
        /\ UNCHANGED cache
        /\ \/ UNCHANGED <<scriptFiles, serviceFile>>
           \/ scriptFiles' = FALSE /\ serviceFile' \in {serviceFile, FALSE}
  /\ UNCHANGED <<kwinVars, enabled, helperVars, observerVars>>

-----------------------------------------------------------------------------
(* KWin and its script *)

(* publishSnapshot of the script: an asynchronous call with the snapshot   *)
(* of this moment.                                                         *)
PublishFromScript(d) == pushes' = Append(pushes, d)

(* A window or the workspace changes; attachWindow and main connected the  *)
(* script to every such signal.                                            *)
DeskChanges ==
  /\ desk < MaxDesk
  /\ desk' = desk + 1
  /\ IF loaded THEN PublishFromScript(desk') ELSE UNCHANGED pushes
  /\ UNCHANGED <<loaded, reload, fileVars, helperVars, observerVars, controlVars>>

(* KWin loads the enabled scripts that are not loaded yet and unloads the  *)
(* disabled ones; main of a script that is loaded publishes the initial    *)
(* snapshot.                                                               *)
ReloadScripts ==
  /\ reload
  /\ reload' = FALSE
  /\ loaded' = (enabled /\ (loaded \/ scriptFiles))
  /\ IF ~loaded /\ loaded' THEN PublishFromScript(desk) ELSE UNCHANGED pushes
  /\ UNCHANGED <<desk, fileVars, helperVars, observerVars, controlVars>>

-----------------------------------------------------------------------------
(* The helper *)

(* A call for the helper starts it when the service file is installed.     *)
Reachable == helper = "up" \/ serviceFile
KeptOnCall == IF helper = "up" THEN kept ELSE cache

TakesPush ==
  /\ Reachable
  /\ pushes # <<>>
  /\ pushes' = Tail(pushes)
  /\ helper' = "up"
  /\ UNCHANGED <<desk, loaded, reload, scriptFiles, serviceFile, enabled, subscribed,
                 published, todo, failed>>

Emit(d) == signals' = IF subscribed THEN Append(signals, d) ELSE signals

(* PushSnapshot: the pushed snapshot is kept, then cached, then signalled; *)
(* when the cache cannot be written nothing is signalled, and a snapshot   *)
(* that cannot be parsed changes nothing.                                  *)
PushSnapshotSignallingAnyway ==
  /\ TakesPush
  /\ \/ kept' = Head(pushes) /\ cache' = kept' /\ Emit(kept') /\ UNCHANGED <<commands, faults>>
     \/ kept' = Head(pushes) /\ UNCHANGED <<cache, signals>> /\ Fault
     \/ kept' = KeptOnCall /\ UNCHANGED cache /\ Emit(kept') /\ Fault

PushSnapshot ==
  /\ TakesPush
  /\ \/ kept' = Head(pushes) /\ cache' = kept' /\ Emit(kept') /\ UNCHANGED <<commands, faults>>
     \/ kept' = Head(pushes) /\ UNCHANGED <<cache, signals>> /\ Fault
     \/ kept' = KeptOnCall /\ UNCHANGED <<cache, signals>> /\ Fault

(* Without a helper and a way to start one the call of the script fails. *)
LosePush ==
  /\ ~Reachable
  /\ pushes # <<>>
  /\ pushes' = Tail(pushes)
  /\ UNCHANGED <<desk, loaded, reload, fileVars, helperVars, observerVars, controlVars>>

(* The helper process dies. *)
HelperCrashes ==
  /\ helper = "up"
  /\ Fault
  /\ HelperStops
  /\ UNCHANGED <<desk, loaded, reload, fileVars, observerVars, todo, failed>>

-----------------------------------------------------------------------------
(* The observer of the service *)

Service == "service"

(* The D-Bus match for SnapshotChanged; start gives up when it is refused. *)
Subscribe ==
  /\ \/ Does(Service, "subscribe") /\ subscribed' = TRUE
     \/ GivesUp(Service, "subscribe") /\ UNCHANGED subscribed
  /\ UNCHANGED <<kwinVars, fileVars, helperVars, signals, published>>

(* publishCachedSnapshotIfAvailable: an unreadable cache is only reported. *)
ReadCache ==
  /\ \/ Does(Service, "readCache")
        /\ published' = IF cache = NoSnapshot THEN published ELSE cache
     \/ SkipsWithFault(Service, "readCache") /\ UNCHANGED published
  /\ UNCHANGED <<kwinVars, fileVars, helperVars, subscribed, signals>>

(* publishHelperSnapshotIfAvailable: GetSnapshot, unless the cache already *)
(* made the observer ready.                                                *)
AskHelper ==
  /\ \/ /\ Does(Service, "askHelper")
        /\ published # NoSnapshot
        /\ UNCHANGED <<helperVars, published>>
     \/ /\ Does(Service, "askHelper")
        /\ published = NoSnapshot /\ helper = "up"
        /\ published' = kept
        /\ UNCHANGED helperVars
     \/ /\ Does(Service, "askHelper")
        /\ published = NoSnapshot /\ HelperStartsLate
        /\ UNCHANGED published
     \/ SkipsWithFault(Service, "askHelper") /\ UNCHANGED <<helperVars, published>>
  /\ UNCHANGED <<kwinVars, fileVars, subscribed, signals>>

Running == todo[Service] = <<>> /\ Service \notin failed

(* handleSnapshotChanged, run by the event loop once start has returned. *)
HandleSnapshotChanged ==
  /\ todo[Service] = <<>>
  /\ signals # <<>>
  /\ published' = Head(signals)
  /\ signals' = Tail(signals)
  /\ UNCHANGED <<kwinVars, fileVars, helperVars, subscribed, controlVars>>

-----------------------------------------------------------------------------
Step(p) ==
  \/ InstallFiles(p)
  \/ StopHelper(p)
  \/ UnloadScript(p)
  \/ SetEnabled(p)
  \/ ReconfigureKWin(p)
  \/ StartScripts(p)
  \/ RemoveFiles(p)

Next ==
  \/ RunProbe
  \/ \E p \in Processes : Step(p)
  \/ DeskChanges
  \/ ReloadScripts
  \/ PushSnapshot
  \/ LosePush
  \/ HelperCrashes
  \/ Subscribe
  \/ ReadCache
  \/ AskHelper
  \/ HandleSnapshotChanged

Spec == Init /\ [][Next]_vars

(* Every process is scheduled and every call and signal is delivered.      *)
(* Nothing makes a window change, a command be run or a fault happen.      *)
Fairness ==
  /\ \A p \in Processes : WF_vars(Step(p))
  /\ WF_vars(ReloadScripts)
  /\ WF_vars(PushSnapshot) /\ WF_vars(LosePush)
  /\ WF_vars(Subscribe) /\ WF_vars(ReadCache) /\ WF_vars(AskHelper)
  /\ WF_vars(HandleSnapshotChanged)

FairSpec == Spec /\ Fairness

-----------------------------------------------------------------------------
(* What the observer will show once it has handled the signals under way. *)
WillPublish == IF signals = <<>> THEN published ELSE Last(signals)

(* No snapshot falls between reading the cache and listening to the signal *)
(* at start, nor later: whatever fails or restarts, what a running         *)
(* observer shows, or is about to show, is never behind the cache file.    *)
(* This is what subscribing before reading is for (observer start), and    *)
(* what PushSnapshot keeps by signalling everything it caches.             *)
ObserverNotBehindCache ==
  Running /\ WillPublish # NoSnapshot => WillPublish >= cache

(* Unless a call fails or window_probe tears the backend down, the window  *)
(* state of the service catches up with the desktop after every change,    *)
(* whatever was in the cache and even when window_probe sets the same      *)
(* backend up again in between.                                            *)
TearsDown == "disable" \in Range(todo["probe"])
CatchesUpWithDesk ==
  [](faults = 0 /\ ~TearsDown) => <>[](published = desk)
=============================================================================
