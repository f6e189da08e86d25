# Verification of Plasma Bridge

TLA+ specifications, model-checking runs and machine-checked proofs for Plasma
Bridge: the service that mirrors the audio devices and windows of a KDE Plasma
session over HTTP and WebSocket, the helper and KWin script behind its window
state, its probe tools and its web client. Every definition is translated from
the source; PROJECT.json's `map` names the lines each one stands for.

## 1. Inventory

The backend is one Qt event loop (`backend/src/app/main.cpp`): a slot, a timer
or a socket notification runs to its end before the next one, and D-Bus calls to
the helper block it. What runs concurrently with it are other processes: KWin
with the script the service installs, the D-Bus activated `window_probe_helper`,
the PulseAudio server, other `window_probe` commands, and the web clients.

| Component | State | Operations | Interacts with | What is hard | Correct means |
|---|---|---|---|---|---|
| State stores (`state/`) | `m_ready`, the last state | update, read | observers (signals in), WebSocket server (signal out), HTTP (reads) | readiness of two independent stores | readers see the last update |
| State WebSocket server (`api/state_websocket_server.cpp`) | `m_clients`: `helloReceived`, `fullStateSent` per socket; close timers | connect, text frame, binary frame, store change, close timer, disconnected | stores, clients | hello before, between and after the stores become ready; frames queued behind a fatal error; broadcast against disconnection | one full state, then every change, in order, to everybody who said hello |
| Web client state (`clients/web/src/api/useStateStream.ts`, `state.ts`) | accumulated state, stream status | effect and cleanup, open, message, error, close | WebSocket server | events of a replaced socket; first state against `not_ready` | shows what the configured service has |
| Web dashboard (`clients/web/src/app/Dashboard.tsx`, `components/`) | settings, HTTP status, drafts, pending actions, row errors | save settings, HTTP check, drag and commit a slider, mute, list the taskbar | stream state, HTTP server | answers, messages and checks in any order | no control and no draft left behind |
| KWin script (`kwin_script_window_backend.cpp`) | watched windows, poll timer, in-flight flag | publish snapshot, poll and perform activations | KWin, helper (asynchronous D-Bus calls) | a reply that never comes | every change is pushed, every accepted activation attempted once, in order |
| `window_probe_helper` | snapshot, cache file, `m_activationRequests` | PushSnapshot, GetSnapshot, IsReady, RequestActivateWindow, TakeActivationRequest, Shutdown | script, service, probe | restart loses the queue; a cache that cannot be written | cached before signalled; requests in order |
| KWin backend controller | files on disk, kwinrc, loaded script | setup, status, teardown | KWin, helper, disk | a step of several fails; two processes do it at once | after setup a fresh script feeds a fresh helper |
| KWin window observer | `m_ready`, `m_snapshot` | start, cached and helper snapshot, SnapshotChanged | helper, window store | signals between subscribing and reading the cache | never behind what the helper cached |
| Window activation (HTTP + controller) | none of its own | POST /control/windows/{id}/active | window store, helper, script | the window closes, the helper restarts | accepted means attempted |
| PulseAudio observer (`pulse_audio_state_observer.cpp`) | attached devices, initial-publish timer, `m_initialStatePublished` | device added/removed/changed, default changed, context state | PulseAudioQt, audio store | the timer is restarted by every event; the context fails late | what is published is what the server has |
| Window snapshot (`common/window_state.cpp`, `clients/web/src/api/state.ts`) | pure | normalize, active window, JSON, task bar list | everywhere | duplicate or missing ids | one active window, stable under repetition |
| HTTP server (`snapshot_http_server.cpp`) | receive buffer per socket | read, parse, respond | stores, controllers | requests arriving in pieces, size limits | exactly one response per connection |
| Volume and device controllers (`pulse_audio_volume_controller.cpp`, `pulse_audio_device_controller.cpp`) | none | set, increment, decrement, mute, default | PulseAudioQt | values judged by what is not known yet | what was asked last prevails, within 0..1 |
| Probes (`backend/tools/probes`) | finished flag, timers | list, watch, activate, setup | observers, controllers | timeout against a late answer | exactly one result |
| Wayland observer (`plasma_wayland_window_observer.cpp`) | tracked windows | start, publish | KWayland | several initial triggers | (dead code: in no target of the build) |

The parts and the paths between them:

```
KWin ── script ──PushSnapshot──> helper ──SnapshotChanged──> observer ─> store ─┐
            ^                     │ cache file ──────────────────^             ├─> WebSocket server ─> web client
            └─TakeActivationRequest┘ <─RequestActivateWindow─ controller <─ HTTP │        (state, patches)
PulseAudio ─ PulseAudioQt ─ audio observer ─────────────────────────> store ───┘
            <─ volume and device controllers <─ HTTP, audio_control_probe
```

## 2. Modules

Specifications hold a component's state, actions, fairness and properties; an
`MC` module gives its constants values for TLC; a `Proofs` module extends it
with TLAPS proofs. One action is one slot, handler or blocking call, complete
with everything it calls.

| Module | Code | State, and how it corresponds |
|---|---|---|
| `SnapshotFeed` | what the stream promises a client | `current` value of each store and what is `shown` to each client: first one value of every store at once, then one store advancing at a time |
| `StateStream` | `state/*.cpp`, `state_websocket_server.cpp`, `state.ts`, the message listener of `useStateStream.ts` | stores `ready`/`version`; `clients`, `helloReceived`, `fullStateSent` are `m_clients` and its flags; `closing` the zero timers of `sendError`; `inbox`/`wire` the two directions of a socket; `view` the state the client accumulated. A store update includes its broadcast, since the signal is direct. |
| `WindowPipeline` | `kwin_script_window_backend.cpp` (script, setup, teardown, observer), `window_probe_helper.cpp` | files, `enabled`, `loaded`/`reload` of KWin; `pushes` and `signals` are D-Bus messages under way; `kept`/`cache` of the helper; `published` of the observer; `todo[p]` the calls that setup, teardown or start still have to make, each a step because it blocks while other processes run |
| `WindowActivation` | HTTP activation, the activation controller, the helper's queue, the script's polling | `queue` is `m_activationRequests`, `inFlight` is `activationPollInFlight`, `calls`/`replies` are D-Bus; `known` is the window store, `cache` and `kept` as above; `accepted`/`attempted` are history |
| `WindowSnapshot` | `common/window_state.cpp`, `currentSnapshot` of the script, `applyBackfill` of the helper, `windowsForTaskbar`, `WindowTaskbar.tsx` | no state: what happens to the content of a snapshot from KWin to the taskbar, as operators |
| `StreamHook` | `useStateStream.ts`, `state.ts` | `sockets[g]` is the socket of the g-th effect with its service's view of it; the last is the current one, for all others `closedByEffect` holds; `state`, `status` are the hook's. The service is reduced to what `StateStream` shows of it. |
| `Dashboard` | `Dashboard.tsx`, `AudioSection.tsx`, the settings dialog, `controls.ts` | extends `StreamHook`: `httpStatus`/`checks`, and for the row of one sink `draft`, `focused`, `pending`, `rowError`; `requests` are the HTTP requests under way, `orders` those the service accepted and PulseAudio has yet to carry out and show, or to give up; `unseen` is history |
| `AudioObserver` | `pulse_audio_state_observer.cpp`, `audio_state_store.cpp` | what PulseAudioQt knows (`present`, `content`, default names); `attached`, `timer`, `published`, `state` of the observer |
| `AudioControl` | `pulse_audio_volume_controller.cpp`, `pulse_audio_device_controller.cpp` | what PulseAudioQt last heard (`found`, `known`) against what PulseAudio has (`there`, `volume`, `muted`, `default`), with `orders` and `events` between; `wanted`, `latest...` are history |
| `HttpDispatch` | routing, validation, controller calls and CORS of `snapshot_http_server.cpp`, `*_http_helpers.cpp` | no state: `Answers(r, size, stores)` is the set of answers `processRequest` may give, through the early returns in their order |
| `SnapshotHttp` | the connections of `snapshot_http_server.cpp` | `pendingRequests` is `m_pendingRequests`; `sent` what has arrived; `conn`, `answer`, `cors` what became of the socket |
| `ProbeRun` | the runners of `audio_probe`, `audio_control_probe`, `window_probe`, and their `main` | `run` is the runner (`finished`, `timer`, `published`, exit code, what it printed); `loop` the event loop; `pending` zero timers; `polling` the poll timer |

`HttpDispatch` is extended by `SnapshotHttp`, `WindowSnapshot` by `StreamHook`
and that by `Dashboard`; `SnapshotFeed` is instantiated by `StateStream` with
`current <- version` and `shown <- view`. The other modules share an interface
rather than a module: what `WindowPipeline` publishes is `known` in
`WindowActivation` and one of the two stores of `StateStream`; what
`AudioObserver` publishes is the other; the controllers whose answers
`HttpDispatch` leaves open are `AudioControl` and `WindowActivation`; what
`StateStream` proves of one client is what `StreamHook` assumes of each service.

### Abstractions

- Contents: a snapshot or audio state is a number (`StateStream`,
  `WindowPipeline`), the set of windows and the active one (`WindowActivation`),
  the set of devices (`AudioObserver`, whose sorting of lists is left out) or a
  list of windows of which only what the taskbar decides on is kept: the id, the
  two flags `isActive` and `skipTaskbar` (`WindowSnapshot`). The order of the
  taskbar is left out.
- HTTP: a path is the sequence of its segments, a body one of absent, not JSON,
  not an object, with or without the needed field; sizes are counted in pieces.
  Icons of the theme and documentation pages are constants. Two request bodies
  of the same kind are the same request.
- Dashboard: one setting names both URLs of a service; the result of an HTTP
  check is only whether it is shown and of which effect it is. A service accepts
  a request when its asynchronous order is issued (`Handles`); later the order
  changes the store and is broadcast (`ShowsOrder`), or never does
  (`GivesUpOrder`): the way through PulseAudio that `AudioControl` and
  `AudioObserver` model in detail. One sink stands for the rows, which share no
  state.
- Volumes are counted in steps of the backend; rounding a floating point number
  to a step, and a percent to an integer, happens before the model starts. The
  refusal of values that are not finite is left out: JSON cannot carry one, only
  an option of `audio_control_probe` can.
- The 503 answers of the HTTP server for a controller that is null are left out:
  `main.cpp` gives it all of them before it listens.
- Calls of setup, start and teardown whose results the code does not look at
  (stopping the helper, unloading and starting the script) succeed or, as one of
  the faults, have no effect; the code goes on in either case. Looking
  at a helper that is not running, to ask it for a snapshot or to shut down, starts
  it when it is installed, but too late for that call.
- External: PulseAudio, PulseAudioQt, KWin, D-Bus, browsers, Qt's timers and
  sockets are modelled as far as the code relies on them. In particular:
  PulseAudioQt emits its signals within the change; D-Bus keeps the order of
  messages between two peers and starts the helper for a call when its service
  file is installed; KWin drops the callback of a call that fails; a `QTcpSocket`
  is not read after `disconnectFromHost`; `QCoreApplication::exit` takes effect
  once the events that are due have been dispatched; a browser fires `error` and
  `close` on a socket that is closed before it is open, and delivers what was
  received before the `close`.
- `isMonitorSource` and `isVolumeWritable` are constants of a device; they do not
  change while it exists.

## 3. Model-checking runs

| Run | Instance | Shows |
|---|---|---|
| `stream` | 2 stores, 2 updates a store, 2 clients of which one sends 2 frames; 177k states | `StreamAgreesWithStore`: after its full state a client ends with exactly what the stores hold; `HelloServedOnceReady`; `FullStateThenPatches`; `FeedSpec` (refinement of `SnapshotFeed`); with fairness `CatchesUp`, `HelloEventuallyAnswered`, `FatalErrorEndsSession` |
| `window_pipeline` | 3 desktop states, 1 probe command, 2 faults; 320k states | `ObserverNotBehindCache`; without faults or teardown `CatchesUpWithDesk` |
| `activation_queue` | 2 windows, an HTTP and a probe request, 1 change by the user, 2 faults; 560k states | `AttemptedInOrder`, `NoneSkipped`, `OnePollInFlight`; without faults `AcceptedIsPublishedWithoutFaults`, `StoreCatchesUp` |
| `activation_helper_ends` | one request, one fault | *violated* `AcceptedIsPublished`, see section 5 |
| `audio_observer` | 2 sinks, 2 sources, 1 monitor, 2 contents, 7 changes; 102k states | `PublishedIsCurrent`, `SelectionIsListed`, `InitialStatePublished` |
| `audio_control` | a writable and a fixed sink and a source, values below, in and above range, 2 requests, 2 changes by others; 891k states | `LatestSetPrevails` for volume, mute and default; `NeverAmplifies` |
| `volume_deltas` | 2 increments | *violated* `DeltasAddUp`, see section 5 |
| `http` | two clients whose headers and bodies of 1 to 5 pieces meet a limit of 3, with trailing data; or one that sends any of 1250 requests (every route, method, kind of name and body) beside one that reads; 1 store change; 1.64M states | `CommandsAsRequested`: a controller is only asked what the request says; `StatusesDocumented`: a well-formed request to an operation is answered as the OpenAPI document lists (for icons: with a valid name); `UsableRequestsServed`; `NothingLeftBehind`, `WaitsOnlyForMissing`, `AnsweredOnce` |
| `http_cors` | origins allowed, loopback and foreign | *violated* `AllowedOriginsGetCors`, see section 5 |
| `probe_run` | every probe and command, 3 changes of the PulseAudio context; 2000 states | `OneOutcome`, `ExitCodeTellsOutcome`, `WaitsForPulseAudio`, `RunsEnd` |
| `web_dashboard` | 2 services, one ready late; 2 windows on 4 desktops on which list, flags and backfill agree or contradict each other; 3 volumes of which one is amplified; 2 savings or requests, 1 change of a service; 1.2M states | `ShowsConfiguredService`: with what is under way, exactly the state of the configured service; `SettlesWithService`: no control or status stays behind, and a draft only with an error or after an accepted order that had no effect; `TaskbarHasOneActive` |
| `web_status` | the same, one action | *violated* `StatusIsOfCurrentSocket`, see section 5 |

The type invariant of a module is checked by one run of it. `CHECK_DEADLOCK FALSE` is set
because in every instance clients, users and faults are bounded and the system
rests once they are used up; that it does not rest too early is what the
liveness properties, and `SettlesWithService`, say.

Every property of a passing run is broken by a mutant of the code listed in
`PROJECT.json`; the mutated operator stands next to the original (for example
`StartStepsCacheFirst` beside `StartSteps`).

### Why the bounds are enough

- *Stream.* The properties are about one client and one store at a time. Two
  stores distinguish "all ready" from "this one ready"; two updates distinguish
  the first content, which makes the store ready, from a patch. Two clients show
  that flags are not mixed up; the second frame covers a hello after a hello or an
  error. `StateStreamProofs` removes the bounds for all safety properties, and
  also lets a store take its readiness back, which the interface of the stores
  has and the observers of the service never use.
- *Window pipeline.* One desktop state to start with and two changes: one may
  fall before and one after any step of the start. One concurrent `window_probe`
  command at a time, against the steps of the service. Two faults let a
  failure hit while another process recovers from one. `WindowPipelineProofs`
  removes the bounds for the invariants.
- *Activation.* Order needs two requests; a request competes with one change
  (the window closes or the user activates another). Two faults cover a helper
  that ends, is started again and ends again, or a reload of the script after it.
  `WindowActivationProofs` removes the bounds for the invariants.
- *Audio observer.* Two devices of each kind and a monitor make default changes,
  removal of the default, and lists of 0 to 2 entries possible. The bound on
  changes is only for liveness; safety is proved without it.
- *Audio control.* Two requests race two changes by others on any two devices,
  with one volume above the range. `AudioControlProofs` removes the bounds.
- *HTTP.* The server is one thread and connections share only
  `m_pendingRequests`, so one client is enough for what an answer says and two
  for what may leak between buffers. A limit of three pieces lets a header or a
  body be cut, fit exactly, and exceed it by one or more. `SnapshotHttpProofs`
  removes the bounds and the enumeration of requests.
- *Dashboard.* Stale events need an effect and the one that replaced it; two
  actions allow two replacements, one and a request, or a volume beside a mute
  request. The second service is the one a stale state could come from. The four
  desktops are the ways in which the active window, the flags of the list and
  those of the backfill may disagree, with a duplicate and a skipped window;
  `DashboardProofs` removes these bounds.

### Fairness

Weak fairness is asked only for what runs by itself: the event loop dispatches
queued events and expired timers; D-Bus, sockets and PulseAudio deliver what was
sent; blocking calls return; a client that is connected reads. No client has to
send a hello or a request, no device or window has to change, no fault has to
happen. `InitialStatePublished` holds although every event restarts the timer
only because changes are bounded in an instance; that devices never stop
changing faster than the timer is a starvation the code allows, and is listed as
a hazard. `Dashboard`, `AudioControl` and `SnapshotHttp` state no fairness: what
should settle there is stated of the states in which nothing is under way.

## 4. Proofs

All proofs are checked by TLAPS without assumptions other than those stated on
the constants (`BoundsAssumption`, `ReadinessAssumption`, `DevicesAssumption`,
`SizesAssumption`, `NoneAssumption`, ...), which TLC evaluates in the runs. The
bounds of the instances are constants of the modules, so a theorem holds for any
number of clients, requests, changes and faults.

**`StateStreamProofs`** (any stores, sockets, readiness values and bounds)

- `TypeCorrect`: `TypeOK` is inductive.
- `StreamAgreement`: `StreamAgreesWithStore`. Not inductive by itself: a full
  state carries content 0 as "absent", so one needs that a ready store was
  updated at least once (`ReadyMeansUpdated`). `AgreementInv` adds it. Lemmas on
  `EndsWith` say what appending a message or reading one does.
- `HelloServed`: inductive with `TypeOK`.
- `FullStateBeforePatches` and `StreamImplementsFeed`: from `WireInv`, which says
  of each wire that versions in it only grow and do not pass the store
  (`Channel`), that an unserved client has only errors coming (`Unserved`) and a
  served one has or will get a full state first (`Served`). `FeedStep` then maps
  every step to a step of the feed or a stutter.

**`WindowPipelineProofs`** (any desktop states, commands and faults)

- `TypeCorrect`: with lemmas on what is left of a sequence of steps
  (`SuffixStep`), from which `todo` stays a rest of setup, teardown or start.
- `NeverBehind`: `ObserverNotBehindCache`. It speaks of a running observer only,
  so the induction needs what is true before: pushes are sorted and not older
  than the cache, and a live helper keeps nothing older than it (`OrderInv`,
  without which a failed write would let `GetSnapshot` fall behind); the last
  signal under way shows what was cached last (`SignalInv`); and how much of the
  start is left tells whether the observer has subscribed and published
  (`StartInv`), which is where the order of the calls in `start` enters
  (`StartOrder`, `ServiceAt`).

**`WindowActivationProofs`** (any windows, requests, changes and faults)

- `TypeCorrect` and `OnePoller`, proved together: that only one reply is under
  way follows from one poll being under way.
- `InOrder`: `AttemptedInOrder`, from `OrderInv`: attempted, answered and queued
  requests are each in the order of acceptance, and the first are ahead of the
  second and these of the third (`Sorted`, `Ahead`, `Within`).
- `NoneLost`: `NoneSkipped`, from `CompleteInv`: while no helper has ended and no
  script was reloaded the three together are all the accepted requests, and no
  poll of a script that is gone can take one (`NoDeadPoll`).

**`DashboardProofs`** (any services, windows, desktops, volumes and number of
actions)

- Lemmas on the operators of `WindowSnapshot`, for any list of windows, also with
  ids that are missing or occur twice: `NormalizeAgrees`, `NormalizeOnce`,
  `JsonRoundTrip`, `EnrichedIsNormal` say what `normalizeWindowSnapshot`
  establishes, that repeating it in helper, observer, store and envelope changes
  nothing, and that the cache file and the signal give back the snapshot that was
  written. `TaskbarOfService`: of every normalized snapshot the taskbar has each
  window once and one active item at most.
- `TypeCorrect`, `OneActiveShown`. The inductive `IInv` says that everything a
  service holds, or that is on its way to or shown by the dashboard, is the JSON
  of a readable snapshot (`SoundSockets`, `SoundStates`); `TaskbarOfService` does
  the rest.
- `ShowsConfigured`, `Settles`: what the dashboard shows once nothing is under
  way depends on all that was, so `SInv` says of every moment how it will end,
  and is inductive together with `IInv`.
  `UsesCurrent`: no socket but the current one is connecting or open, and what is
  known, brought up to date by the messages on its wire, is the state of its
  service (`Follows`, `ArrivesAt`); this is where the cleanup of the effect and
  the order of full state and patches enter. `ChecksCurrent`: the check that is
  shown or still to be shown is the last one. `RowSettles`: every action shown as
  under way has its request; and a draft that nobody drags any more is the volume,
  or the row shows an error, or an order that would have cleared it was given up
  (`unseen`), or an audio state is under way that will clear it, or a request or
  an accepted order may (`Corrects`, `OrderCorrects`): one that was refused and
  will show an error, or one that asks for the draft, or for another mute state.
  An order puts an audio state on the wire when it is carried out, unless it
  changes nothing - then the draft is the volume; and so does every change from
  outside that could make a draft wrong. `OrderAppended` and `FirstOrderGone` say
  what accepting a request and using up an order do to the orders of a service;
  `FollowsSent`, `FollowsRead` and `UnderWayAppended` what a message does to a
  socket when it is sent and when it is read.

**`AudioObserverProofs`** (any devices, monitors, contents and changes)

- `TypeCorrect`; `PublishedCurrent`: the published state is `BuildState` of what
  PulseAudio has after *every* change. Needs that signals of each present device
  are heard, which is the invariant `Watched`: attached are exactly the present
  devices that are no monitors. The interesting lemma, `UnheardDefaults`, shows that
  a default change which the slots ignore leaves the built state as it is.
- `SelectionListed`: the selection is exactly the device flagged default.

**`AudioControlProofs`** (any devices, values, requests and changes)

- `TypeCorrect`: in particular no order asks for more than 100%;
  `NoAmplification`: the action property `NeverAmplifies`, from it.
- `LatestPrevails`: `LatestSetPrevails` speaks of the moment when no order is
  under way. `PrevailInv` says of every moment that the last order of a device
  and setting asks for what was asked last (`LastIs`), and where there is none
  (`NoneOf`) that PulseAudio has it.

**`SnapshotHttpProofs`** (any requests, paths, escapes, pieces, limit, stores and
number of clients)

- `BufferBounded`, `NoLeftovers`, `NoRequestStuck`, `OneAnswer`. `OneAnswer`
  is an action property and needs that only sockets still being read are
  unanswered (`ReadUntilAnswered`), which the inductive `Inv` adds to the three
  invariants on buffers.
- `TypeCorrect`, `CommandsRequested`, `StatusesListed`, `UsableServed` speak of
  answers. One lemma per list of early returns (`RequestTaken`, `ControlTaken`,
  `SnapshotTaken`, ...) says which statuses it may take and when none is taken;
  `RouteTaken` puts them together for every route and `AnswersOf` for the whole of
  `processRequest`. The answer of a client stays as it was given while its request
  keeps growing and the stores change, so what the invariant keeps of it
  (`Justified`) mentions no store. That a command names what the path says
  rests on what cutting a sequence between a prefix and a suffix leaves
  (`ThreeParts`, `OneBetween`).

**`ProbeRunProofs`** (any number of context changes and printed lines)

- `TypeCorrect`, `OneResult`, `ExitCodeTrue`, `Waits`. The exit code is set by
  whoever finishes first and must tell what was printed first; `Sound` relates
  the two in every state. That there is only one outcome is guarded differently in
  each probe: `m_initialSnapshotPublished` in those that read a state, and
  `m_finished` in `audio_control_probe` (`Guarded`). `QueueInv` says of the zero
  timers that a submission is queued only after PulseAudio was heard of, so that
  it does not matter when it runs.

Only model-checked: all liveness (`CatchesUp`, `HelloEventuallyAnswered`,
`FatalErrorEndsSession`, `CatchesUpWithDesk`, `AcceptedIsPublishedWithoutFaults`,
`StoreCatchesUp`, `InitialStatePublished`, `RunsEnd`), since fairness is beyond
the prover. Every invariant and action property that a passing run checks is
stated by a theorem.

## 5. Where code and documents disagree

- **An accepted activation may be forgotten** (`activation_helper_ends`). The
  helper keeps accepted requests in memory; one that ends loses them, and a poll
  it had read is never answered, after which the script never polls again. The
  OpenAPI document says that the resulting state is published later.
- **Quick increments do not add up** (`volume_deltas`). An increment is computed
  from the volume of the last notification; a second one made before it sends the
  same absolute volume. The OpenAPI document says "increases by".
- **Early refusals carry no CORS headers** (`http_cors`). Requests refused before
  the `Origin` header is looked up are answered without them; changelog and
  getting-started promise them for backend responses.
- **A replaced socket sets the status** (`web_status`). The close listener of the
  hook ignores sockets it has replaced, its error listener does not: saving
  settings while the socket is still connecting makes the dashboard say that the
  connection failed while the new one is being made.

Noticed without a run: `GET /icons/apps/{id}` answers 400 for a name that is
empty or decodes to one with a slash, a status `specs/openapi.yaml` does not list
for it (`StatusesDocumented` and the theorem `StatusesListed` are about icons
whose name is valid);
a `window_probe activate` that has reported its timeout may still activate the
window when the last poll is due in the same pass (`ProbeRun` allows it and shows
that the exit code and the number of requests are right nevertheless); the source
of `window_probe` restarts its poll timer after a first poll that failed; and
releasing a slider and then leaving it commits its volume twice (`Dashboard`
allows it; both requests ask for what the slider shows).

## 6. Not modelled

| Part | Why |
|---|---|
| Wayland observer | dead code: no CMake target compiles it and nothing refers to it |
| `checkWebSocketEndpoint` of the web client | nothing calls it |
| Rows of sources, click on a taskbar item, theme, `localStorage` of the dashboard | the same `runDeviceAction` for another device; a request without an answer that is shown; state of one tab without concurrency |
| Error codes of the stream that the service never sends to the dashboard, messages that are not JSON | not part of the service modelled |
| Geometry, titles and other details of windows; sorting of lists | nothing decides on them |
| JSON envelopes, option parsing, formatting, icons, documentation pages, build files | input and output without state |
| `main.cpp` of the service | connects the parts in a fixed order, which the initial states assume; the rest is option parsing |

Hazards without a property are listed with the reason in `PROJECT.json`: the
short regression at start of the window observer, what a push during teardown
leaves behind, clients that never finish a request (there is no timeout to check),
and two that depend on when PulseAudioQt writes and lists.
