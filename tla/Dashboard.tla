----------------------------- MODULE Dashboard -----------------------------
(***************************************************************************)
(* The dashboard (clients/web/src/app/Dashboard.tsx, with the rows of      *)
(* components/AudioSection.tsx, the taskbar and the settings dialog): what *)
(* it shows of the stream of StreamHook, the check of the HTTP endpoint,   *)
(* and the row of a sink with its slider, its mute button and the requests *)
(* both send.                                                              *)
(*                                                                         *)
(* Requests travel on connections of their own: they reach the service,    *)
(* and their answers the dashboard, in any order, and independently of the *)
(* stream that tells of their effect.  The service answers once it has     *)
(* passed the request on to PulseAudio; what becomes of it there, and when *)
(* the stream shows it, is not known then (AudioControl, AudioObserver).   *)
(***************************************************************************)
EXTENDS StreamHook

CONSTANTS
  FullScale,    (* the volume at the right end of a slider: 100%             *)
  MaxActions    (* bound: settings saved and requests sent                   *)

ASSUME ScaleAssumption ==
  FullScale \in Nat /\ Volumes \subseteq Nat /\ 0 .. FullScale \subseteq Volumes
ASSUME BoundsAssumption == MaxActions \in Nat /\ MaxChanges \in Nat

VARIABLES
  httpStatus,  (* the effect whose check httpStatus shows, {} for "checking" *)
  checks,      (* effects whose HTTP check has not ended                     *)
  draft,       (* volumeDrafts of the sink                                   *)
  focused,     (* the slider has the focus                                   *)
  pending,     (* pendingActions of the row: actions shown as under way      *)
  rowError,    (* rowErrors of the row: an error is shown                    *)
  requests,    (* requests that have not been answered                       *)
  issued,      (* how many requests were sent                                *)
  orders,      (* orders[s]: accepted by service s, on their way to its      *)
               (* PulseAudio and back to its audio store                     *)
  unseen       (* history: since the draft was last set or cleared, an order *)
               (* of the configured service was given up that would have     *)
               (* changed the sink                                           *)

checkVars == <<httpStatus, checks>>
rowVars == <<draft, focused, pending, rowError, requests, issued>>
orderVars == <<orders, unseen>>
vars == <<serverVars, hookVars, checkVars, rowVars, orderVars>>

Actions == {"volume", "mute"}
Positions == 0 .. FullScale
Orders == [volume : Optional(Positions), muted : Optional(BOOLEAN)]

(* What the row shows of a volume (percentValue): an amplified sink looks  *)
(* like one at 100%.                                                       *)
PositionUnclamped(volume) == volume
Position(volume) == IF volume > FullScale THEN FullScale ELSE volume

HasRow == state.audio # {}
ShownAudio == CHOOSE a \in state.audio : TRUE
SliderValue == ValueOr(draft, Position(ShownAudio.volume))

(* The user does one more thing. *)
Acts == (Current - 1) + issued < MaxActions

-----------------------------------------------------------------------------
(* Settings and the check of the HTTP endpoint *)

checkingHttpStatus == {}

(* saveSettings, and the two effects that depend on the settings and on    *)
(* reconnectToken: Save also reconnects to the same endpoints.  The third  *)
(* effect clears the drafts when stream.state.audio changes.               *)
Save(server) ==
  /\ Acts
  /\ RunEffect(server)
  /\ httpStatus' = checkingHttpStatus
  /\ checks' = checks \cup {Current + 1}
  /\ draft' = IF HasRow THEN {} ELSE draft
  /\ unseen' = FALSE
  /\ UNCHANGED <<serverVars, focused, pending, rowError, requests, issued, orders>>

(* checkHttpEndpoint resolves, after 5 s at the latest, to "reachable" or  *)
(* "unreachable"; the result of an effect that was cleaned up is not shown. *)
CheckEnds(g) ==
  /\ g \in checks
  /\ checks' = checks \ {g}
  /\ httpStatus' = IF g = Current THEN {g} ELSE httpStatus
  /\ UNCHANGED <<serverVars, hookVars, rowVars, orderVars>>

-----------------------------------------------------------------------------
(* The row of the sink *)

KeepDraft(g) == UNCHANGED <<draft, unseen>>

(* The effect on stream.state.audio: a message that carries an audio state *)
(* makes a new object of it, also when it says the same.                   *)
ClearDrafts(g) ==
  LET clears == Head(sockets[g].wire).audio # {}
  IN  /\ draft' = IF clears THEN {} ELSE draft
      /\ unseen' = (unseen /\ ~clears)

ReceivesMessage(g) ==
  /\ Receives(g)
  /\ ClearDrafts(g)
  /\ UNCHANGED <<checkVars, focused, pending, rowError, requests, issued, orders>>

(* The slider is disabled while its own request is under way. *)
Drag(position) ==
  /\ HasRow /\ "volume" \notin pending
  /\ position # SliderValue
  /\ draft' = {position} /\ focused' = TRUE /\ unseen' = FALSE
  /\ UNCHANGED <<serverVars, hookVars, checkVars, pending, rowError, requests, issued, orders>>

Focus ==
  /\ HasRow /\ ~focused /\ "volume" \notin pending
  /\ focused' = TRUE
  /\ UNCHANGED <<serverVars, hookVars, checkVars, draft, pending, rowError, requests, issued,
                 orderVars>>

(* runDeviceAction, up to the first await: the request asks for a volume   *)
(* or for muted, and the row shows it as under way.                        *)
Action(volume) == IF volume # {} THEN "volume" ELSE "mute"

RunDeviceAction(volume, muted) ==
  /\ Acts
  /\ issued' = issued + 1
  /\ pending' = pending \cup {Action(volume)}
  /\ rowError' = FALSE
  /\ requests' = requests \cup
       {[id |-> issued', server |-> ConfiguredServer, volume |-> volume, muted |-> muted,
         stage |-> "sent"]}

(* onPointerUp and onBlur both commit what the slider shows, changed or    *)
(* not; after releasing the pointer the focus stays.                       *)
CommitVolume ==
  /\ HasRow /\ focused
  /\ RunDeviceAction({SliderValue}, {})
  /\ focused' \in BOOLEAN
  /\ UNCHANGED <<serverVars, hookVars, checkVars, draft, orderVars>>

(* A slider that is disabled or gone may lose the focus without onBlur. *)
LosesFocus ==
  /\ focused
  /\ ~HasRow \/ "volume" \in pending
  /\ focused' = FALSE
  /\ UNCHANGED <<serverVars, hookVars, checkVars, draft, pending, rowError, requests, issued,
                 orderVars>>

(* toggleSinkMuted *)
ToggleMuted ==
  /\ HasRow /\ "mute" \notin pending
  /\ RunDeviceAction({}, {~ShownAudio.muted})
  /\ UNCHANGED <<serverVars, hookVars, checkVars, draft, focused, orderVars>>

-----------------------------------------------------------------------------
(* Requests *)

(* The controller of the service issues PulseAudioQt's asynchronous call    *)
(* and accepts (setResolvedSinkVolume, setResolvedDeviceMuted), or refuses *)
(* the request.                                                            *)
Handles(r) ==
  /\ r.stage = "sent"
  /\ \/ /\ orders' = [orders EXCEPT ![r.server] = Append(@, [volume |-> r.volume, muted |-> r.muted])]
        /\ requests' = (requests \ {r}) \cup {[r EXCEPT !.stage = "accepted"]}
     \/ /\ requests' = (requests \ {r}) \cup {[r EXCEPT !.stage = "refused"]}
        /\ UNCHANGED orders
  /\ UNCHANGED <<serverVars, hookVars, checkVars, draft, focused, pending, rowError, issued, unseen>>

(* The rest of runDeviceAction: the request was accepted, or it was        *)
(* refused, failed on its way or its answer was lost.                      *)
Answers(r) ==
  /\ requests' = requests \ {r}
  /\ pending' = pending \ {Action(r.volume)}
  /\ \/ r.stage = "accepted" /\ UNCHANGED rowError
     \/ rowError' = TRUE
  /\ UNCHANGED <<serverVars, hookVars, checkVars, draft, focused, issued, orderVars>>

-----------------------------------------------------------------------------
(* What becomes of an accepted request *)

NextOrder(s) == orders[s] # <<>> /\ orders' = [orders EXCEPT ![s] = Tail(@)]

(* The audio state of service s once its next order is carried out. *)
Ordered(s) ==
  LET order == Head(orders[s])
  IN  [volume |-> ValueOr(order.volume, audio[s].volume),
       muted |-> ValueOr(order.muted, audio[s].muted)]

(* PulseAudio carries it out, and the observer publishes the state it is   *)
(* notified of: a change of the store, which the stream shows, or none.    *)
ShowsOrder(s) ==
  /\ NextOrder(s)
  /\ audio' = [audio EXCEPT ![s] = Ordered(s)]
  /\ BroadcastAudio(s, Ordered(s))
  /\ UNCHANGED <<ready, windows, changes, state, status, checkVars, rowVars, unseen>>

(* PulseAudio drops it with a connection that is lost, or another program  *)
(* undoes it before PulseAudioQt hears of it: the store is not changed.    *)
GivesUpOrder(s) ==
  /\ NextOrder(s)
  /\ unseen' = (unseen \/ (s = ConfiguredServer /\ Ordered(s) # audio[s]))
  /\ UNCHANGED <<serverVars, hookVars, checkVars, rowVars>>

-----------------------------------------------------------------------------
Init ==
  /\ HookInit
  /\ httpStatus = checkingHttpStatus /\ checks = {1}
  /\ draft = {} /\ focused = FALSE /\ pending = {} /\ rowError = FALSE
  /\ requests = {} /\ issued = 0
  /\ orders = [s \in Servers |-> <<>>] /\ unseen = FALSE

(* What the sockets and the services do without touching the dashboard.    *)
Outside ==
  /\ \/ \E s \in Servers : ServiceChanges(s)
     \/ \E s \in Servers : BecomesReady(s)
     \/ \E g \in DOMAIN sockets : Greets(g)
     \/ \E g \in DOMAIN sockets : Opens(g)
     \/ \E g \in DOMAIN sockets : Drops(g)
     \/ \E g \in DOMAIN sockets : ClosedSocketEnds(g)
  /\ UNCHANGED <<checkVars, rowVars, orderVars>>

Next ==
  \/ Outside
  \/ \E server \in Servers : Save(server)
  \/ \E g \in checks : CheckEnds(g)
  \/ \E g \in DOMAIN sockets : ReceivesMessage(g)
  \/ \E position \in Positions : Drag(position)
  \/ Focus
  \/ CommitVolume
  \/ LosesFocus
  \/ ToggleMuted
  \/ \E r \in requests : Handles(r)
  \/ \E r \in requests : Answers(r)
  \/ \E s \in Servers : ShowsOrder(s)
  \/ \E s \in Servers : GivesUpOrder(s)

Spec == Init /\ [][Next]_vars

TypeOK ==
  /\ HookTypeOK
  /\ httpStatus \in Optional(DOMAIN sockets)
  /\ checks \subseteq DOMAIN sockets
  /\ draft \in Optional(Positions)
  /\ focused \in BOOLEAN
  /\ pending \subseteq Actions
  /\ rowError \in BOOLEAN
  /\ requests \subseteq [id : 1 .. MaxActions, server : Servers, volume : Optional(Positions),
                         muted : Optional(BOOLEAN), stage : {"sent", "accepted", "refused"}]
  /\ issued \in 0 .. MaxActions
  /\ orders \in [Servers -> Seq(Orders)]
  /\ unseen \in BOOLEAN

-----------------------------------------------------------------------------
(* What the dashboard promises *)

(* What messages carry of a part of the state, in their order.             *)
AudioParts(wire) == [i \in DOMAIN wire |-> wire[i].audio]
WindowParts(wire) == [i \in DOMAIN wire |-> wire[i].windowState]

(* Once all parts that are under way have arrived, value is shown: the     *)
(* last that is there carries it, or none is and it is shown already.      *)
ArrivesAt(shown, parts, value) ==
  /\ (\A i \in DOMAIN parts : parts[i] = {}) => shown = {value}
  /\ \A i \in DOMAIN parts :
       (parts[i] # {} /\ \A j \in DOMAIN parts : j > i => parts[j] = {}) => parts[i] = {value}

(* Whatever was saved before and still answers late - sockets that close,  *)
(* checks that end - the dashboard shows the service and the connection    *)
(* that are configured now: nothing until the current socket has sent a    *)
(* state, and then, with what is under way, exactly the state of its       *)
(* service (closedByEffect of useStateStream, cancelled of the check).     *)
ShowsConfiguredService ==
  LET socket == sockets[Current]
      s == socket.server
  IN  /\ ~socket.hasState => state = emptyBackendState
      /\ (socket.life = "open" /\ socket.served) =>
           /\ ArrivesAt(state.audio, AudioParts(socket.wire), audio[s])
           /\ ArrivesAt(state.windowState, WindowParts(socket.wire), ToJson(windows[s]))
      /\ httpStatus \subseteq {Current}

(* However drags, commits, answers, orders, messages and reconnections     *)
(* interleave, the dashboard settles once nothing is under way any more.   *)
(* Then no control is left disabled; it no longer says connecting or       *)
(* checking; and the slider shows the volume of the sink or the row says   *)
(* that something failed.  A draft that is neither stays behind only when  *)
(* the service accepted a request that it then did not make happen: no     *)
(* message clears the draft, and nothing tells (volumeDrafts,              *)
(* runDeviceAction, setResolvedSinkVolume).                                *)
StreamQuiet ==
  LET socket == sockets[Current]
  IN  \/ socket.life = "open" /\ socket.greeted /\ socket.wire = <<>>
      \/ socket.life = "closed"

SettlesWithService ==
  /\ requests = {} => pending = {}
  /\ StreamQuiet => status # "connecting"
  /\ checks = {} => httpStatus # checkingHttpStatus
  /\ (StreamQuiet /\ sockets[Current].served /\ requests = {} /\ ~focused
      /\ orders[ConfiguredServer] = <<>>) =>
       rowError \/ unseen \/ SliderValue = Position(audio[ConfiguredServer].volume)

(* Whatever KWin lists, and says of the windows a moment later, the        *)
(* taskbar has each window once and at most one active item, the active    *)
(* window (normalizeWindowSnapshot, windowsForTaskbar).                    *)
TaskbarHasOneActive == \A json \in state.windowState : OneActiveItem(json)

(* "Use Settings to edit endpoints, reconnect, view connection status"     *)
(* (clients/web/docs/usage.md): while the socket of the current settings   *)
(* is still connecting, that is what the status says.                      *)
StatusIsOfCurrentSocket == sockets[Current].life = "connecting" => status = "connecting"
=============================================================================
