---------------------------- MODULE StreamHook ----------------------------
(***************************************************************************)
(* The connection of the dashboard to the state stream: useStateStream     *)
(* (clients/web/src/api/useStateStream.ts) opens one WebSocket per saved   *)
(* setting, closes the one before, and turns the events of both into the   *)
(* state and the status the dashboard shows.                               *)
(*                                                                         *)
(* JavaScript runs each event listener to its end, so every listener is    *)
(* one action.  Sockets are numbered in the order they are created; the    *)
(* last is the one of the current effect, and closedByEffect is set for    *)
(* all others.                                                             *)
(*                                                                         *)
(* A service is reduced to what StateStream shows of it to one client: a   *)
(* hello is answered with the full state, or with not_ready and the full   *)
(* state later, and every change after that is sent as a patch.            *)
(***************************************************************************)
EXTENDS WindowSnapshot, FiniteSets

CONSTANTS
  Servers,       (* the services the settings may name, one for both URLs    *)
  FirstServer,   (* the service the settings name at first                   *)
  Late,          (* services that may not have their state yet               *)
  Volumes,       (* the volumes of the sink                                  *)
  FirstAudio,    (* FirstAudio[s]: audio state of service s at first         *)
  Desktops,      (* what KWin shows its script, and then the helper          *)
  FirstDesktop,  (* what it shows at first                                   *)
  MaxChanges     (* bound: changes of a service that no request asked for    *)

AudioStates == [volume : Volumes, muted : BOOLEAN]

TrackedWindows == [id : WindowIds \cup {NoId}, skipTaskbar : BOOLEAN]

(* A desktop: the windows KWin tracks, its active window (NoId for none),  *)
(* and what it says of the windows when the helper asks.                   *)
IsDesktop(d) ==
  /\ d.tracked \in Seq(TrackedWindows)
  /\ d.activeId \in WindowIds \cup {NoId}
  /\ d.info \in [DOMAIN d.tracked -> WindowInfos]

ASSUME ServersAssumption ==
  FirstServer \in Servers /\ FirstAudio \in [Servers -> AudioStates] /\ Late \subseteq Servers
ASSUME DesktopsAssumption == FirstDesktop \in Desktops /\ \A d \in Desktops : IsDesktop(d)

VARIABLES
  ready,     (* services whose stores are ready                              *)
  audio,     (* audio[s]: the audio store of service s                       *)
  windows,   (* windows[s]: the window store of service s                    *)
  changes,   (* how often a service changed by itself                        *)
  sockets,   (* the sockets created so far                                   *)
  state,     (* streamState: audio and windowState, {} for null              *)
  status     (* status: what the connection pill says                        *)

serverVars == <<ready, audio, windows, changes>>
hookVars == <<sockets, state, status>>

(* "failing": close() was called before the socket was open; "closing":    *)
(* it was called on an open socket.                                        *)
Life == {"connecting", "open", "failing", "closing", "closed"}
Statuses == {"connecting", "connected", "not_ready", "disconnected", "error"}

Messages ==
  [type : {"fullState", "patch", "error"},
   audio : Optional(AudioStates), windowState : Optional(JsonSnapshots)]

BackendStates == [audio : Optional(AudioStates), windowState : Optional(JsonSnapshots)]

(* A socket: the service it connects to; for that service, whether the     *)
(* hello arrived and the full state was sent; the messages under way; and  *)
(* hasState of its effect.                                                 *)
WebSockets ==
  [server : Servers, life : Life, greeted : BOOLEAN, served : BOOLEAN,
   wire : Seq(Messages), hasState : BOOLEAN]

emptyBackendState == [audio |-> {}, windowState |-> {}]

Current == Len(sockets)
ConfiguredServer == sockets[Current].server

-----------------------------------------------------------------------------
(* A service *)

(* How the window store comes by its content: script, helper and cached    *)
(* JSON, observer, store.  A list that cannot be read is never published.  *)
Readings ==
  [desktop \in Desktops |->
     {Normalize(read) : read \in
        UNION {FromJson(ToJson(Enrich(s, desktop.info))) :
                 s \in FromJson(CurrentSnapshot(desktop.tracked, desktop.activeId))}}]

FullState(s) ==
  [type |-> "fullState", audio |-> {audio[s]}, windowState |-> {ToJson(windows[s])}]
NotReady == [type |-> "error", audio |-> {}, windowState |-> {}]

(* What service s sends to every socket that has its full state.           *)
Broadcast(s, message) ==
  [g \in DOMAIN sockets |->
     IF sockets[g].server = s /\ sockets[g].served
       THEN [sockets[g] EXCEPT !.wire = Append(@, message)] ELSE sockets[g]]

BroadcastAudio(s, a) ==
  sockets' = IF a = audio[s] THEN sockets
             ELSE Broadcast(s, [type |-> "patch", audio |-> {a}, windowState |-> {}])

(* Devices and windows of a service change without the dashboard.          *)
ServiceChanges(s) ==
  /\ s \in ready
  /\ changes < MaxChanges
  /\ changes' = changes + 1
  /\ \/ \E a \in AudioStates :
          /\ (a.volume # audio[s].volume) # (a.muted # audio[s].muted)
          /\ audio' = [audio EXCEPT ![s] = a] /\ BroadcastAudio(s, a)
          /\ UNCHANGED windows
     \/ \E d \in Desktops : \E w \in Readings[d] :
          /\ windows' = [windows EXCEPT ![s] = w]
          /\ sockets' = Broadcast(s, [type |-> "patch", audio |-> {}, windowState |-> {ToJson(w)}])
          /\ UNCHANGED audio
  /\ UNCHANGED <<ready, state, status>>

(* Both stores are ready; whoever said hello before gets the full state.   *)
BecomesReady(s) ==
  /\ s \notin ready
  /\ ready' = ready \cup {s}
  /\ sockets' = [g \in DOMAIN sockets |->
                   IF sockets[g].server = s /\ sockets[g].greeted
                     THEN [sockets[g] EXCEPT !.served = TRUE, !.wire = Append(@, FullState(s))]
                     ELSE sockets[g]]
  /\ UNCHANGED <<audio, windows, changes, state, status>>

(* The hello of the open listener arrives. *)
Greets(g) ==
  /\ sockets[g].life = "open" /\ ~sockets[g].greeted
  /\ LET s == sockets[g].server
         reply == IF s \in ready THEN FullState(s) ELSE NotReady
     IN  sockets' = [sockets EXCEPT ![g] =
                       [@ EXCEPT !.greeted = TRUE, !.served = s \in ready, !.wire = <<reply>>]]
  /\ UNCHANGED <<serverVars, state, status>>

-----------------------------------------------------------------------------
(* The effect *)

NewSocket(server, life) ==
  [server |-> server, life |-> life, greeted |-> FALSE, served |-> FALSE,
   wire |-> <<>>, hasState |-> FALSE]

KeepSocket(socket) == socket

(* socket.close() *)
CloseSocket(socket) ==
  [socket EXCEPT !.life = CASE @ = "connecting" -> "failing"
                            [] @ = "open" -> "closing"
                            [] OTHER -> @]

(* The effect of useStateStream for new settings, the cleanup of the one   *)
(* before first.  The browser may refuse to create the socket.             *)
RunEffect(server) ==
  /\ state' = emptyBackendState
  /\ \E life \in {"connecting", "closed"} :
       /\ sockets' = Append([sockets EXCEPT ![Current] = CloseSocket(sockets[Current])], NewSocket(server, life))
       /\ status' = IF life = "connecting" THEN "connecting" ELSE "error"

-----------------------------------------------------------------------------
(* The listeners *)

(* open: hello is sent. *)
Opens(g) ==
  /\ sockets[g].life = "connecting"
  /\ sockets' = [sockets EXCEPT ![g] = [@ EXCEPT !.life = "open"]]
  /\ UNCHANGED <<serverVars, state, status>>

(* applyBackendMessage *)
ApplyBackendMessage(known, message) ==
  [audio |-> IF message.audio # {} THEN message.audio ELSE known.audio,
   windowState |-> IF message.windowState # {} THEN message.windowState ELSE known.windowState]

Carries(message) == message.type # "error"

ReadBy(socket) ==
  [socket EXCEPT !.wire = Tail(socket.wire),
                 !.hasState = socket.hasState \/ Carries(Head(socket.wire))]

(* message: browsers deliver messages of open sockets only. *)
Receives(g) ==
  /\ sockets[g].life = "open"
  /\ sockets[g].wire # <<>>
  /\ sockets' = [sockets EXCEPT ![g] = ReadBy(sockets[g])]
  /\ LET message == Head(sockets[g].wire)
     IN  /\ state' = IF Carries(message) THEN ApplyBackendMessage(state, message) ELSE state
         /\ status' = IF Carries(message) THEN "connected" ELSE "not_ready"
  /\ UNCHANGED serverVars

Ended(socket) ==
  [server |-> socket.server, life |-> "closed", greeted |-> FALSE, served |-> FALSE,
   wire |-> <<>>, hasState |-> socket.hasState]

(* error and close of the socket in use: it could not connect, or the      *)
(* connection is lost with whatever was under way on it.                   *)
Drops(g) ==
  /\ g = Current
  /\ sockets[g].life \in {"connecting", "open"}
  /\ sockets' = [sockets EXCEPT ![g] = Ended(sockets[g])]
  /\ status' = IF sockets[g].hasState THEN "disconnected" ELSE "error"
  /\ UNCHANGED <<serverVars, state>>

(* A socket closed by the effect ends.  Only its close listener looks at   *)
(* closedByEffect; error comes too if it had not been open yet.            *)
ClosedSocketEnds(g) ==
  /\ sockets[g].life \in {"failing", "closing"}
  /\ sockets' = [sockets EXCEPT ![g] = Ended(sockets[g])]
  /\ status' = IF sockets[g].life = "failing" THEN "error" ELSE status
  /\ UNCHANGED <<serverVars, state>>

-----------------------------------------------------------------------------
HookTypeOK ==
  /\ ready \subseteq Servers
  /\ audio \in [Servers -> AudioStates]
  /\ windows \in [Servers -> Snapshots]
  /\ changes \in 0 .. MaxChanges
  /\ sockets \in Seq(WebSockets) /\ sockets # <<>>
  /\ state \in BackendStates
  /\ status \in Statuses

HookInit ==
  /\ ready \in {Servers, Servers \ Late}
  /\ audio = FirstAudio
  /\ windows \in [Servers -> Readings[FirstDesktop]]
  /\ changes = 0
  /\ sockets = <<NewSocket(FirstServer, "connecting")>>
  /\ state = emptyBackendState
  /\ status = "connecting"
=============================================================================
