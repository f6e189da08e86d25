---------------------------- MODULE StateStream ----------------------------
(***************************************************************************)
(* The live state stream of the service: the audio and window state stores *)
(* (backend/src/state), the WebSocket server that broadcasts them          *)
(* (backend/src/api/state_websocket_server.cpp) and the state a web client *)
(* accumulates from the stream (clients/web/src/api/state.ts).             *)
(*                                                                         *)
(* The service runs on one Qt event loop, so each slot is one action: an   *)
(* update of a store includes the broadcast to every session, which its    *)
(* signal triggers synchronously.  What interleaves is the order of those  *)
(* events: store updates, frames of several clients, the zero timers that  *)
(* close a socket after a fatal error, disconnections, and the arrival of  *)
(* the sent messages at the clients.                                       *)
(*                                                                         *)
(* The content of a store is abstracted to the number of the update that   *)
(* produced it; 0 stands for the default-constructed content of a store    *)
(* that was never updated.                                                 *)
(***************************************************************************)
EXTENDS Naturals, Sequences, FiniteSets

CONSTANTS
  Stores,      (* the stores passed to the server (a null one is left out) *)
  Sockets,     (* the connections made during a behaviour                  *)
  Readiness,   (* the values of `ready` the observers pass to an update    *)
  MaxVersion,  (* bound: updates of one store                              *)
  MaxFrames    (* bound: MaxFrames[c] frames are sent by the client of c    *)

ASSUME ReadinessAssumption == Readiness \subseteq BOOLEAN
ASSUME BoundsAssumption == MaxVersion \in Nat
ASSUME FramesAssumption == MaxFrames \in [Sockets -> Nat]

VARIABLES
  ready,          (* ready[s]: m_ready of store s                           *)
  version,        (* version[s]: the content of store s                     *)
  conn,           (* conn[c]: life of the connection, see Life              *)
  clients,        (* m_clients: the sockets that have a ClientSession       *)
  helloReceived,  (* sessions with helloReceived set                        *)
  fullStateSent,  (* sessions with fullStateSent set                        *)
  closing,        (* sockets with a pending close timer                     *)
  inbox,          (* inbox[c]: frames sent by the client, not yet handled   *)
  frames,         (* frames[c]: how many frames the client has sent         *)
  wire,           (* wire[c]: messages sent to the client, not yet applied  *)
  view            (* view[c]: the state the client has built, Absent = null *)

storeVars == <<ready, version>>
sessionVars == <<clients, helloReceived, fullStateSent, closing>>
clientVars == <<inbox, frames>>
vars == <<ready, version, conn, clients, helloReceived, fullStateSent,
          closing, inbox, frames, wire, view>>

(* "left": the peer went away and the server has not noticed yet; "closing": *)
(* the server has called close(); "gone": `disconnected` was delivered.      *)
Life == {"none", "open", "closing", "left", "gone"}

(* A text frame is a valid hello, a hello of another protocol version, or  *)
(* anything else (not JSON, not an object, not a hello).                   *)
TextFrames == {"hello", "otherVersion", "malformed"}
Frames == TextFrames \cup {"binary"}

Absent == 0
Nothing == [s \in Stores |-> Absent]
Versions == 0 .. MaxVersion

(* A message carries the new content of some stores: of all of them in a   *)
(* full state, of one in a patch, of none in an error.                     *)
Messages == [type : {"fullState", "patch", "error"}, value : [Stores -> Versions]]

TypeOK ==
  /\ ready \in [Stores -> BOOLEAN]
  /\ version \in [Stores -> Versions]
  /\ conn \in [Sockets -> Life]
  /\ clients \subseteq {c \in Sockets : conn[c] \in {"open", "closing", "left"}}
  /\ helloReceived \subseteq clients
  /\ fullStateSent \subseteq helloReceived
  /\ closing \subseteq {c \in Sockets : conn[c] \in {"open", "closing", "left"}}
  /\ inbox \in [Sockets -> Seq(Frames)]
  /\ frames \in [Sockets -> Nat] /\ \A c \in Sockets : frames[c] <= MaxFrames[c]
  /\ wire \in [Sockets -> Seq(Messages)]
  /\ view \in [Sockets -> [Stores -> Versions]]

Init ==
  /\ ready = [s \in Stores |-> FALSE]
  /\ version = Nothing
  /\ conn = [c \in Sockets |-> "none"]
  /\ clients = {}
  /\ helloReceived = {}
  /\ fullStateSent = {}
  /\ closing = {}
  /\ inbox = [c \in Sockets |-> <<>>]
  /\ frames = [c \in Sockets |-> 0]
  /\ wire = [c \in Sockets |-> <<>>]
  /\ view = [c \in Sockets |-> Nothing]

-----------------------------------------------------------------------------
(* Messages and sending *)

ErrorMessage == [type |-> "error", value |-> Nothing]

(* buildFullStatePayload: every attached store that is ready. *)
FullState(rdy, ver) ==
  [type |-> "fullState", value |-> [s \in Stores |-> IF rdy[s] THEN ver[s] ELSE Absent]]

(* buildAudioPatchMessage, buildWindowPatchMessage: the subtree of one store. *)
Patch(s, ver) ==
  [type |-> "patch", value |-> [t \in Stores |-> IF t = s THEN ver[s] ELSE Absent]]

(* sendTextMessage writes only to a socket that is still connected, and    *)
(* what is written to a peer that left reaches nobody.                     *)
Sent(c, m) == IF conn[c] = "open" THEN Append(wire[c], m) ELSE wire[c]

Send(c, m) == wire' = [wire EXCEPT ![c] = Sent(c, m)]

(* isConfiguredStateReady *)
ConfiguredStateReady(rdy) == Stores # {} /\ \A s \in Stores : rdy[s]

(* sendError with closeAfter: the socket is closed by a zero timer, so     *)
(* whatever is already queued on the event loop happens first.             *)
FailWithoutClose(c) == Send(c, ErrorMessage) /\ UNCHANGED closing
Fail(c) == Send(c, ErrorMessage) /\ closing' = closing \cup {c}

SendFullState(c) ==
  /\ Send(c, FullState(ready, version))
  /\ fullStateSent' = fullStateSent \cup {c}

-----------------------------------------------------------------------------
(* Connections *)

(* handleNewConnection: a wrong path is answered and closed without ever   *)
(* becoming a session.                                                     *)
HandleNewConnection(c) ==
  /\ conn[c] = "none"
  /\ conn' = [conn EXCEPT ![c] = "open"]
  /\ \/ clients' = clients \cup {c} /\ UNCHANGED <<closing, wire>>
     \/ UNCHANGED clients /\ closing' = closing \cup {c}
        /\ wire' = [wire EXCEPT ![c] = <<ErrorMessage>>]
  /\ UNCHANGED <<storeVars, helloReceived, fullStateSent, clientVars, view>>

(* The client sends a frame, of whatever kind. *)
ClientSends(c, f) ==
  /\ conn[c] = "open"
  /\ frames[c] < MaxFrames[c]
  /\ frames' = [frames EXCEPT ![c] = @ + 1]
  /\ inbox' = [inbox EXCEPT ![c] = Append(@, f)]
  /\ UNCHANGED <<storeVars, conn, sessionVars, wire, view>>

(* The next frame of a session is delivered: sockets of a wrong path have  *)
(* no handler, and a closed socket is not read any more.                   *)
Delivers(c, kinds) ==
  /\ c \in clients
  /\ conn[c] \in {"open", "left"}
  /\ inbox[c] # <<>>
  /\ Head(inbox[c]) \in kinds
  /\ inbox' = [inbox EXCEPT ![c] = Tail(@)]

(* handleTextMessage: only one frame, a hello of the protocol version of   *)
(* the server, is ever accepted from a session.                            *)
HandleTextMessage(c) ==
  /\ Delivers(c, TextFrames)
  /\ \/ /\ c \in helloReceived \/ Head(inbox[c]) # "hello"
        /\ Fail(c)
        /\ UNCHANGED <<helloReceived, fullStateSent>>
     \/ /\ c \notin helloReceived /\ Head(inbox[c]) = "hello"
        /\ helloReceived' = helloReceived \cup {c}
        /\ UNCHANGED closing
        /\ \/ ConfiguredStateReady(ready) /\ SendFullState(c)
           \/ ~ConfiguredStateReady(ready) /\ Send(c, ErrorMessage)
              /\ UNCHANGED fullStateSent
  /\ UNCHANGED <<storeVars, conn, clients, frames, view>>

HandleBinaryMessage(c) ==
  /\ Delivers(c, {"binary"})
  /\ Fail(c)
  /\ UNCHANGED <<storeVars, conn, clients, helloReceived, fullStateSent, frames, view>>

(* The zero timer of sendError fires. *)
CloseTimeout(c) ==
  /\ c \in closing
  /\ conn[c] \in {"open", "left"}
  /\ conn' = [conn EXCEPT ![c] = "closing"]
  /\ closing' = closing \ {c}
  /\ UNCHANGED <<storeVars, clients, helloReceived, fullStateSent, clientVars, wire, view>>

(* `disconnected`: the session is forgotten; the socket is deleted and its *)
(* timers with it.                                                         *)
DisconnectedKeepingSession(c) ==
  /\ conn[c] \in {"closing", "left"}
  /\ conn' = [conn EXCEPT ![c] = "gone"]
  /\ clients' = clients \ {c}
  /\ closing' = closing \ {c}
  /\ UNCHANGED <<helloReceived, fullStateSent>>
  /\ UNCHANGED <<storeVars, clientVars, wire, view>>

Disconnected(c) ==
  /\ conn[c] \in {"closing", "left"}
  /\ conn' = [conn EXCEPT ![c] = "gone"]
  /\ clients' = clients \ {c}
  /\ closing' = closing \ {c}
  /\ helloReceived' = helloReceived \ {c}
  /\ fullStateSent' = fullStateSent \ {c}
  /\ UNCHANGED <<storeVars, clientVars, wire, view>>

(* The peer closes or vanishes: nothing in flight reaches it any more. *)
PeerLeaves(c) ==
  /\ conn[c] = "open"
  /\ conn' = [conn EXCEPT ![c] = "left"]
  /\ wire' = [wire EXCEPT ![c] = <<>>]
  /\ UNCHANGED <<storeVars, sessionVars, clientVars, view>>

-----------------------------------------------------------------------------
(* Store updates *)

(* handleAudioStateChanged and handleWindowStateChanged: nothing is sent   *)
(* while the changed store is not ready.  A session that has its full      *)
(* state gets a patch; one that said hello and has none gets the full      *)
(* state as soon as every store is ready.                                  *)
BroadcastPatchesOnly(s, rdy, ver) ==
  /\ wire' = [c \in Sockets |->
                IF rdy[s] /\ c \in fullStateSent THEN Sent(c, Patch(s, ver)) ELSE wire[c]]
  /\ UNCHANGED fullStateSent

BroadcastToGreeted(s, rdy, ver) ==
  /\ wire' = [c \in Sockets |->
                IF rdy[s] /\ c \in helloReceived THEN Sent(c, Patch(s, ver)) ELSE wire[c]]
  /\ UNCHANGED fullStateSent

BroadcastPrevious(s, rdy, ver) ==
  /\ wire' = [c \in Sockets |->
                IF rdy[s] /\ c \in fullStateSent THEN Sent(c, Patch(s, version))
                ELSE IF rdy[s] /\ c \in helloReceived /\ ConfiguredStateReady(rdy)
                     THEN Sent(c, FullState(rdy, ver))
                     ELSE wire[c]]
  /\ fullStateSent' = IF rdy[s] /\ ConfiguredStateReady(rdy)
                        THEN fullStateSent \cup helloReceived ELSE fullStateSent

Broadcast(s, rdy, ver) ==
  /\ wire' = [c \in Sockets |->
                IF rdy[s] /\ c \in fullStateSent THEN Sent(c, Patch(s, ver))
                ELSE IF rdy[s] /\ c \in helloReceived /\ ConfiguredStateReady(rdy)
                     THEN Sent(c, FullState(rdy, ver))
                     ELSE wire[c]]
  /\ fullStateSent' = IF rdy[s] /\ ConfiguredStateReady(rdy)
                        THEN fullStateSent \cup helloReceived ELSE fullStateSent

(* updateAudioState, updateWindowState: the store takes the new content    *)
(* and readiness, then emits the change, which runs the broadcast.         *)
UpdateState(s, isReady) ==
  /\ version[s] < MaxVersion
  /\ version' = [version EXCEPT ![s] = @ + 1]
  /\ ready' = [ready EXCEPT ![s] = isReady]
  /\ Broadcast(s, ready', version')
  /\ UNCHANGED <<conn, clients, helloReceived, closing, clientVars, view>>

-----------------------------------------------------------------------------
(* The client *)

ApplyFullStateOnly(state, m) ==
  IF m.type = "fullState"
    THEN [s \in Stores |-> IF m.value[s] # Absent THEN m.value[s] ELSE state[s]]
    ELSE state

(* applyBackendMessage: what the message carries replaces what is known,   *)
(* errors carry nothing.                                                   *)
ApplyBackendMessage(state, m) ==
  [s \in Stores |-> IF m.value[s] # Absent THEN m.value[s] ELSE state[s]]

(* The message listener of useStateStream. *)
ClientReceives(c) ==
  /\ conn[c] # "left"
  /\ wire[c] # <<>>
  /\ view' = [view EXCEPT ![c] = ApplyBackendMessage(@, Head(wire[c]))]
  /\ wire' = [wire EXCEPT ![c] = Tail(@)]
  /\ UNCHANGED <<storeVars, conn, sessionVars, clientVars>>

-----------------------------------------------------------------------------
Next ==
  \/ \E s \in Stores, r \in Readiness : UpdateState(s, r)
  \/ \E c \in Sockets : HandleNewConnection(c)
  \/ \E c \in Sockets, f \in Frames : ClientSends(c, f)
  \/ \E c \in Sockets : HandleTextMessage(c)
  \/ \E c \in Sockets : HandleBinaryMessage(c)
  \/ \E c \in Sockets : CloseTimeout(c)
  \/ \E c \in Sockets : Disconnected(c)
  \/ \E c \in Sockets : PeerLeaves(c)
  \/ \E c \in Sockets : ClientReceives(c)

Spec == Init /\ [][Next]_vars

(* The event loop handles what is queued, the network delivers, and a      *)
(* client keeps reading.  Nothing makes a client say hello, a device       *)
(* change or a peer leave.                                                 *)
Fairness ==
  \A c \in Sockets :
    /\ WF_vars(HandleTextMessage(c))
    /\ WF_vars(HandleBinaryMessage(c))
    /\ WF_vars(CloseTimeout(c))
    /\ WF_vars(Disconnected(c))
    /\ WF_vars(ClientReceives(c))

FairSpec == Spec /\ Fairness

-----------------------------------------------------------------------------
(* Safety *)

(* Whoever knows `state` and reads all of w ends with value v of store s:   *)
(* the last message of w that carries s carries v, or none carries s and   *)
(* v is known already.                                                     *)
EndsWith(w, state, s, v) ==
  \/ \E i \in 1 .. Len(w) :
       /\ w[i].value[s] = v
       /\ v # Absent
       /\ \A j \in (i + 1) .. Len(w) : w[j].value[s] = Absent
  \/ /\ \A i \in 1 .. Len(w) : w[i].value[s] = Absent
     /\ state[s] = v

(* No lost update: once a session has its full state, reading everything   *)
(* that was sent gives exactly the content of every ready store, so the    *)
(* stream and the HTTP snapshots, which read the same stores, agree        *)
(* (state_websocket_server.cpp sendFullState, sendPatch; the docs promise  *)
(* that both transports stay aligned).                                     *)
StreamAgreesWithStore ==
  \A c \in fullStateSent, s \in Stores :
    conn[c] = "open" /\ ready[s] => EndsWith(wire[c], view[c], s, version[s])

(* A hello is never forgotten: as soon as every store is ready each        *)
(* session that said hello, before or after, has been sent its full state  *)
(* (handleTextMessage defers to the next store change otherwise).          *)
HelloServedOnceReady ==
  ConfiguredStateReady(ready) => helloReceived \subseteq fullStateSent

IsCarrier(m) == m.value # Nothing

(* Of the messages w, for a reader that knows `state`: a full state has    *)
(* every store, comes before everything else that carries state and only   *)
(* to a reader that knows nothing; a patch finds the whole state known or  *)
(* on its way.                                                             *)
FullStateFirst(w, state) ==
  \A i \in 1 .. Len(w) :
    IsCarrier(w[i]) =>
      \/ /\ w[i].type = "fullState"
         /\ \A s \in Stores : w[i].value[s] # Absent /\ state[s] = Absent
         /\ \A j \in 1 .. (i - 1) : ~IsCarrier(w[j])
      \/ /\ w[i].type = "patch"
         /\ \/ \A s \in Stores : state[s] # Absent
            \/ \E j \in 1 .. (i - 1) : w[j].type = "fullState"

(* A client is never shown part of the state: the first message that       *)
(* carries anything is a full state with every store, it is the only full  *)
(* state of the connection, and patches only come after it.                *)
FullStateThenPatches == \A c \in Sockets : FullStateFirst(wire[c], view[c])

(* The stream implements the abstract feed: initial snapshot of all        *)
(* stores at once, then newer values of one store at a time.               *)
Feed == INSTANCE SnapshotFeed WITH
          Clients <- Sockets, current <- version, shown <- view
FeedSpec == Feed!FeedSpec

-----------------------------------------------------------------------------
(* Liveness *)

(* Every change reaches every client that was served and stays: the view   *)
(* catches up with all the ready stores (no patch is withheld).            *)
CatchesUp ==
  \A c \in Sockets :
    (c \in fullStateSent) ~>
      (conn[c] # "open" \/ \A s \in Stores : ready[s] => view[c][s] = version[s])

(* If the stores become and stay ready, every accepted hello is answered   *)
(* by a complete view or the end of the session, even when the hello came  *)
(* first and was answered not_ready.                                       *)
HelloEventuallyAnswered ==
  <>[]ConfiguredStateReady(ready) =>
    \A c \in Sockets :
      (c \in helloReceived) ~>
        (c \notin clients \/ \A s \in Stores : view[c][s] # Absent)

(* A client that breaks the protocol is disconnected and its session       *)
(* forgotten, as is a socket of a wrong path: none lingers in m_clients.   *)
FatalErrorEndsSession ==
  \A c \in Sockets :
    (c \in closing \/ (c \in clients /\ \E i \in 1 .. Len(inbox[c]) : inbox[c][i] # "hello"))
      ~> (conn[c] = "gone" /\ c \notin clients)
=============================================================================
