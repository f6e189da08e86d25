--------------------------- MODULE SnapshotHttp ---------------------------
(***************************************************************************)
(* SnapshotHttpServer: connections whose request arrives in pieces, the    *)
(* buffer kept for each until the request is complete, the answer, and the *)
(* end of the connection (snapshot_http_server.cpp).                       *)
(*                                                                         *)
(* The server is one thread: a handler runs to its end, controllers        *)
(* included.  Clients send and disconnect at any time, and the state       *)
(* stores change between handlers.  Sizes are counted in pieces.           *)
(***************************************************************************)
EXTENDS HttpDispatch, Functions

CONSTANTS
  Connections, (* sockets, each of which connects once                      *)
  Requests,    (* requests that clients send                                *)
  Scenarios,   (* which client sends which of them                          *)
  MaxSize,     (* kMaxRequestBytes, in pieces                               *)
  WindowIds,   (* windows that may be listed in the window store            *)
  MaxChanges   (* bound: how often the stores change                        *)

ASSUME BoundsAssumption == {MaxSize, MaxChanges} \subseteq Nat
ASSUME ScenariosAssumption == Scenarios \subseteq [Connections -> Requests]
ASSUME SizesAssumption ==
  \A r \in Requests : r.header \in Nat \ {0} /\ r.length \in Nat /\ r.extra \in Nat
ASSUME PathsAssumption == \A r \in Requests : r.path \in Seq(Range(r.path))
(* Without a Content-Length there is no body, and only a body holds fields. *)
ASSUME BodiesAssumption ==
  \A r \in Requests : /\ r.lengthHeader = "absent" => NoBody(r)
                      /\ NoBody(r) => r.body = "none"

VARIABLES
  conn,            (* conn[c]: "new", "open", "closing" or "closed"           *)
  request,         (* request[c]: what the client of c sends                  *)
  sent,            (* sent[c]: how much of it has arrived at the socket       *)
  pendingRequests, (* m_pendingRequests: for a socket, how much is buffered   *)
  answer,          (* answer[c]: what was written to the socket               *)
  cors,            (* cors[c]: the answer carries Access-Control-Allow-Origin *)
  stores,          (* what the stores hold                                    *)
  changes          (* how often the stores changed                            *)

connVars == <<conn, request, sent>>
answerVars == <<answer, cors>>
vars == <<connVars, pendingRequests, answerVars, stores, changes>>

(* The end of the header, of the request as declared, and of what the      *)
(* client sends, which may be more.                                        *)
TotalSize(r) == r.header + r.length
SentSize(r) == TotalSize(r) + r.extra

Unanswered == Answer(0, NoCommand, "none")
BadRequest == Answer(400, NoCommand, "none")

Statuses == {200, 204, 301, 400, 404, 405, 409, 415, 503}

(* What the server buffers: for sockets it knows, never more than the      *)
(* limit.                                                                  *)
PendingBounded ==
  /\ DOMAIN pendingRequests \subseteq Connections
  /\ \A c \in DOMAIN pendingRequests : pendingRequests[c] \in 0 .. MaxSize

StoreStates ==
  [audioReady : BOOLEAN, windowsReady : BOOLEAN, windows : SUBSET WindowIds,
   defaults : SUBSET {"defaultSink", "defaultSource"}]

TypeOK ==
  /\ conn \in [Connections -> {"new", "open", "closing", "closed"}]
  /\ \A c \in Connections : sent[c] \in 0 .. SentSize(request[c])
  /\ PendingBounded
  /\ \A c \in Connections : answer[c].status \in Statuses \cup {Unanswered.status}
  /\ cors \in [Connections -> BOOLEAN]
  /\ stores \in StoreStates
  /\ changes \in 0 .. MaxChanges

Init ==
  /\ conn = [c \in Connections |-> "new"]
  /\ request \in Scenarios
  /\ sent = [c \in Connections |-> 0]
  /\ pendingRequests = [c \in {} |-> 0]
  /\ answer = [c \in Connections |-> Unanswered]
  /\ cors = [c \in Connections |-> FALSE]
  /\ stores = [audioReady |-> FALSE, windowsReady |-> FALSE, windows |-> {}, defaults |-> {}]
  /\ changes = 0

-----------------------------------------------------------------------------
(* Clients and stores *)

(* handleNewConnection *)
Connect(c) ==
  /\ conn[c] = "new"
  /\ conn' = [conn EXCEPT ![c] = "open"]
  /\ UNCHANGED <<request, sent, pendingRequests, answerVars, stores, changes>>

Send(c) ==
  /\ conn[c] = "open"
  /\ \E n \in sent[c] + 1 .. SentSize(request[c]) : sent' = [sent EXCEPT ![c] = n]
  /\ UNCHANGED <<conn, request, pendingRequests, answerVars, stores, changes>>

(* The observers publish; a store that is ready stays so. *)
UpdateAudioState ==
  \E defaults \in SUBSET {"defaultSink", "defaultSource"} :
    stores' = [stores EXCEPT !.audioReady = TRUE, !.defaults = defaults]
UpdateWindowState ==
  \E windows \in SUBSET WindowIds :
    stores' = [stores EXCEPT !.windowsReady = TRUE, !.windows = windows]

StoresChange ==
  /\ changes < MaxChanges
  /\ changes' = changes + 1
  /\ UpdateAudioState \/ UpdateWindowState
  /\ UNCHANGED <<connVars, pendingRequests, answerVars>>

-----------------------------------------------------------------------------
(* The server *)

Forget(c) == pendingRequests' = Restrict(pendingRequests, DOMAIN pendingRequests \ {c})
Keep(c, n) ==
  pendingRequests' = [d \in DOMAIN pendingRequests \cup {c} |->
                        IF d = c THEN n ELSE pendingRequests[d]]

WriteResponseKeepingOpen(c, a, withCors) ==
  /\ answer' = [answer EXCEPT ![c] = a]
  /\ cors' = [cors EXCEPT ![c] = withCors]
  /\ UNCHANGED conn

(* writeByteResponse: the socket is read no more and closes once the answer *)
(* is sent.                                                                 *)
WriteResponse(c, a, withCors) ==
  /\ answer' = [answer EXCEPT ![c] = a]
  /\ cors' = [cors EXCEPT ![c] = withCors]
  /\ conn' = [conn EXCEPT ![c] = "closing"]

(* What handleReadyRead refuses before the whole request is there: too much *)
(* data, and once the header is there, a header that is malformed or        *)
(* declares a length that is not valid or too large.                        *)
RefusedEarlyUnbounded(r, size) ==
  size >= r.header /\ (~r.headersOk \/ r.lengthHeader = "bad" \/ TotalSize(r) > MaxSize)
RefusedEarly(r, size) ==
  \/ size > MaxSize
  \/ size >= r.header /\ (~r.headersOk \/ r.lengthHeader = "bad" \/ TotalSize(r) > MaxSize)

CompleteWithHeader(r, size) == size >= r.header
CompleteAndMore(r, size) == size > TotalSize(r)
Complete(r, size) == size >= TotalSize(r)

(* processRequest, with the Origin looked up once the request line is read *)
ProcessRequest(c) ==
  \E a \in Answers(request[c], sent[c], stores) :
    WriteResponse(c, a, request[c].lineOk /\ OriginAllowed(request[c].origin))

(* handleReadyRead *)
ReadyRead(c) ==
  LET r == request[c]
      buffered == IF c \in DOMAIN pendingRequests THEN pendingRequests[c] ELSE 0
  IN  /\ conn[c] = "open"
      /\ buffered < sent[c]
      /\ \/ /\ RefusedEarly(r, sent[c])
            /\ WriteResponse(c, BadRequest, FALSE)
            /\ Forget(c)
         \/ /\ ~RefusedEarly(r, sent[c]) /\ ~Complete(r, sent[c])
            /\ Keep(c, sent[c])
            /\ UNCHANGED <<conn, answerVars>>
         \/ /\ ~RefusedEarly(r, sent[c]) /\ Complete(r, sent[c])
            /\ Forget(c)
            /\ ProcessRequest(c)
      /\ UNCHANGED <<request, sent, stores, changes>>

(* The disconnected signal: the answer was sent, or the client went away. *)
DisconnectedKeepingRequest(c) ==
  /\ conn[c] \in {"open", "closing"}
  /\ conn' = [conn EXCEPT ![c] = "closed"]
  /\ UNCHANGED <<pendingRequests, request, sent, answerVars, stores, changes>>
Disconnected(c) ==
  /\ conn[c] \in {"open", "closing"}
  /\ conn' = [conn EXCEPT ![c] = "closed"]
  /\ Forget(c)
  /\ UNCHANGED <<request, sent, answerVars, stores, changes>>

Next ==
  \/ StoresChange
  \/ \E c \in Connections : Connect(c) \/ Send(c) \/ ReadyRead(c) \/ Disconnected(c)

Spec == Init /\ [][Next]_vars

-----------------------------------------------------------------------------
(* Properties *)

(* Nothing is buffered for a socket that was answered or is gone: clients  *)
(* that come and go leave nothing behind in m_pendingRequests.             *)
NothingLeftBehind == \A c \in DOMAIN pendingRequests : conn[c] = "open"

(* A command that a request may ask for, once all of it is there. *)
AsRequested(r, size, command) ==
  /\ r.method = "POST" /\ size >= TotalSize(r)
  /\ \E e \in ControlEndpoints, segment \in Range(r.path) :
       /\ r.path = e.prefix \o <<segment>> \o e.suffix
       /\ command = <<e.op, Decoded(segment)>>
       /\ Decoded(segment) \notin SlashNames \cup {""}
       /\ e.op \in VolumeOps \cup MuteOps <=> r.length > 0

(* A controller is only asked to do what a client asked for: a POST that   *)
(* arrived in full, to the documented path of the operation, naming the    *)
(* device or window as one segment, with the body that the operation       *)
(* needs.  And a client learns "200" for a command exactly when its        *)
(* controller accepted it.                                                 *)
CommandsAsRequested ==
  \A c \in Connections :
    LET r == request[c]
        a == answer[c]
    IN  /\ a.command # NoCommand => AsRequested(r, sent[c], a.command)
        /\ a.result = "accepted" => a.status = 200
        /\ (r.method = "POST" /\ a.status = 200) => a.result = "accepted"

(* The statuses that the OpenAPI document lists for an operation. *)
DocumentedStatuses(path) ==
  LET route == RouteOf(path)
  IN  CASE route.kind = "snapshot" ->
             {200, 405, 503} \cup IF route.op \in {"defaultSink", "defaultSource"}
                                  THEN {404} ELSE {}
        [] route.kind = "control" ->
             {200, 400, 404, 405, 409, 503} \cup IF route.op \in VolumeOps \cup MuteOps
                                                 THEN {415} ELSE {}
        [] route.kind = "icon" -> {200, 404, 405}

WellFormed(r) ==
  /\ r.lineOk /\ r.headersOk /\ r.lengthHeader # "bad"
  /\ SentSize(r) <= MaxSize

(* A well-formed request to an operation of the OpenAPI document, snapshot, *)
(* control or icon, gets a status that the document lists for it.  Only    *)
(* icons whose name is not one segment are left out: a GET of one gets a   *)
(* 400 that the document does not list.                                    *)
ToDocumentedOperation(r) ==
  LET route == RouteOf(r.path)
  IN  \/ route.kind \in {"snapshot", "control"}
      \/ route.kind = "icon" /\ route.valid
StatusesDocumented ==
  \A c \in Connections :
    LET r == request[c]
    IN  /\ answer[c] # Unanswered
        /\ WellFormed(r) /\ r.method # "OPTIONS"
        /\ ToDocumentedOperation(r)
        => answer[c].status \in DocumentedStatuses(r.path)

(* A usable request is never refused as a bad one, in whatever pieces it   *)
(* arrives: for a command the status is the controller's.                  *)
Usable(r) ==
  /\ WellFormed(r)
  /\ LET route == RouteOf(r.path)
     IN  \/ route.kind = "snapshot" /\ r.method = "GET"
         \/ /\ route.kind = "control" /\ route.valid /\ r.method = "POST"
            /\ IF route.op \in VolumeOps \cup MuteOps
               THEN r.json /\ r.body = "objectWithField"
               ELSE NoBody(r)
RefusedAsBad(a) == a.status \in {400, 405, 415} /\ a.result # "invalid_value"
UsableRequestsServed ==
  \A c \in Connections : RefusedAsBad(answer[c]) => ~Usable(request[c])

(* A client is only kept waiting for what it has not sent: whatever the    *)
(* pieces, no request that is complete, malformed or too large stays in    *)
(* its buffer, where no further readyRead might come to look at it.        *)
WaitsOnlyForMissing ==
  \A c \in DOMAIN pendingRequests :
    /\ pendingRequests[c] < TotalSize(request[c])
    /\ pendingRequests[c] >= request[c].header =>
         /\ request[c].headersOk /\ request[c].lengthHeader # "bad"
         /\ TotalSize(request[c]) <= MaxSize

(* A client is answered once, so that no command is carried out twice,     *)
(* also when it sends more than one request.                               *)
AnsweredOnce ==
  [][\A c \in Connections : answer[c] # Unanswered => answer'[c] = answer[c]]_vars

(* Every answer to an allowed origin lets the browser read it, as          *)
(* documented for "backend responses".                                     *)
AllowedOriginsGetCors ==
  \A c \in Connections :
    OriginAllowed(request[c].origin) /\ answer[c] # Unanswered => cors[c]
=============================================================================
