--------------------------- MODULE HttpDispatch ---------------------------
(***************************************************************************)
(* What SnapshotHttpServer::processRequest answers to a complete request:  *)
(* the routing of its path, the early returns in their order, and the call *)
(* of a controller (snapshot_http_server.cpp, audio_control_http_helpers,  *)
(* window_control_http_helpers).                                           *)
(*                                                                         *)
(* A path is the sequence of its segments, without the query, so that      *)
(* "/docs/" is <<"docs", "">>.  Bodies are told apart by what the checks   *)
(* tell apart: absent, not JSON, not an object, an object with or without  *)
(* the field that the operation needs, of its type.                        *)
(***************************************************************************)
EXTENDS Integers, Sequences, SequencesExt, FiniteSets

CONSTANTS
  Escapes,    (* segments with percent escapes, and the name each stands for *)
  SlashNames, (* names that contain a slash                                  *)
  AllowedOrigins, (* the origins configured with --allow-origin              *)
  Icons,      (* names of the icons installed in the theme                   *)
  Resources   (* paths of the documentation pages built into the binary      *)

(* An escape stands for at least one character. *)
ASSUME EscapesAssumption == \A segment \in DOMAIN Escapes : Escapes[segment] # ""

Decoded(segment) == IF segment \in DOMAIN Escapes THEN Escapes[segment] ELSE segment

-----------------------------------------------------------------------------
(* Routing *)

Endpoint(prefix, suffix, op) == [prefix |-> prefix, suffix |-> suffix, op |-> op]

Sinks == <<"control", "audio", "sinks">>
Sources == <<"control", "audio", "sources">>
Windows == <<"control", "windows">>

SinkEndpoints ==
  { Endpoint(Sinks, <<"volume", "increment">>, "incrementVolume"),
    Endpoint(Sinks, <<"volume", "decrement">>, "decrementVolume"),
    Endpoint(Sinks, <<"volume">>, "setVolume"),
    Endpoint(Sinks, <<"default">>, "setDefaultSink"),
    Endpoint(Sinks, <<"mute">>, "setSinkMuted") }
SourceEndpoints ==
  { Endpoint(Sources, <<"default">>, "setDefaultSource"),
    Endpoint(Sources, <<"mute">>, "setSourceMuted") }
WindowEndpoints == { Endpoint(Windows, <<"active">>, "activateWindow") }
ControlEndpoints == SinkEndpoints \cup SourceEndpoints \cup WindowEndpoints

VolumeOps == {"incrementVolume", "decrementVolume", "setVolume"}
DefaultOps == {"setDefaultSink", "setDefaultSource"}
MuteOps == {"setSinkMuted", "setSourceMuted"}
ControlOps == VolumeOps \cup DefaultOps \cup MuteOps \cup {"activateWindow"}

Snapshots ==
  ( <<"snapshot", "audio", "sinks">>          :> "sinks" ) @@
  ( <<"snapshot", "audio", "default-sink">>   :> "defaultSink" ) @@
  ( <<"snapshot", "audio", "sources">>        :> "sources" ) @@
  ( <<"snapshot", "audio", "default-source">> :> "defaultSource" ) @@
  ( <<"snapshot", "windows">>                 :> "windows" ) @@
  ( <<"snapshot", "windows", "active">>       :> "activeWindow" )

Under(path, prefix) == IsStrictPrefix(prefix, path)
Rest(path, prefix) == SubSeq(path, Len(prefix) + 1, Len(path))

(* What stands between prefix and suffix, and whether it names a device or *)
(* a window: one segment, not empty, and without a slash once decoded.     *)
Between(path, e) == SubSeq(path, Len(e.prefix) + 1, Len(path) - Len(e.suffix))
Matches(path, e) ==
  /\ Under(path, e.prefix)
  /\ IsSuffix(e.suffix, Rest(path, e.prefix))
  /\ Between(path, e) \notin {<<>>, <<"">>}
IsAnyName(segments) == segments # <<>> /\ segments[1] # ""
IsName(segments) ==
  /\ Len(segments) = 1
  /\ segments[1] # ""
  /\ Decoded(segments[1]) \notin SlashNames

IsDocs(path) ==
  \/ path \in {<<"docs", "">>, <<"docs", "http">>, <<"docs", "ws">>}
  \/ path \in {<<"docs", "openapi.yaml">>, <<"docs", "asyncapi.yaml">>}
  \/ Under(path, <<"docs", "assets">>)

Route(kind, op, segments) ==
  [kind |-> kind, op |-> op, valid |-> IsName(segments),
   id |-> IF segments # <<>> THEN Decoded(segments[1]) ELSE ""]

ControlRoute(path) ==
  LET e == CHOOSE e \in ControlEndpoints : Matches(path, e)
  IN  Route("control", e.op, Between(path, e))
IsControl(path) == \E e \in ControlEndpoints : Matches(path, e)

(* The path is compared in the order of the code. *)
RouteOf(path) ==
  IF Under(path, <<"icons", "apps">>)
  THEN Route("icon", "", Rest(path, <<"icons", "apps">>))
  ELSE IF path = <<"docs">> THEN Route("redirect", "", <<>>)
  ELSE IF IsDocs(path) THEN Route("docs", "", <<>>)
  ELSE IF IsControl(path) THEN ControlRoute(path)
  ELSE IF path \in DOMAIN Snapshots THEN Route("snapshot", Snapshots[path], <<>>)
  ELSE Route("unknown", "", <<>>)

-----------------------------------------------------------------------------
(* CORS: an origin is a scheme, a host and a port, whose absence stands    *)
(* for the port of the scheme; isOrigin is false of anything else that the *)
(* Origin header holds, or of its absence.                                 *)

NoPort == 0
DefaultPort == ( "http" :> 80 ) @@ ( "https" :> 443 )
Loopbacks == {"127.0.0.1", "localhost", "::1"}

ParsedOrigin(o) ==
  [scheme |-> o.scheme, host |-> o.host,
   port |-> IF o.port = NoPort THEN DefaultPort[o.scheme] ELSE o.port]

OriginAllowed(o) ==
  /\ o.isOrigin
  /\ o.scheme \in DOMAIN DefaultPort
  /\ o.host \in Loopbacks \/ ParsedOrigin(o) \in {ParsedOrigin(a) : a \in AllowedOrigins}

-----------------------------------------------------------------------------
(* The early returns of a request, in the order of the code: the statuses  *)
(* of those whose condition holds.  The first is the one that is taken.    *)

Return(condition, status) == IF condition THEN <<status>> ELSE <<>>

NoReturn == 0
FirstReturn(returns) == IF returns = <<>> THEN NoReturn ELSE Head(returns)

NoBody(r) == r.length = 0

RequestReturns(r, size) ==
  Return(~r.lineOk, 400)
    \o Return(size < r.header + r.length, 400)
    \o Return(r.method = "OPTIONS", 204)

MethodReturns(r, allowed) == Return(r.method # allowed, 405)

(* requireJsonObjectBody, and the field of the operation *)
JsonBodyReturns(r) ==
  Return(r.lengthHeader = "absent", 400)
    \o Return(~r.json, 415)
    \o Return(NoBody(r) \/ r.body # "objectWithField", 400)

NoBodyReturnsByType(r) == Return(~NoBody(r) /\ ~r.json, 415) \o Return(~NoBody(r), 400)
NoBodyReturns(r) == Return(~NoBody(r), 400)

ActivateReturns(r, route, stores) ==
  NoBodyReturns(r)
    \o Return(~stores.windowsReady, 503)
    \o Return(route.id \notin stores.windows, 404)

(* The answers for a controller that is null are left out: main gives the  *)
(* server all of them.                                                     *)
ControlReturns(r, route, stores) ==
  Return(~route.valid, 400)
  \o MethodReturns(r, "POST")
  \o CASE route.op \in VolumeOps \cup MuteOps -> JsonBodyReturns(r)
       [] route.op \in DefaultOps -> NoBodyReturns(r)
       [] route.op = "activateWindow" -> ActivateReturns(r, route, stores)

SnapshotReturns(route, stores) ==
  Return(route.op \in {"windows", "activeWindow"} /\ ~stores.windowsReady, 503)
    \o Return(route.op \notin {"windows", "activeWindow"} /\ ~stores.audioReady, 503)
    \o Return(route.op \in {"defaultSink", "defaultSource"} \ stores.defaults, 404)

IconReturns(route) ==
  Return(~route.valid, 400) \o Return(route.id \notin Icons, 404)

DocsReturns(path) ==
  Return(path \notin Resources /\ Under(path, <<"docs", "assets">>), 404)

RouteReturns(r, route, stores) ==
  CASE route.kind = "icon"     -> MethodReturns(r, "GET") \o IconReturns(route)
    [] route.kind = "redirect" -> <<301>>
    [] route.kind = "docs"     -> MethodReturns(r, "GET") \o DocsReturns(r.path)
    [] route.kind = "control"  -> ControlReturns(r, route, stores)
    [] route.kind = "unknown"  -> <<404>>
    [] route.kind = "snapshot" -> MethodReturns(r, "GET") \o SnapshotReturns(route, stores)

-----------------------------------------------------------------------------
(* Controllers are called last.  What they answer is theirs to decide.     *)

ResultsOf(op) ==
  {"accepted", "not_ready", "not_found", "not_writable"}
    \cup IF op \in VolumeOps THEN {"invalid_value"} ELSE {}

StatusOf(result) ==
  CASE result = "accepted"      -> 200
    [] result = "invalid_value" -> 400
    [] result = "not_found"     -> 404
    [] result = "not_writable"  -> 409
    [] result = "not_ready"     -> 503

NoCommand == <<>>

Answer(status, command, result) ==
  [status |-> status, command |-> command, result |-> result]

(* The answers processRequest may give once size of the request is there,  *)
(* each with the command it passed to a controller and what the controller *)
(* made of it.                                                             *)
Answers(r, size, stores) ==
  LET route == RouteOf(r.path)
      status == FirstReturn(RequestReturns(r, size) \o RouteReturns(r, route, stores))
  IN  IF status # NoReturn THEN {Answer(status, NoCommand, "none")}
      ELSE IF route.kind # "control" THEN {Answer(200, NoCommand, "none")}
      ELSE { Answer(StatusOf(result), <<route.op, route.id>>, result) :
               result \in ResultsOf(route.op) }
=============================================================================
