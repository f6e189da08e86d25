-------------------------- MODULE MCSnapshotHttp --------------------------
(* Model-checking instances of SnapshotHttp. *)
EXTENDS SnapshotHttp

MCEscapes == ("w%31" :> "w1") @@ ("a%2Fb" :> "a/b")
MCSlashNames == {"a/b"}
MCIcons == {"kate"}
MCResources == {<<"docs", "assets", "style.css">>}

Origin(scheme, host, port) ==
  [isOrigin |-> TRUE, scheme |-> scheme, host |-> host, port |-> port]
Dashboard == Origin("http", "lan", NoPort)
MCAllowedOrigins == {Origin("http", "lan", 80)}

Request(method, path, lengthHeader, length, json, body) ==
  [method |-> method, path |-> path, lengthHeader |-> lengthHeader, length |-> length,
   json |-> json, body |-> body, header |-> 1, extra |-> 0,
   lineOk |-> TRUE, headersOk |-> TRUE, origin |-> Dashboard]

(* Every path of the interface, with names that are good, escaped, empty,  *)
(* missing or made of several segments.                                    *)
Names == {<<"w1">>, <<"w%31">>, <<"a%2Fb">>, <<"a", "w1">>, <<"">>, <<>>}
Paths ==
  { e.prefix \o <<"w1">> \o e.suffix : e \in ControlEndpoints }
    \cup { e.prefix \o n \o e.suffix : n \in Names,
             e \in {x \in ControlEndpoints :
                      x.op \in {"setVolume", "incrementVolume", "setSourceMuted", "activateWindow"}} }
    \cup DOMAIN Snapshots
    \cup { <<"icons", "apps">> \o n : n \in Names \cup {<<"kate">>, <<"gimp">>} }
    \cup { <<"docs">>, <<"docs", "">>, <<"docs", "openapi.yaml">>,
           <<"docs", "assets", "style.css">>, <<"docs", "assets", "gone.js">>, <<"other">> }

Bodies == {"notJson", "notObject", "object", "objectWithField"}
AllRequests == UNION {
  { Request(m, p, "absent", 0, j, "none") :
      m \in {"GET", "POST", "OPTIONS", "PUT"}, p \in Paths, j \in BOOLEAN },
  { Request(m, p, "given", 0, TRUE, "none") : m \in {"GET", "POST"}, p \in Paths },
  { Request(m, p, "given", 1, j, b) :
             m \in {"GET", "POST"}, p \in Paths, j \in BOOLEAN, b \in Bodies } }

(* Requests of all sizes, complete, too large, malformed or followed by    *)
(* more data.                                                              *)
Volume == Request("POST", Sinks \o <<"w1", "volume">>, "given", 1, TRUE, "objectWithField")
Activate == Request("POST", Windows \o <<"w1", "active">>, "absent", 0, FALSE, "none")
Read == Request("GET", <<"snapshot", "windows">>, "absent", 0, FALSE, "none")
PieceRequests ==
  { [Volume EXCEPT !.header = h, !.length = n, !.extra = x] : h \in 1 .. 2, n \in 1 .. 2, x \in 0 .. 1 }
    \cup { [Activate EXCEPT !.header = h, !.extra = x] : h \in {1, 3, 5}, x \in 0 .. 1 }
    \cup { [Volume EXCEPT !.headersOk = FALSE], [Volume EXCEPT !.lineOk = FALSE],
           [Volume EXCEPT !.lengthHeader = "bad"], [Read EXCEPT !.header = 2] }
OriginRequests ==
  PieceRequests \cup
  { [Read EXCEPT !.origin = o] :
      o \in { Origin("http", "localhost", 5173), Origin("https", "lan", NoPort),
              Origin("http", "lan", 5173), [Dashboard EXCEPT !.isOrigin = FALSE] } }

CONSTANTS c1, c2
OneConnection == {c1}
TwoConnections == {c1, c2}

(* Either two clients send pieces, or one sends any request while another  *)
(* reads.                                                                  *)
EveryRequest == AllRequests \cup PieceRequests
PiecesOrAny ==
  [TwoConnections -> PieceRequests]
    \cup { [c \in TwoConnections |-> IF c = c1 THEN r ELSE Read] : r \in AllRequests }
OneOrigin == [OneConnection -> OriginRequests]
=============================================================================
