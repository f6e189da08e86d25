------------------------ MODULE SnapshotHttpProofs ------------------------
(***************************************************************************)
(* Proofs about SnapshotHttp, for any number of clients, any requests in   *)
(* any pieces, any limit, any escapes, names, icons and pages, and stores  *)
(* that change between any two handlers.                                   *)
(***************************************************************************)
EXTENDS SnapshotHttp, SequenceTheorems, TLAPS

-----------------------------------------------------------------------------
(* Early returns: the statuses they may answer, whatever the request *)

Returns == Seq(Statuses)

LEMMA OneReturn ==
  /\ <<>> \in Returns /\ Range(<<>>) = {}
  /\ \A status \in Statuses : <<status>> \in Returns /\ Range(<<status>>) = {status}
<1>1. <<>> \in Seq(Statuses) /\ Range(<<>>) = {}
  BY EmptySeq DEF Range
<1>2. ASSUME NEW status \in Statuses
      PROVE  <<status>> \in Seq(Statuses) /\ Range(<<status>>) = {status}
  BY DEF Range
<1> QED
  BY <1>1, <1>2 DEF Returns

LEMMA ConcatTaken ==
  ASSUME NEW s \in Returns, NEW t \in Returns
  PROVE  /\ s \o t \in Returns
         /\ \A x : x \in Range(s \o t) <=> x \in Range(s) \/ x \in Range(t)
  BY ConcatProperties, RangeConcatenation DEF Returns

LEMMA FirstReturnTaken ==
  ASSUME NEW s \in Returns
  PROVE  \/ FirstReturn(s) = NoReturn /\ Range(s) = {}
         \/ FirstReturn(s) \in Range(s) /\ FirstReturn(s) # NoReturn
<1>1. CASE s = <<>>
  BY <1>1 DEF FirstReturn, Range
<1>2. CASE s # <<>>
  <2>1. Head(s) = s[1] /\ 1 \in DOMAIN s /\ s[1] \in Statuses
    BY <1>2 DEF Returns
  <2> QED
    BY <1>2, <2>1 DEF FirstReturn, Range, Statuses, NoReturn
<1> QED
  BY <1>1, <1>2

LEMMA MethodTaken ==
  ASSUME NEW r, NEW allowed
  PROVE  /\ MethodReturns(r, allowed) \in Returns
         /\ \A x : x \in Range(MethodReturns(r, allowed)) <=> r.method # allowed /\ x = 405
  BY OneReturn DEF MethodReturns, Return, Statuses

LEMMA ThreeReturns ==
  ASSUME NEW s \in Returns, NEW t \in Returns, NEW u \in Returns
  PROVE  /\ s \o t \o u \in Returns
         /\ \A x : x \in Range(s \o t \o u) <=> x \in Range(s) \/ x \in Range(t) \/ x \in Range(u)
<1>1. s \o t \in Returns /\ (\A x : x \in Range(s \o t) <=> x \in Range(s) \/ x \in Range(t))
  BY ConcatTaken
<1>2. /\ (s \o t) \o u \in Returns
      /\ \A x : x \in Range((s \o t) \o u) <=> x \in Range(s \o t) \/ x \in Range(u)
  BY <1>1, ConcatTaken
<1> QED
  BY <1>1, <1>2

LEMMA RequestTaken ==
  ASSUME NEW r, NEW size
  PROVE  /\ RequestReturns(r, size) \in Returns
         /\ \A x : x \in Range(RequestReturns(r, size)) <=>
                     \/ ~r.lineOk /\ x = 400
                     \/ size < r.header + r.length /\ x = 400
                     \/ r.method = "OPTIONS" /\ x = 204
<1> DEFINE a == Return(~r.lineOk, 400)
           b == Return(size < r.header + r.length, 400)
           c == Return(r.method = "OPTIONS", 204)
<1>1. a \in Returns /\ (\A x : x \in Range(a) <=> ~r.lineOk /\ x = 400)
  BY OneReturn DEF Return, Statuses
<1>2. b \in Returns /\ (\A x : x \in Range(b) <=> size < r.header + r.length /\ x = 400)
  BY OneReturn DEF Return, Statuses
<1>3. c \in Returns /\ (\A x : x \in Range(c) <=> r.method = "OPTIONS" /\ x = 204)
  BY OneReturn DEF Return, Statuses
<1>4. RequestReturns(r, size) = a \o b \o c
  BY DEF RequestReturns
<1> HIDE DEF a, b, c
<1> QED
  BY <1>1, <1>2, <1>3, <1>4, ThreeReturns

LEMMA JsonBodyTaken ==
  ASSUME NEW r
  PROVE  /\ JsonBodyReturns(r) \in Returns
         /\ \A x : x \in Range(JsonBodyReturns(r)) <=>
                     \/ r.lengthHeader = "absent" /\ x = 400
                     \/ ~r.json /\ x = 415
                     \/ NoBody(r) /\ x = 400
                     \/ r.body # "objectWithField" /\ x = 400
<1> DEFINE a == Return(r.lengthHeader = "absent", 400)
           b == Return(~r.json, 415)
           c == Return(NoBody(r) \/ r.body # "objectWithField", 400)
<1>1. a \in Returns /\ (\A x : x \in Range(a) <=> r.lengthHeader = "absent" /\ x = 400)
  BY OneReturn DEF Return, Statuses
<1>2. b \in Returns /\ (\A x : x \in Range(b) <=> ~r.json /\ x = 415)
  BY OneReturn DEF Return, Statuses
<1>3. /\ c \in Returns
      /\ \A x : x \in Range(c) <=>
            \/ NoBody(r) /\ x = 400
            \/ r.body # "objectWithField" /\ x = 400
  BY OneReturn DEF Return, Statuses, NoBody
<1>4. JsonBodyReturns(r) = a \o b \o c
  BY DEF JsonBodyReturns
<1> HIDE DEF a, b, c
<1> QED
  BY <1>1, <1>2, <1>3, <1>4, ThreeReturns DEF NoBody

LEMMA NoBodyTaken ==
  ASSUME NEW r
  PROVE  /\ NoBodyReturns(r) \in Returns
         /\ \A x : x \in Range(NoBodyReturns(r)) <=> ~NoBody(r) /\ x = 400
  BY OneReturn DEF NoBodyReturns, Return, Statuses

LEMMA ActivateTaken ==
  ASSUME NEW r, NEW route, NEW st
  PROVE  /\ ActivateReturns(r, route, st) \in Returns
         /\ \A x \in Range(ActivateReturns(r, route, st)) :
              x \in {503, 404} \/ (~NoBody(r) /\ x = 400)
         /\ ~NoBody(r) => 400 \in Range(ActivateReturns(r, route, st))
<1> DEFINE b == Return(~st.windowsReady, 503)
           c == Return(route.id \notin st.windows, 404)
<1>1. b \in Returns /\ (\A x \in Range(b) : x = 503)
  BY OneReturn DEF Return, Statuses
<1>2. c \in Returns /\ (\A x \in Range(c) : x = 404)
  BY OneReturn DEF Return, Statuses
<1>3. ActivateReturns(r, route, st) = NoBodyReturns(r) \o b \o c
  BY DEF ActivateReturns
<1> DEFINE a == NoBodyReturns(r)
<1>4. a \in Returns /\ (\A x : x \in Range(a) <=> ~NoBody(r) /\ x = 400)
  BY NoBodyTaken
<1> HIDE DEF a, b, c
<1>5. /\ a \o b \o c \in Returns
      /\ \A x : x \in Range(a \o b \o c) <=> x \in Range(a) \/ x \in Range(b) \/ x \in Range(c)
  BY <1>1, <1>2, <1>4, ThreeReturns
<1>6. ActivateReturns(r, route, st) = a \o b \o c
  BY <1>3 DEF a
<1> DEFINE returns == a \o b \o c
<1> HIDE DEF returns
<1>7. /\ returns \in Returns
      /\ \A x \in Range(returns) : x \in {503, 404} \/ (~NoBody(r) /\ x = 400)
      /\ ~NoBody(r) => 400 \in Range(returns)
  BY <1>1, <1>2, <1>4, <1>5 DEF returns
<1> QED
  BY <1>6, <1>7 DEF returns

(* The body checks of a control request *)
BodyReturns(r, route, st) ==
  CASE route.op \in VolumeOps \cup MuteOps -> JsonBodyReturns(r)
    [] route.op \in DefaultOps -> NoBodyReturns(r)
    [] route.op = "activateWindow" -> ActivateReturns(r, route, st)
TakesBody(route) == route.op \in VolumeOps \cup MuteOps
BodyFits(r, route) ==
  IF TakesBody(route) THEN r.lengthHeader # "absent" /\ r.json /\ ~NoBody(r) /\ r.body = "objectWithField"
  ELSE NoBody(r)

LEMMA BodyTaken ==
  ASSUME NEW r, NEW route, route.op \in ControlOps, NEW st
  PROVE  /\ BodyReturns(r, route, st) \in Returns
         /\ \A x \in Range(BodyReturns(r, route, st)) :
              \/ x \in {503, 404}
              \/ ~BodyFits(r, route) /\ x = 400
              \/ ~BodyFits(r, route) /\ TakesBody(route) /\ x = 415
         /\ Range(BodyReturns(r, route, st)) = {} => BodyFits(r, route)
<1>1. CASE TakesBody(route)
  <2>1. BodyReturns(r, route, st) = JsonBodyReturns(r)
    BY <1>1 DEF BodyReturns, TakesBody, VolumeOps, MuteOps, DefaultOps
  <2> QED
    BY <1>1, <2>1, JsonBodyTaken DEF BodyFits, NoBody
<1>2. CASE route.op \in DefaultOps
  <2>1. BodyReturns(r, route, st) = NoBodyReturns(r) /\ ~TakesBody(route)
    BY <1>2 DEF BodyReturns, TakesBody, VolumeOps, MuteOps, DefaultOps
  <2> QED
    BY <2>1, NoBodyTaken DEF BodyFits
<1>3. CASE route.op = "activateWindow"
  <2>1. BodyReturns(r, route, st) = ActivateReturns(r, route, st) /\ ~TakesBody(route)
    BY <1>3 DEF BodyReturns, TakesBody, VolumeOps, MuteOps, DefaultOps
  <2> QED
    BY <2>1, ActivateTaken DEF BodyFits
<1> QED
  BY <1>1, <1>2, <1>3 DEF ControlOps, TakesBody

LEMMA ControlTaken ==
  ASSUME NEW r, NEW route, route.op \in ControlOps, NEW st
  PROVE  /\ ControlReturns(r, route, st) \in Returns
         /\ \A x \in Range(ControlReturns(r, route, st)) :
              \/ x \in {503, 404}
              \/ ~route.valid /\ x = 400
              \/ r.method # "POST" /\ x = 405
              \/ ~BodyFits(r, route) /\ x = 400
              \/ ~BodyFits(r, route) /\ TakesBody(route) /\ x = 415
         /\ Range(ControlReturns(r, route, st)) = {} =>
              route.valid /\ r.method = "POST" /\ BodyFits(r, route)
<1> DEFINE a == Return(~route.valid, 400)
<1>1. a \in Returns /\ (\A x : x \in Range(a) <=> ~route.valid /\ x = 400)
  BY OneReturn DEF Return, Statuses
<1>2. ControlReturns(r, route, st) = a \o MethodReturns(r, "POST") \o BodyReturns(r, route, st)
  BY DEF ControlReturns, BodyReturns
<1> HIDE DEF a
<1>6. MethodReturns(r, "POST") \in Returns /\ BodyReturns(r, route, st) \in Returns
  <2>1. MethodReturns(r, "POST") \in Returns
    BY MethodTaken
  <2>2. BodyReturns(r, route, st) \in Returns
    BY BodyTaken
  <2> QED BY <2>1, <2>2
<1>3. /\ ControlReturns(r, route, st) \in Returns
      /\ \A x : x \in Range(ControlReturns(r, route, st)) <=>
           \/ x \in Range(a)
           \/ x \in Range(MethodReturns(r, "POST"))
           \/ x \in Range(BodyReturns(r, route, st))
  BY <1>1, <1>2, <1>6, ThreeReturns
<1>4. CASE Range(ControlReturns(r, route, st)) = {}
  <2>1. Range(a) = {} /\ Range(MethodReturns(r, "POST")) = {} /\ Range(BodyReturns(r, route, st)) = {}
    BY <1>3, <1>4
  <2>2. route.valid
    BY <1>1, <2>1
  <2>3. r.method = "POST"
    BY <2>1, MethodTaken
  <2>4. BodyFits(r, route)
    BY <2>1, BodyTaken
  <2> QED
    BY <1>3, <1>4, <2>2, <2>3, <2>4
<1>5. ASSUME NEW x \in Range(ControlReturns(r, route, st))
      PROVE  \/ x \in {503, 404}
             \/ ~route.valid /\ x = 400
             \/ r.method # "POST" /\ x = 405
             \/ ~BodyFits(r, route) /\ x = 400
             \/ ~BodyFits(r, route) /\ TakesBody(route) /\ x = 415
  <2>1. CASE x \in Range(a)
    BY <1>1, <2>1
  <2>2. CASE x \in Range(MethodReturns(r, "POST"))
    BY <2>2, MethodTaken
  <2>3. CASE x \in Range(BodyReturns(r, route, st))
    BY <2>3, BodyTaken
  <2> QED
    BY <1>3, <2>1, <2>2, <2>3
<1> QED
  BY <1>3, <1>4, <1>5

LEMMA SnapshotTaken ==
  ASSUME NEW r, NEW route, NEW st
  PROVE  /\ MethodReturns(r, "GET") \o SnapshotReturns(route, st) \in Returns
         /\ \A x \in Range(MethodReturns(r, "GET") \o SnapshotReturns(route, st)) :
              \/ r.method # "GET" /\ x = 405
              \/ x = 503
              \/ route.op \in {"defaultSink", "defaultSource"} /\ x = 404
         /\ Range(MethodReturns(r, "GET") \o SnapshotReturns(route, st)) = {} => r.method = "GET"
<1> DEFINE a == Return(route.op \in {"windows", "activeWindow"} /\ ~st.windowsReady, 503)
           b == Return(route.op \notin {"windows", "activeWindow"} /\ ~st.audioReady, 503)
           c == Return(route.op \in {"defaultSink", "defaultSource"} \ st.defaults, 404)
<1>1. a \in Returns /\ (\A x \in Range(a) : x = 503)
  BY OneReturn DEF Return, Statuses
<1>2. b \in Returns /\ (\A x \in Range(b) : x = 503)
  BY OneReturn DEF Return, Statuses
<1>3. c \in Returns /\ (\A x \in Range(c) : route.op \in {"defaultSink", "defaultSource"} /\ x = 404)
  BY OneReturn DEF Return, Statuses
<1>4. SnapshotReturns(route, st) = a \o b \o c
  BY DEF SnapshotReturns
<1> HIDE DEF a, b, c
<1>5. /\ SnapshotReturns(route, st) \in Returns
      /\ \A x \in Range(SnapshotReturns(route, st)) :
           x = 503 \/ (route.op \in {"defaultSink", "defaultSource"} /\ x = 404)
  BY <1>1, <1>2, <1>3, <1>4, ThreeReturns
<1> QED
  BY <1>5, MethodTaken, ConcatTaken

LEMMA IconTaken ==
  ASSUME NEW r, NEW route
  PROVE  /\ MethodReturns(r, "GET") \o IconReturns(route) \in Returns
         /\ \A x \in Range(MethodReturns(r, "GET") \o IconReturns(route)) :
              \/ r.method # "GET" /\ x = 405
              \/ ~route.valid /\ x = 400
              \/ x = 404
         /\ Range(MethodReturns(r, "GET") \o IconReturns(route)) = {} => r.method = "GET"
<1> DEFINE a == Return(~route.valid, 400)
           b == Return(route.id \notin Icons, 404)
<1>1. /\ a \in Returns /\ b \in Returns
      /\ \A x \in Range(a) : ~route.valid /\ x = 400
      /\ \A x \in Range(b) : x = 404
  BY OneReturn DEF Return, Statuses
<1>2. IconReturns(route) = a \o b
  BY DEF IconReturns
<1> HIDE DEF a, b
<1>3. /\ IconReturns(route) \in Returns
      /\ \A x \in Range(IconReturns(route)) : (~route.valid /\ x = 400) \/ x = 404
  BY <1>1, <1>2, ConcatTaken
<1> QED
  BY <1>3, MethodTaken, ConcatTaken

LEMMA DocsTaken ==
  ASSUME NEW r, NEW path
  PROVE  /\ MethodReturns(r, "GET") \o DocsReturns(path) \in Returns
         /\ \A x \in Range(MethodReturns(r, "GET") \o DocsReturns(path)) : x \in {404, 405}
         /\ Range(MethodReturns(r, "GET") \o DocsReturns(path)) = {} => r.method = "GET"
<1>1. DocsReturns(path) \in Returns /\ (\A x \in Range(DocsReturns(path)) : x = 404)
  BY OneReturn DEF DocsReturns, Return, Statuses
<1> QED
  BY <1>1, MethodTaken, ConcatTaken

-----------------------------------------------------------------------------
(* Routes and paths *)

Kinds == {"icon", "redirect", "docs", "control", "snapshot", "unknown"}
IsControlRoute(path, route) ==
  \E e \in ControlEndpoints :
    Matches(path, e) /\ route = Route("control", e.op, Between(path, e))

LEMMA RouteKind ==
  ASSUME NEW kind, NEW op, NEW segments
  PROVE  Route(kind, op, segments).kind = kind
  BY DEF Route
LEMMA RouteOp ==
  ASSUME NEW kind, NEW op, NEW segments
  PROVE  Route(kind, op, segments).op = op
  BY DEF Route
LEMMA RouteId ==
  ASSUME NEW kind, NEW op, NEW segments, segments # <<>>
  PROVE  Route(kind, op, segments).id = Decoded(segments[1])
  BY DEF Route
LEMMA RouteValid ==
  ASSUME NEW kind, NEW op, NEW segments
  PROVE  Route(kind, op, segments).valid <=> IsName(segments)
  BY DEF Route

LEMMA ControlRouteFound ==
  ASSUME NEW path, IsControl(path)
  PROVE  IsControlRoute(path, ControlRoute(path)) /\ ControlRoute(path).kind = "control"
<1> DEFINE chosen == CHOOSE e \in ControlEndpoints : Matches(path, e)
<1>1. chosen \in ControlEndpoints /\ Matches(path, chosen)
  BY DEF IsControl
<1>2. ControlRoute(path) = Route("control", chosen.op, Between(path, chosen))
  BY DEF ControlRoute
<1> HIDE DEF chosen
<1>3. IsControlRoute(path, ControlRoute(path))
  BY <1>1, <1>2 DEF IsControlRoute
<1> QED
  BY <1>2, <1>3, RouteKind, Zenon

LEMMA RouteKinds ==
  ASSUME NEW path
  PROVE  /\ RouteOf(path).kind \in Kinds
         /\ RouteOf(path).kind = "control" => IsControlRoute(path, RouteOf(path))
<1> DEFINE route == RouteOf(path)
<1>1. \/ route = Route("icon", "", Rest(path, <<"icons", "apps">>))
      \/ route = Route("redirect", "", <<>>)
      \/ route = Route("docs", "", <<>>)
      \/ IsControl(path) /\ route = ControlRoute(path)
      \/ route = Route("snapshot", Snapshots[path], <<>>)
      \/ route = Route("unknown", "", <<>>)
  BY DEF RouteOf
<1> HIDE DEF route
<1>2. \/ route.kind \in {"icon", "redirect", "docs", "snapshot", "unknown"}
      \/ IsControl(path) /\ route = ControlRoute(path)
  <2>1. Route("icon", "", Rest(path, <<"icons", "apps">>)).kind = "icon"
    BY RouteKind
  <2>2. Route("redirect", "", <<>>).kind = "redirect"
    BY RouteKind
  <2>3. Route("docs", "", <<>>).kind = "docs"
    BY RouteKind
  <2>4. Route("snapshot", Snapshots[path], <<>>).kind = "snapshot"
    BY RouteKind
  <2>5. Route("unknown", "", <<>>).kind = "unknown"
    BY RouteKind
  <2> QED
    BY <1>1, <2>1, <2>2, <2>3, <2>4, <2>5
<1>3. /\ route.kind \in Kinds
      /\ route.kind = "control" => IsControlRoute(path, route)
  BY <1>2, ControlRouteFound DEF Kinds
<1> QED
  BY <1>3 DEF route

-----------------------------------------------------------------------------
(* Sequences: a prefix, a suffix and what is between them *)

LEMMA PrefixPoints ==
  ASSUME NEW S, NEW s \in Seq(S), NEW t \in Seq(S), IsPrefix(s, t)
  PROVE  Len(s) <= Len(t) /\ \A i \in 1 .. Len(s) : t[i] = s[i]
<1> DEFINE n == Len(s)
<1>1. n \in Nat /\ Len(t) \in Nat /\ n <= Len(t) /\ SubSeq(s, 1, n) = SubSeq(t, 1, n)
  BY DEF IsPrefix
<1>2. \A i \in 1 .. n : SubSeq(s, 1, n)[i] = s[i] /\ SubSeq(t, 1, n)[i] = t[i]
  BY <1>1, SubSeqProperties
<1> QED
  BY <1>1, <1>2

LEMMA ReverseSeq ==
  ASSUME NEW S, NEW s \in Seq(S)
  PROVE  /\ Reverse(s) \in Seq(S) /\ Len(Reverse(s)) = Len(s)
         /\ \A i \in 1 .. Len(s) : Reverse(s)[i] = s[Len(s) - i + 1]
<1>1. \A i \in 1 .. Len(s) : s[Len(s) - i + 1] \in S
  BY ElementOfSeq
<1>2. Reverse(s) \in Seq(S) /\ Len(Reverse(s)) = Len(s)
  BY <1>1, IsASeq DEF Reverse
<1> QED
  BY <1>2 DEF Reverse

LEMMA SuffixPoints ==
  ASSUME NEW S, NEW s \in Seq(S), NEW t \in Seq(S), IsSuffix(s, t)
  PROVE  Len(s) <= Len(t) /\ \A i \in 1 .. Len(s) : t[Len(t) - Len(s) + i] = s[i]
<1> DEFINE m == Len(s)  n == Len(t)
<1>1. m \in Nat /\ n \in Nat
  OBVIOUS
<1>2. m <= n /\ \A i \in 1 .. m : Reverse(t)[i] = Reverse(s)[i]
  BY ReverseSeq, PrefixPoints DEF IsSuffix
<1> HIDE DEF m, n
<1>3. ASSUME NEW i \in 1 .. m PROVE t[n - m + i] = s[i]
  <2>1. m - i + 1 \in 1 .. m /\ m - i + 1 \in 1 .. n /\ n - (m - i + 1) + 1 = n - m + i /\ m - (m - i + 1) + 1 = i
    BY <1>1, <1>2
  <2>2. Reverse(t)[m - i + 1] = Reverse(s)[m - i + 1]
    BY <1>2, <2>1
  <2>3. Reverse(t)[m - i + 1] = t[n - (m - i + 1) + 1] /\ Reverse(s)[m - i + 1] = s[m - (m - i + 1) + 1]
    BY <2>1, ReverseSeq DEF m, n
  <2> QED
    BY <2>1, <2>2, <2>3
<1> QED
  BY <1>2, <1>3 DEF m, n

LEMMA Slice ==
  ASSUME NEW S, NEW path \in Seq(S), NEW m \in Nat \ {0}, NEW n \in Int, n <= Len(path)
  PROVE  /\ SubSeq(path, m, n) \in Seq(S)
         /\ Len(SubSeq(path, m, n)) = IF m <= n THEN n - m + 1 ELSE 0
         /\ \A i \in 1 .. n - m + 1 : SubSeq(path, m, n)[i] = path[m + i - 1]
<1>1. \A i \in m .. n : path[i] \in S
  BY ElementOfSeq
<1> QED
  BY <1>1, SubSeqProperties

Joined(p, m, q) == p \o m \o q

(* The sequence s lies in path, after at elements of it.                   *)
Lies(s, path, at) == \A k \in 1 .. Len(s) : path[at + k] = s[k]

LEMMA ThreeParts ==
  ASSUME NEW S, NEW path \in Seq(S), NEW p \in Seq(S), NEW m \in Seq(S), NEW q \in Seq(S),
         Len(path) = Len(p) + Len(m) + Len(q),
         Lies(p, path, 0), Lies(m, path, Len(p)), Lies(q, path, Len(p) + Len(m))
  PROVE  path = Joined(p, m, q)
<1>0. /\ \A k \in 1 .. Len(p) : path[k] = p[k]
      /\ \A k \in 1 .. Len(m) : path[Len(p) + k] = m[k]
      /\ \A k \in 1 .. Len(q) : path[Len(p) + Len(m) + k] = q[k]
  BY DEF Lies
<1> DEFINE i == Len(p)
           j == Len(m)
           pm == p \o m
           whole == pm \o q
<1>1. i \in Nat /\ j \in Nat /\ Len(q) \in Nat
  OBVIOUS
<1>2. /\ pm \in Seq(S) /\ Len(pm) = i + j
      /\ \A k \in 1 .. i + j : pm[k] = IF k <= i THEN p[k] ELSE m[k - i]
  BY ConcatProperties
<1> HIDE DEF pm
<1>3. /\ whole \in Seq(S) /\ Len(whole) = Len(pm) + Len(q)
      /\ \A k \in 1 .. Len(pm) + Len(q) : whole[k] = IF k <= Len(pm) THEN pm[k] ELSE q[k - Len(pm)]
  BY <1>2, ConcatProperties
<1> HIDE DEF whole
<1>4. ASSUME NEW k \in 1 .. i + j + Len(q) PROVE path[k] = whole[k]
  <2>1. CASE k <= i
    <3>1. whole[k] = pm[k] /\ pm[k] = p[k] /\ path[k] = p[k]
      BY <1>0, <1>1, <1>2, <1>3, <2>1
    <3> QED BY <3>1
  <2>2. CASE i < k /\ k <= i + j
    <3>1. k - i \in 1 .. j /\ i + (k - i) = k
      BY <1>1, <2>2
    <3>2. whole[k] = pm[k] /\ pm[k] = m[k - i]
      BY <1>1, <1>2, <1>3, <2>2
    <3>3. path[i + (k - i)] = m[k - i]
      BY <1>0, <3>1
    <3> QED BY <3>1, <3>2, <3>3
  <2>3. CASE k > i + j
    <3>1. k - (i + j) \in 1 .. Len(q) /\ i + j + (k - (i + j)) = k
      BY <1>1, <2>3
    <3>2. whole[k] = q[k - (i + j)]
      BY <1>1, <1>2, <1>3, <2>3
    <3>3. path[i + j + (k - (i + j))] = q[k - (i + j)]
      BY <1>0, <3>1
    <3> QED BY <3>1, <3>2, <3>3
  <2> QED
    BY <1>1, <2>1, <2>2, <2>3
<1>5. path = whole
  BY <1>2, <1>3, <1>4, SeqEqual
<1> QED
  BY <1>5 DEF whole, pm, Joined

LEMMA MiddleOne ==
  ASSUME NEW S, NEW path \in Seq(S), NEW p \in Seq(S), NEW q \in Seq(S),
         Len(path) = Len(p) + 1 + Len(q),
         \A k \in 1 .. Len(p) : path[k] = p[k],
         \A k \in 1 .. Len(q) : path[Len(p) + 1 + k] = q[k]
  PROVE  path = Joined(p, <<path[Len(p)+1]>>, q)
<1>1. PICK m \in Seq(S) : m = <<path[Len(p)+1]>>
  <2>1. PICK x \in S : x = path[Len(p) + 1]
    BY ElementOfSeq
  <2>2. <<x>> \in Seq(S)
    OBVIOUS
  <2> QED BY <2>1, <2>2
<1>2. Len(path) = Len(p) + Len(m) + Len(q) BY <1>1
<1>3. Lies(p, path, 0) /\ Lies(m, path, Len(p))
  BY <1>1 DEF Lies
<1>4. Lies(q, path, Len(p) + Len(m))
  BY <1>1 DEF Lies
<1>5. path = Joined(p, m, q) BY <1>2, <1>3, <1>4, ThreeParts
<1> QED BY <1>1, <1>5

LEMMA OneBetween ==
  ASSUME NEW S, NEW path \in Seq(S), NEW e, e.prefix \in Seq(S), e.suffix \in Seq(S),
         Matches(path, e), Len(Between(path, e)) = 1
  PROVE  /\ Between(path, e)[1] \in Range(path)
         /\ path = Joined(e.prefix, <<Between(path, e)[1]>>, e.suffix)
<1> DEFINE p == e.prefix
           q == e.suffix
           rest == Rest(path, p)
           between == Between(path, e)
           n == Len(path)
           i == Len(p)
           j == Len(q)
<1>1. n \in Nat /\ i \in Nat /\ j \in Nat /\ p \in Seq(S) /\ q \in Seq(S)
  OBVIOUS
<1>2. IsPrefix(p, path) /\ IsSuffix(q, rest)
  BY DEF Matches, Under, IsStrictPrefix
<1>3. rest = SubSeq(path, i + 1, n) /\ between = SubSeq(path, i + 1, n - j) /\ Len(between) = 1
  BY DEF Rest, Between
<1> HIDE DEF p, q, rest, between
<1>4. i <= n /\ (\A k \in 1 .. i : path[k] = p[k])
  BY <1>1, <1>2, PrefixPoints, ZenonT(60)
<1>5. /\ rest \in Seq(S) /\ Len(rest) = n - i
      /\ \A k \in 1 .. n - i : rest[k] = path[i + 1 + k - 1]
  <2>1. i + 1 \in Nat \ {0} /\ n - (i + 1) + 1 = n - i /\ n \in Int /\ n <= Len(path)
    BY <1>1
  <2>2. n - i = IF i + 1 <= n THEN n - (i + 1) + 1 ELSE 0
    BY <1>1, <1>4
  <2>3. /\ rest \in Seq(S)
        /\ Len(rest) = IF i + 1 <= n THEN n - (i + 1) + 1 ELSE 0
        /\ \A k \in 1 .. n - (i + 1) + 1 : rest[k] = path[i + 1 + k - 1]
    <3>1. /\ SubSeq(path, i + 1, n) \in Seq(S)
          /\ Len(SubSeq(path, i + 1, n)) = IF i + 1 <= n THEN n - (i + 1) + 1 ELSE 0
          /\ \A k \in 1 .. n - (i + 1) + 1 : SubSeq(path, i + 1, n)[k] = path[i + 1 + k - 1]
      <4> HIDE DEF i, n
      <4> QED BY <2>1, Slice
    <3> QED BY <1>3, <3>1
  <2> QED
    BY <2>1, <2>2, <2>3
<1>6. j <= n - i /\ (\A k \in 1 .. j : rest[n - i - j + k] = q[k])
  <2>1. Len(q) <= Len(rest) /\ (\A k \in 1 .. Len(q) : rest[Len(rest) - Len(q) + k] = q[k])
    BY <1>1, <1>2, <1>5, SuffixPoints
  <2> QED BY <1>5, <2>1
<1>7. Len(between) = (IF i + 1 <= n - j THEN n - j - (i + 1) + 1 ELSE 0)
  BY <1>1, <1>3, Slice
<1>8. n = i + 1 + j
  BY <1>1, <1>3, <1>7
<1>9. between[1] = path[i + 1]
  <2>1. i + 1 \in Nat \ {0} /\ n - j \in Int /\ n - j <= Len(path) /\ 1 \in 1 .. n - j - (i + 1) + 1
    BY <1>1, <1>8
  <2>2. between[1] = path[i + 1 + 1 - 1]
    BY <1>3, <2>1, Slice
  <2> QED
    BY <1>1, <2>2
<1>10. i + 1 \in DOMAIN path /\ path[i + 1] \in S
  BY <1>1, <1>8, ElementOfSeq
<1>11. ASSUME NEW k \in 1 .. j PROVE path[i + 1 + k] = q[k]
  <2>1. n - i - j + k = 1 + k /\ 1 + k \in 1 .. n - i /\ i + 1 + (1 + k) - 1 = i + 1 + k
    BY <1>1, <1>8
  <2>2. rest[1 + k] = q[k]
    BY <1>6, <2>1
  <2>3. rest[1 + k] = path[i + 1 + (1 + k) - 1]
    BY <1>5, <2>1
  <2> QED
    BY <2>1, <2>2, <2>3
<1>12. path = Joined(p, <<path[i + 1]>>, q)
  BY <1>1, <1>4, <1>8, <1>11, MiddleOne
<1>13. between[1] \in Range(path)
  BY <1>9, <1>10 DEF Range
<1> QED
  BY <1>9, <1>12, <1>13 DEF between, p, q

-----------------------------------------------------------------------------
(* The endpoints *)

EndpointNames ==
  {"control", "audio", "sinks", "sources", "windows", "volume", "increment", "decrement",
   "default", "mute", "active"}

LEMMA EndpointParts ==
  ASSUME NEW e \in ControlEndpoints
  PROVE  e.prefix \in Seq(EndpointNames) /\ e.suffix \in Seq(EndpointNames) /\ e.op \in ControlOps
<1>1. /\ Sinks \in Seq(EndpointNames)
      /\ Sources \in Seq(EndpointNames)
      /\ Windows \in Seq(EndpointNames)
      /\ <<"volume", "increment">> \in Seq(EndpointNames)
      /\ <<"volume", "decrement">> \in Seq(EndpointNames)
      /\ <<"volume">> \in Seq(EndpointNames)
      /\ <<"default">> \in Seq(EndpointNames)
      /\ <<"mute">> \in Seq(EndpointNames)
      /\ <<"active">> \in Seq(EndpointNames)
  BY DEF Sinks, Sources, Windows, EndpointNames
<1>2. PICK p \in {Sinks, Sources, Windows},
           q \in {<<"volume", "increment">>, <<"volume", "decrement">>, <<"volume">>,
                  <<"default">>, <<"mute">>, <<"active">>},
           op \in ControlOps : e = Endpoint(p, q, op)
  BY DEF ControlEndpoints, SinkEndpoints, SourceEndpoints, WindowEndpoints, ControlOps,
     VolumeOps, DefaultOps, MuteOps
<1> QED
  BY <1>1, <1>2 DEF Endpoint

LEMMA ControlRouteOp ==
  ASSUME NEW path, NEW route, IsControlRoute(path, route)
  PROVE  route.op \in ControlOps
<1>1. PICK e \in ControlEndpoints : route = Route("control", e.op, Between(path, e))
  BY DEF IsControlRoute
<1> QED
  BY <1>1, EndpointParts, RouteOp

(* The name that a command is given is the one segment of the path between *)
(* the prefix and the suffix of its operation.                             *)
Named(path, route) ==
  \E e \in ControlEndpoints, segment \in Range(path) :
    /\ path = e.prefix \o <<segment>> \o e.suffix
    /\ <<route.op, route.id>> = <<e.op, Decoded(segment)>>
    /\ Decoded(segment) \notin SlashNames \cup {""}

LEMMA ValidIsNamed ==
  ASSUME NEW path, path \in Seq(Range(path)), NEW route, IsControlRoute(path, route), route.valid
  PROVE  Named(path, route)
<1>1. PICK e \in ControlEndpoints :
        Matches(path, e) /\ route = Route("control", e.op, Between(path, e))
  BY DEF IsControlRoute
<1> DEFINE segments == Between(path, e)
<1>2. IsName(segments)
  BY <1>1, RouteValid
<1>3. Len(segments) = 1 /\ segments[1] # "" /\ Decoded(segments[1]) \notin SlashNames
  BY <1>2 DEF IsName
<1>4. PICK S : path \in Seq(S) /\ e.prefix \in Seq(S) /\ e.suffix \in Seq(S)
  <2> DEFINE S == Range(path) \cup EndpointNames
  <2>1. path \in Seq(S) /\ e.prefix \in Seq(S) /\ e.suffix \in Seq(S)
    BY EndpointParts, SeqMonotonic
  <2> QED BY <2>1
<1>5. segments[1] \in Range(path) /\ path = e.prefix \o <<segments[1]>> \o e.suffix
  <2>1. Matches(path, e) /\ Len(Between(path, e)) = 1
    BY <1>1, <1>3
  <2> HIDE DEF segments
  <2>2. Between(path, e)[1] \in Range(path) /\ path = Joined(e.prefix, <<Between(path, e)[1]>>, e.suffix)
    BY <1>4, <2>1, OneBetween
  <2> QED BY <2>2 DEF segments, Joined
<1>6. segments # <<>>
  <2>1. Len(<<>>) = 0
    OBVIOUS
  <2> HIDE DEF segments
  <2>2. Len(segments) = 1
    BY <1>3
  <2>3. Len(segments) # Len(<<>>)
    BY <2>1, <2>2
  <2> QED BY <2>3
<1>7. route.op = e.op /\ route.id = Decoded(segments[1])
  <2>1. route.op = e.op
    BY <1>1, RouteOp
  <2>2. route.id = Decoded(Between(path, e)[1])
    BY <1>1, <1>6, RouteId
  <2> QED BY <2>1, <2>2
<1>8. Decoded(segments[1]) # ""
  BY <1>3, EscapesAssumption DEF Decoded
<1> HIDE DEF segments
<1> QED
  BY <1>3, <1>5, <1>7, <1>8 DEF Named

-----------------------------------------------------------------------------
(* processRequest *)

(* What the early returns of a route may answer, and what it means that    *)
(* none of them is taken.                                                  *)
MayReturn(r, route, x) ==
  /\ x \in Statuses \ {200}
  /\ IF route.kind = "control"
     THEN \/ x \in {503, 404}
          \/ ~route.valid /\ x = 400
          \/ r.method # "POST" /\ x = 405
          \/ ~BodyFits(r, route) /\ x = 400
          \/ ~BodyFits(r, route) /\ TakesBody(route) /\ x = 415
     ELSE /\ route.kind = "snapshot" =>
               \/ r.method # "GET" /\ x = 405
               \/ x = 503
               \/ route.op \in {"defaultSink", "defaultSource"} /\ x = 404
          /\ route.kind = "icon" =>
               \/ r.method # "GET" /\ x = 405
               \/ ~route.valid /\ x = 400
               \/ x = 404

Passes(r, route) ==
  IF route.kind = "control" THEN route.valid /\ r.method = "POST" /\ BodyFits(r, route)
  ELSE r.method = "GET"

LEMMA RouteTaken ==
  ASSUME NEW r, NEW st
  PROVE  LET route == RouteOf(r.path)
             returns == RouteReturns(r, route, st)
         IN  /\ returns \in Returns
             /\ \A x \in Range(returns) : MayReturn(r, route, x)
             /\ Range(returns) = {} => Passes(r, route)
<1> DEFINE route == RouteOf(r.path)
           returns == RouteReturns(r, route, st)
<1>1. route.kind \in Kinds /\ (route.kind = "control" => route.op \in ControlOps)
  BY RouteKinds, ControlRouteOp
<1> HIDE DEF route
<1>2. CASE route.kind = "control"
  <2>1. returns = ControlReturns(r, route, st)
    BY <1>2 DEF RouteReturns
  <2>2. route.op \in ControlOps
    BY <1>1, <1>2
  <2>3. /\ returns \in Returns
        /\ \A x \in Range(returns) :
             \/ x \in {503, 404}
             \/ ~route.valid /\ x = 400
             \/ r.method # "POST" /\ x = 405
             \/ ~BodyFits(r, route) /\ x = 400
             \/ ~BodyFits(r, route) /\ TakesBody(route) /\ x = 415
        /\ Range(returns) = {} => route.valid /\ r.method = "POST" /\ BodyFits(r, route)
    BY <2>1, <2>2, ControlTaken, ZenonT(60)
  <2> HIDE DEF returns
  <2> QED
    BY <1>2, <2>3 DEF MayReturn, Passes, Statuses, route, returns
<1>3. CASE route.kind = "snapshot"
  <2>1. returns = MethodReturns(r, "GET") \o SnapshotReturns(route, st)
    BY <1>3 DEF RouteReturns
  <2> QED
    BY <1>3, <2>1, SnapshotTaken DEF MayReturn, Passes, Statuses, route
<1>4. CASE route.kind = "icon"
  <2>1. returns = MethodReturns(r, "GET") \o IconReturns(route)
    BY <1>4 DEF RouteReturns
  <2> QED
    BY <1>4, <2>1, IconTaken DEF MayReturn, Passes, Statuses, route
<1>5. CASE route.kind = "docs"
  <2>1. returns = MethodReturns(r, "GET") \o DocsReturns(r.path)
    BY <1>5 DEF RouteReturns
  <2>2. /\ returns \in Returns
        /\ \A x \in Range(returns) : x \in {404, 405}
        /\ Range(returns) = {} => r.method = "GET"
    BY <2>1, DocsTaken
  <2> HIDE DEF returns
  <2> QED
    BY <1>5, <2>2 DEF MayReturn, Passes, Statuses, route, returns
<1>6. CASE route.kind \in {"redirect", "unknown"}
  <2>1. returns \in {<<301>>, <<404>>}
    BY <1>6 DEF RouteReturns
  <2>2. /\ <<301>> \in Returns /\ Range(<<301>>) = {301}
        /\ <<404>> \in Returns /\ Range(<<404>>) = {404}
    BY OneReturn DEF Statuses
  <2> HIDE DEF returns
  <2>3. returns \in Returns /\ Range(returns) # {} /\ Range(returns) \subseteq {301, 404}
    BY <2>1, <2>2
  <2> QED
    BY <1>6, <2>3 DEF MayReturn, Statuses, route, returns
<1> QED
  BY <1>1, <1>2, <1>3, <1>4, <1>5, <1>6 DEF Kinds, route

(* The three ways to answer: an early return, a page or a snapshot, or     *)
(* what a controller answers.                                              *)
ReturnedEarly(r, size, a) ==
  /\ a.command = NoCommand /\ a.result = "none" /\ a.status \in Statuses \ {200}
  /\ \/ ~r.lineOk /\ a.status = 400
     \/ size < TotalSize(r) /\ a.status = 400
     \/ r.method = "OPTIONS" /\ a.status = 204
     \/ MayReturn(r, RouteOf(r.path), a.status)
Served(r, a) ==
  /\ a.command = NoCommand /\ a.result = "none" /\ a.status = 200
  /\ RouteOf(r.path).kind # "control" /\ Passes(r, RouteOf(r.path))
Controlled(r, a) ==
  /\ RouteOf(r.path).kind = "control" /\ Passes(r, RouteOf(r.path))
  /\ a.command = <<RouteOf(r.path).op, RouteOf(r.path).id>>
  /\ a.result \in ResultsOf(RouteOf(r.path).op)
  /\ a.status = StatusOf(a.result)

LEMMA AnswersOf ==
  ASSUME NEW r, NEW size, NEW st, NEW a \in Answers(r, size, st)
  PROVE  ReturnedEarly(r, size, a) \/ Served(r, a) \/ Controlled(r, a)
<1> DEFINE route == RouteOf(r.path)
           first == RequestReturns(r, size)
           second == RouteReturns(r, route, st)
           returns == first \o second
<1>1. /\ first \in Returns
      /\ \A x \in Range(first) : \/ ~r.lineOk /\ x = 400
                                 \/ size < TotalSize(r) /\ x = 400
                                 \/ r.method = "OPTIONS" /\ x = 204
  BY RequestTaken DEF TotalSize
<1>2. /\ second \in Returns
      /\ \A x \in Range(second) : MayReturn(r, route, x)
      /\ Range(second) = {} => Passes(r, route)
  BY RouteTaken
<1> HIDE DEF first, second
<1>3. /\ returns \in Returns
      /\ \A x : x \in Range(returns) <=> x \in Range(first) \/ x \in Range(second)
  BY <1>1, <1>2, ConcatTaken
<1> DEFINE status == FirstReturn(returns)
<1>4. a \in IF status # NoReturn THEN {Answer(status, NoCommand, "none")}
            ELSE IF route.kind # "control" THEN {Answer(200, NoCommand, "none")}
            ELSE { Answer(StatusOf(result), <<route.op, route.id>>, result) :
                     result \in ResultsOf(route.op) }
  BY DEF Answers, first, second
<1>5. \/ status = NoReturn /\ Range(returns) = {}
      \/ status \in Range(returns) /\ status # NoReturn
  BY <1>3, FirstReturnTaken
<1>6. Range(returns) \subseteq Statuses
  BY <1>3, RangeOfSeq DEF Returns
<1> HIDE DEF returns, route
<1>7. CASE status # NoReturn
  <2>1. a = Answer(status, NoCommand, "none")
    BY <1>4, <1>7
  <2>2. a.status = status /\ a.command = NoCommand /\ a.result = "none"
    BY <2>1 DEF Answer
  <2>3. status \in Range(returns) /\ status \in Statuses
    BY <1>5, <1>6, <1>7
  <2>4. status \in Range(first) \/ status \in Range(second)
    BY <1>3, <2>3
  <2> HIDE DEF status
  <2>5. CASE status \in Range(first)
    <3>1. \/ ~r.lineOk /\ status = 400
          \/ size < TotalSize(r) /\ status = 400
          \/ r.method = "OPTIONS" /\ status = 204
      BY <1>1, <2>5
    <3> QED
      BY <2>2, <2>3, <3>1 DEF ReturnedEarly
  <2>6. CASE status \in Range(second)
    <3>1. MayReturn(r, route, status)
      BY <1>2, <2>6
    <3> QED
      BY <2>2, <3>1 DEF ReturnedEarly, MayReturn, route
  <2> QED
    BY <2>4, <2>5, <2>6
<1>8. CASE status = NoReturn
  <2>1. Passes(r, route)
    BY <1>2, <1>3, <1>5, <1>8
  <2>2. CASE route.kind # "control"
    <3>1. a = Answer(200, NoCommand, "none")
      BY <1>4, <1>8, <2>2
    <3> QED
      BY <2>1, <2>2, <3>1 DEF Served, Answer, route
  <2>3. CASE route.kind = "control"
    <3>1. PICK result \in ResultsOf(route.op) :
            a = Answer(StatusOf(result), <<route.op, route.id>>, result)
      BY <1>4, <1>8, <2>3
    <3>2. a.status = StatusOf(result) /\ a.command = <<route.op, route.id>> /\ a.result = result
      BY <3>1 DEF Answer
    <3> QED
      BY <2>1, <2>3, <3>2 DEF Controlled, route
  <2> QED
    BY <2>2, <2>3
<1> QED
  BY <1>7, <1>8

-----------------------------------------------------------------------------
(* The invariant *)

(* A socket that has not been answered is the only one that is read, and   *)
(* only such sockets have a buffer.                                        *)
ReadUntilAnswered ==
  \A c \in Connections : conn[c] \in {"new", "open"} => answer[c] = Unanswered

(* What an answer rests on: what the request is, and that it is there in   *)
(* full, or that it is refused before that.                                *)
Justified(r, size, a) ==
  \/ a = Unanswered
  \/ a = BadRequest /\ RefusedEarly(r, size)
  \/ /\ Complete(r, size)
     /\ ReturnedEarly(r, size, a) \/ Served(r, a) \/ Controlled(r, a)
AnswersJustified == \A c \in Connections : Justified(request[c], sent[c], answer[c])

SentBounded == \A c \in Connections : sent[c] \in 0 .. SentSize(request[c])

Inv ==
  /\ conn \in [Connections -> {"new", "open", "closing", "closed"}]
  /\ request \in [Connections -> Requests]
  /\ sent \in [Connections -> Nat]
  /\ SentBounded
  /\ DOMAIN answer = Connections
  /\ cors \in [Connections -> BOOLEAN]
  /\ stores \in StoreStates
  /\ changes \in 0 .. MaxChanges
  /\ PendingBounded
  /\ NothingLeftBehind
  /\ WaitsOnlyForMissing
  /\ ReadUntilAnswered
  /\ AnswersJustified

BufferInv == PendingBounded /\ NothingLeftBehind /\ WaitsOnlyForMissing

-----------------------------------------------------------------------------
(* The two changes of m_pendingRequests *)

LEMMA ForgetShrinks ==
  ASSUME NEW c, Forget(c)
  PROVE  /\ DOMAIN pendingRequests' = DOMAIN pendingRequests \ {c}
         /\ \A d \in DOMAIN pendingRequests' : pendingRequests'[d] = pendingRequests[d]
  BY DEF Forget, Restrict

LEMMA KeepSets ==
  ASSUME NEW c, NEW n, Keep(c, n)
  PROVE  /\ DOMAIN pendingRequests' = DOMAIN pendingRequests \cup {c}
         /\ pendingRequests'[c] = n
         /\ \A d \in DOMAIN pendingRequests : d # c => pendingRequests'[d] = pendingRequests[d]
  BY DEF Keep

(* A socket that loses its buffer may also lose its connection; the others *)
(* keep both.                                                              *)
LEMMA ForgetKeepsBuffers ==
  ASSUME Inv, NEW c \in Connections, Forget(c), request' = request,
         \A d \in Connections : d # c => conn'[d] = conn[d]
  PROVE  BufferInv'
<1>1. DOMAIN pendingRequests' = DOMAIN pendingRequests \ {c}
  BY ForgetShrinks
<1>2. \A d \in DOMAIN pendingRequests' :
        d # c /\ d \in DOMAIN pendingRequests /\ pendingRequests'[d] = pendingRequests[d]
  BY <1>1, ForgetShrinks
<1> QED
  BY <1>1, <1>2 DEF Inv, BufferInv, PendingBounded, NothingLeftBehind, WaitsOnlyForMissing

-----------------------------------------------------------------------------
(* handleReadyRead: each of its outcomes *)

LEMMA WriteResponseStep ==
  ASSUME Inv, NEW c \in Connections, conn[c] = "open", NEW a, NEW withCors \in BOOLEAN,
         WriteResponse(c, a, withCors)
  PROVE  /\ conn' \in [Connections -> {"new", "open", "closing", "closed"}]
         /\ \A d \in Connections : d # c => conn'[d] = conn[d] /\ answer'[d] = answer[d]
         /\ DOMAIN answer' = Connections /\ answer'[c] = a
         /\ cors' \in [Connections -> BOOLEAN]
         /\ ReadUntilAnswered'
  BY DEF Inv, WriteResponse, ReadUntilAnswered

LEMMA AnswerStep ==
  ASSUME Inv, NEW c \in Connections, conn[c] = "open", Forget(c),
         NEW a, Justified(request[c], sent[c], a),
         NEW withCors \in BOOLEAN, WriteResponse(c, a, withCors),
         UNCHANGED <<request, sent, stores, changes>>
  PROVE  Inv'
<1>1. /\ conn' \in [Connections -> {"new", "open", "closing", "closed"}]
      /\ \A d \in Connections : d # c => conn'[d] = conn[d] /\ answer'[d] = answer[d]
      /\ DOMAIN answer' = Connections /\ answer'[c] = a
      /\ cors' \in [Connections -> BOOLEAN]
      /\ ReadUntilAnswered'
  BY WriteResponseStep
<1>2. BufferInv'
  BY <1>1, ForgetKeepsBuffers
<1>3. AnswersJustified'
  <2> SUFFICES ASSUME NEW d \in Connections PROVE Justified(request[d], sent[d], answer'[d])
    BY DEF AnswersJustified
  <2>1. CASE d = c
    BY <1>1, <2>1
  <2>2. CASE d # c
    BY <1>1, <2>2 DEF Inv, AnswersJustified
  <2> QED BY <2>1, <2>2
<1> QED
  BY <1>1, <1>2, <1>3 DEF Inv, BufferInv, SentBounded

LEMMA KeepStep ==
  ASSUME Inv, NEW c \in Connections, conn[c] = "open", Keep(c, sent[c]),
         ~RefusedEarly(request[c], sent[c]), ~Complete(request[c], sent[c]),
         UNCHANGED <<conn, request, sent, answer, cors, stores, changes>>
  PROVE  Inv'
<1> DEFINE r == request[c]
<1>1. sent[c] \in Nat /\ r \in Requests
  BY DEF Inv
<1>2. r.header \in Nat /\ TotalSize(r) \in Nat /\ MaxSize \in Nat
  BY <1>1, SizesAssumption, BoundsAssumption DEF TotalSize
<1>3. /\ sent[c] \in 0 .. MaxSize
      /\ sent[c] < TotalSize(r)
      /\ sent[c] >= r.header => /\ r.headersOk /\ r.lengthHeader # "bad"
                                /\ TotalSize(r) <= MaxSize
  BY <1>1, <1>2 DEF RefusedEarly, Complete
<1>4. /\ DOMAIN pendingRequests' = DOMAIN pendingRequests \cup {c}
      /\ pendingRequests'[c] = sent[c]
      /\ \A d \in DOMAIN pendingRequests : d # c => pendingRequests'[d] = pendingRequests[d]
  BY KeepSets
<1>5. BufferInv'
  BY <1>3, <1>4 DEF Inv, BufferInv, PendingBounded, NothingLeftBehind, WaitsOnlyForMissing
<1> QED
  BY <1>5 DEF Inv, BufferInv, ReadUntilAnswered, SentBounded, AnswersJustified

(* processRequest gives one of its answers to a request that is complete. *)
LEMMA ProcessRequestJustified ==
  ASSUME NEW c, Complete(request[c], sent[c]), NEW a \in Answers(request[c], sent[c], stores)
  PROVE  Justified(request[c], sent[c], a)
  BY AnswersOf DEF Justified

LEMMA ReadyReadStep ==
  ASSUME Inv, NEW c \in Connections, ReadyRead(c)
  PROVE  Inv'
<1>1. conn[c] = "open" /\ UNCHANGED <<request, sent, stores, changes>>
  BY DEF ReadyRead
<1>2. CASE RefusedEarly(request[c], sent[c]) /\ WriteResponse(c, BadRequest, FALSE) /\ Forget(c)
  <2>1. Justified(request[c], sent[c], BadRequest)
    BY <1>2 DEF Justified
  <2>2. PICK withCors \in BOOLEAN : WriteResponse(c, BadRequest, withCors)
    BY <1>2, Zenon
  <2> QED
    BY <1>1, <1>2, <2>1, <2>2, AnswerStep
<1>3. CASE /\ ~RefusedEarly(request[c], sent[c]) /\ ~Complete(request[c], sent[c])
           /\ Keep(c, sent[c]) /\ UNCHANGED <<conn, answerVars>>
  BY <1>1, <1>3, KeepStep DEF answerVars
<1>4. CASE Complete(request[c], sent[c]) /\ Forget(c) /\ ProcessRequest(c)
  <2>1. PICK a \in Answers(request[c], sent[c], stores) :
          WriteResponse(c, a, request[c].lineOk /\ OriginAllowed(request[c].origin))
    BY <1>4 DEF ProcessRequest
  <2>2. Justified(request[c], sent[c], a)
    BY <1>4, ProcessRequestJustified
  <2>3. (request[c].lineOk /\ OriginAllowed(request[c].origin)) \in BOOLEAN
    OBVIOUS
  <2>4. PICK withCors \in BOOLEAN : WriteResponse(c, a, withCors)
    BY <2>1, <2>3, Zenon
  <2> QED
    BY <1>1, <1>4, <2>2, <2>4, AnswerStep
<1> QED
  BY <1>2, <1>3, <1>4 DEF ReadyRead

-----------------------------------------------------------------------------

LEMMA SizesAreNat ==
  ASSUME NEW r \in Requests
  PROVE  TotalSize(r) \in Nat /\ SentSize(r) \in Nat /\ TotalSize(r) <= SentSize(r)
  BY SizesAssumption DEF TotalSize, SentSize

LEMMA InvInit == Init => Inv
<1> SUFFICES ASSUME Init PROVE Inv
  OBVIOUS
<1>1. request \in [Connections -> Requests] /\ MaxChanges \in Nat
  BY ScenariosAssumption, BoundsAssumption DEF Init
<1>2. SentBounded
  BY <1>1, SizesAreNat DEF Init, SentBounded
<1>3. AnswersJustified
  BY DEF Init, AnswersJustified, Justified
<1>4. BufferInv
  BY DEF Init, BufferInv, PendingBounded, NothingLeftBehind, WaitsOnlyForMissing
<1>5. stores \in StoreStates
  BY DEF Init, StoreStates
<1>6. cors \in [Connections -> BOOLEAN]
  BY DEF Init
<1> QED
  BY <1>1, <1>2, <1>3, <1>4, <1>5, <1>6 DEF Init, Inv, BufferInv, ReadUntilAnswered

(* Steps that leave requests, what was sent and the answers alone keep     *)
(* what is said of them.                                                   *)
LEMMA AnswersKept ==
  ASSUME Inv, UNCHANGED <<request, sent, answer, cors>>
  PROVE  /\ SentBounded' /\ AnswersJustified'
         /\ request' \in [Connections -> Requests] /\ sent' \in [Connections -> Nat]
         /\ DOMAIN answer' = Connections /\ cors' \in [Connections -> BOOLEAN]
  BY DEF Inv, SentBounded, AnswersJustified

LEMMA StoresChangeStep ==
  ASSUME Inv, StoresChange
  PROVE  Inv'
<1>1. changes' \in 0 .. MaxChanges
  BY BoundsAssumption DEF Inv, StoresChange
<1>2. stores' \in StoreStates
  <2>1. CASE UpdateAudioState
    <3>1. PICK defaults \in SUBSET {"defaultSink", "defaultSource"} :
            stores' = [stores EXCEPT !.audioReady = TRUE, !.defaults = defaults]
      BY <2>1 DEF UpdateAudioState
    <3> QED
      BY <3>1 DEF Inv, StoreStates
  <2>2. CASE UpdateWindowState
    <3>1. PICK windows \in SUBSET WindowIds :
            stores' = [stores EXCEPT !.windowsReady = TRUE, !.windows = windows]
      BY <2>2 DEF UpdateWindowState
    <3> QED
      BY <3>1 DEF Inv, StoreStates
  <2> QED
    BY <2>1, <2>2 DEF StoresChange
<1>3. UNCHANGED <<conn, request, sent, pendingRequests, answer, cors>>
  BY DEF StoresChange, connVars, answerVars
<1>4. BufferInv' /\ ReadUntilAnswered'
  BY <1>3 DEF Inv, BufferInv, PendingBounded, NothingLeftBehind, WaitsOnlyForMissing,
     ReadUntilAnswered
<1> QED
  BY <1>1, <1>2, <1>3, <1>4, AnswersKept DEF Inv, BufferInv

LEMMA SendStep ==
  ASSUME Inv, NEW c \in Connections, Send(c)
  PROVE  Inv'
<1>1. PICK n \in sent[c] + 1 .. SentSize(request[c]) : sent' = [sent EXCEPT ![c] = n]
  BY DEF Send
<1>2. sent[c] \in Nat /\ request[c] \in Requests
  BY DEF Inv
<1>3. n \in Nat /\ n \in 0 .. SentSize(request[c])
  BY <1>2, SizesAreNat
<1>4. UNCHANGED <<conn, request, pendingRequests, answer, cors, stores, changes>> /\ conn[c] = "open"
  BY DEF Send, answerVars
<1>5. sent' \in [Connections -> Nat] /\ SentBounded'
  BY <1>1, <1>3, <1>4 DEF Inv, SentBounded
<1>6. AnswersJustified'
  <2> SUFFICES ASSUME NEW d \in Connections PROVE Justified(request[d], sent'[d], answer[d])
    BY <1>4 DEF AnswersJustified
  <2>1. CASE d = c
    <3>1. answer[d] = Unanswered
      BY <1>4, <2>1 DEF Inv, ReadUntilAnswered
    <3> QED
      BY <3>1 DEF Justified
  <2>2. CASE d # c
    <3>1. sent'[d] = sent[d]
      BY <1>1, <2>2 DEF Inv
    <3> QED
      BY <3>1 DEF Inv, AnswersJustified
  <2> QED BY <2>1, <2>2
<1>7. BufferInv' /\ ReadUntilAnswered'
  BY <1>4 DEF Inv, BufferInv, PendingBounded, NothingLeftBehind, WaitsOnlyForMissing,
     ReadUntilAnswered
<1> QED
  BY <1>4, <1>5, <1>6, <1>7 DEF Inv, BufferInv

LEMMA InvStep == Inv /\ [Next]_vars => Inv'
<1> SUFFICES ASSUME Inv, [Next]_vars PROVE Inv'
  OBVIOUS
<1>1. CASE UNCHANGED vars
  <2>1. UNCHANGED <<conn, request, sent, pendingRequests, answer, cors, stores, changes>>
    BY <1>1 DEF vars, connVars, answerVars
  <2>2. BufferInv' /\ ReadUntilAnswered'
    BY <2>1 DEF Inv, BufferInv, PendingBounded, NothingLeftBehind, WaitsOnlyForMissing,
       ReadUntilAnswered
  <2> QED
    BY <2>1, <2>2, AnswersKept DEF Inv, BufferInv
<1>2. ASSUME NEW c \in Connections, Connect(c) PROVE Inv'
  <2>1. /\ UNCHANGED <<request, sent, pendingRequests, answer, cors, stores, changes>>
        /\ conn[c] = "new" /\ conn' = [conn EXCEPT ![c] = "open"]
    BY <1>2 DEF Connect, answerVars
  <2>2. BufferInv' /\ ReadUntilAnswered'
    BY <2>1 DEF Inv, BufferInv, PendingBounded, NothingLeftBehind, WaitsOnlyForMissing,
       ReadUntilAnswered
  <2> QED
    BY <2>1, <2>2, AnswersKept DEF Inv, BufferInv
<1>3. ASSUME NEW c \in Connections, Disconnected(c) PROVE Inv'
  <2>1. UNCHANGED <<request, sent, answer, cors, stores, changes>>
    BY <1>3 DEF Disconnected, answerVars
  <2>2. BufferInv'
    BY <1>3, <2>1, ForgetKeepsBuffers DEF Inv, Disconnected
  <2>3. conn' \in [Connections -> {"new", "open", "closing", "closed"}] /\ ReadUntilAnswered'
    BY <1>3, <2>1 DEF Inv, ReadUntilAnswered, Disconnected
  <2> QED
    BY <2>1, <2>2, <2>3, AnswersKept DEF Inv, BufferInv
<1> QED
  BY <1>1, <1>2, <1>3, StoresChangeStep, SendStep, ReadyReadStep DEF Next

LEMMA Invariance == Spec => []Inv
  BY InvInit, InvStep, PTL DEF Spec

(* The server never buffers more of a request than kMaxRequestBytes, for   *)
(* any limit, and only for sockets it knows (handleReadyRead).             *)
THEOREM BufferBounded == Spec => []PendingBounded
<1>1. Inv => PendingBounded
  BY DEF Inv
<1> QED BY <1>1, Invariance, PTL

(* Clients that were answered or are gone leave nothing behind, however    *)
(* many come and go (m_pendingRequests and the disconnected slot).         *)
THEOREM NoLeftovers == Spec => []NothingLeftBehind
<1>1. Inv => NothingLeftBehind
  BY DEF Inv
<1> QED BY <1>1, Invariance, PTL

(* In whatever pieces a request arrives, what stays in the buffer is the   *)
(* beginning of a request that may still become complete and acceptable.   *)
THEOREM NoRequestStuck == Spec => []WaitsOnlyForMissing
<1>1. Inv => WaitsOnlyForMissing
  BY DEF Inv
<1> QED BY <1>1, Invariance, PTL

(* No step answers a client a second time (disconnectFromHost ends the     *)
(* reading of the socket).                                                 *)
THEOREM OneAnswer == Spec => AnsweredOnce
<1>1. ASSUME Inv, Next
      PROVE  \A c \in Connections : answer[c] # Unanswered => answer'[c] = answer[c]
  <2>1. ASSUME NEW c \in Connections, ReadyRead(c)
        PROVE  \A d \in Connections : answer[d] # Unanswered => answer'[d] = answer[d]
    <3>1. conn[c] = "open" /\ answer[c] = Unanswered
      BY <1>1, <2>1 DEF ReadyRead, Inv, ReadUntilAnswered
    <3>2. ASSUME NEW a, NEW withCors, WriteResponse(c, a, withCors)
          PROVE  \A d \in Connections : answer[d] # Unanswered => answer'[d] = answer[d]
      BY <1>1, <3>1, <3>2 DEF WriteResponse, Inv
    <3>3. CASE UNCHANGED answer
      BY <3>3
    <3>4. CASE WriteResponse(c, BadRequest, FALSE)
      BY <3>2, <3>4
    <3>5. CASE ProcessRequest(c)
      BY <3>2, <3>5 DEF ProcessRequest
    <3> QED
      BY <2>1, <3>3, <3>4, <3>5 DEF ReadyRead, answerVars
  <2>2. CASE UNCHANGED answer
    BY <2>2
  <2> QED
    BY <1>1, <2>1, <2>2 DEF Next, StoresChange, Connect, Send, Disconnected, answerVars
<1> QED
  BY <1>1, Invariance, PTL DEF Spec, AnsweredOnce

-----------------------------------------------------------------------------
(* What the answers say *)

LEMMA JustifiedStatus ==
  ASSUME NEW r, NEW size, NEW a, Justified(r, size, a)
  PROVE  a.status \in Statuses \cup {Unanswered.status}
<1>1. CASE a = Unanswered
  BY <1>1
<1>2. CASE a = BadRequest
  BY <1>2 DEF BadRequest, Answer, Statuses
<1>3. CASE ReturnedEarly(r, size, a)
  BY <1>3 DEF ReturnedEarly
<1>4. CASE Served(r, a)
  BY <1>4 DEF Served, Statuses
<1>5. CASE Controlled(r, a)
  BY <1>5 DEF Controlled, ResultsOf, StatusOf, Statuses
<1> QED
  BY <1>1, <1>2, <1>3, <1>4, <1>5 DEF Justified

(* What the server keeps of each socket, and the statuses that it answers  *)
(* (SnapshotHttpServer).                                                   *)
THEOREM TypeCorrect == Spec => []TypeOK
<1>1. ASSUME Inv PROVE TypeOK
  <2>1. \A c \in Connections : answer[c].status \in Statuses \cup {Unanswered.status}
    BY <1>1, JustifiedStatus DEF Inv, AnswersJustified
  <2> QED
    BY <1>1, <2>1 DEF Inv, TypeOK, SentBounded
<1> QED BY <1>1, Invariance, PTL

LEMMA OtherAnswers ==
  ASSUME NEW r, NEW size, NEW a, Justified(r, size, a), ~(Complete(r, size) /\ Controlled(r, a))
  PROVE  /\ a.command = NoCommand
         /\ a.result # "accepted"
         /\ r.method = "POST" => a.status # 200
<1>1. CASE a = Unanswered
  BY <1>1 DEF Unanswered, Answer
<1>2. CASE a = BadRequest
  BY <1>2 DEF BadRequest, Answer
<1>3. CASE ReturnedEarly(r, size, a)
  BY <1>3 DEF ReturnedEarly
<1>4. CASE Served(r, a)
  BY <1>4 DEF Served, Passes
<1> QED
  BY <1>1, <1>2, <1>3, <1>4 DEF Justified

LEMMA ControlledAsRequested ==
  ASSUME NEW r \in Requests, NEW size, NEW a, Complete(r, size), Controlled(r, a)
  PROVE  /\ AsRequested(r, size, a.command)
         /\ a.result = "accepted" <=> a.status = 200
<1> DEFINE route == RouteOf(r.path)
<1>1. /\ a.command = <<route.op, route.id>> /\ a.result \in ResultsOf(route.op)
      /\ a.status = StatusOf(a.result)
      /\ route.valid /\ r.method = "POST" /\ BodyFits(r, route)
      /\ route.kind = "control"
  BY DEF Controlled, Passes
<1>2. IsControlRoute(r.path, route) /\ r.path \in Seq(Range(r.path))
  BY <1>1, RouteKinds, PathsAssumption
<1> HIDE DEF route
<1>3. Named(r.path, route)
  BY <1>1, <1>2, ValidIsNamed
<1>4. TakesBody(route) <=> r.length > 0
  <2>1. r.length > 0 <=> ~NoBody(r)
    BY SizesAssumption DEF NoBody
  <2> QED
    BY <1>1, <2>1 DEF BodyFits
<1>5. a.result = "accepted" <=> a.status = 200
  BY <1>1 DEF ResultsOf, StatusOf
<1>6. AsRequested(r, size, a.command)
  BY <1>1, <1>3, <1>4 DEF AsRequested, Named, TakesBody, Complete
<1> QED
  BY <1>5, <1>6

(* A controller is called for a client's own complete POST alone, with the *)
(* one name of its path and the body that the operation takes, and "200"   *)
(* is what its acceptance becomes (processRequest and the route helpers),  *)
(* whatever the paths, the escapes and the pieces.                         *)
THEOREM CommandsRequested == Spec => []CommandsAsRequested
<1>1. ASSUME Inv, NEW c \in Connections
      PROVE  /\ answer[c].command # NoCommand =>
                  AsRequested(request[c], sent[c], answer[c].command)
             /\ answer[c].result = "accepted" => answer[c].status = 200
             /\ (request[c].method = "POST" /\ answer[c].status = 200) =>
                  answer[c].result = "accepted"
  <2>1. request[c] \in Requests /\ Justified(request[c], sent[c], answer[c])
    BY <1>1 DEF Inv, AnswersJustified
  <2> QED
    BY <2>1, OtherAnswers, ControlledAsRequested
<1>2. Inv => CommandsAsRequested
  BY <1>1 DEF CommandsAsRequested
<1> QED BY <1>2, Invariance, PTL

LEMMA WellFormedNotRefused ==
  ASSUME NEW r \in Requests, WellFormed(r), NEW size \in 0 .. SentSize(r)
  PROVE  ~RefusedEarly(r, size)
<1>1. MaxSize \in Nat
  BY BoundsAssumption
<1> QED
  BY <1>1, SizesAreNat DEF WellFormed, RefusedEarly

(* What is left of an answer to a well-formed request that is no OPTIONS   *)
(* request.                                                                *)
LEMMA WellFormedAnswer ==
  ASSUME NEW r \in Requests, WellFormed(r), r.method # "OPTIONS", NEW size \in 0 .. SentSize(r),
         NEW a, a # Unanswered, Justified(r, size, a)
  PROVE  \/ /\ MayReturn(r, RouteOf(r.path), a.status)
            /\ a.result = "none"
         \/ Served(r, a)
         \/ Controlled(r, a)
<1>1. ~RefusedEarly(r, size) /\ r.lineOk
  BY WellFormedNotRefused DEF WellFormed
<1>2. Complete(r, size)
  BY <1>1 DEF Justified
<1>3. ~(size < TotalSize(r))
  BY <1>2, SizesAreNat DEF Complete
<1> QED
  BY <1>1, <1>3 DEF Justified, ReturnedEarly

(* A well-formed request to a snapshot, control or icon operation, which   *)
(* are all of the OpenAPI document, is only answered with the statuses     *)
(* listed for it (openapi.yaml), but for icons whose name is not one       *)
(* segment, a GET of which is answered with a 400 that is not listed       *)
(* (snapshot_http_server.cpp:911).                                         *)
THEOREM StatusesListed == Spec => []StatusesDocumented
<1>1. ASSUME Inv, NEW c \in Connections, answer[c] # Unanswered,
             WellFormed(request[c]), request[c].method # "OPTIONS",
             ToDocumentedOperation(request[c])
      PROVE  answer[c].status \in DocumentedStatuses(request[c].path)
  <2> DEFINE r == request[c]
             route == RouteOf(r.path)
             a == answer[c]
  <2>1. r \in Requests /\ sent[c] \in 0 .. SentSize(r) /\ Justified(r, sent[c], a)
    BY <1>1 DEF Inv, SentBounded, AnswersJustified
  <2>2. MayReturn(r, route, a.status) \/ Served(r, a) \/ Controlled(r, a)
    BY <1>1, <2>1, WellFormedAnswer
  <2>3. CASE route.kind = "snapshot"
    <3>1. \/ a.status \in {200, 405, 503}
          \/ route.op \in {"defaultSink", "defaultSource"} /\ a.status = 404
      BY <2>2, <2>3 DEF MayReturn, Served, Controlled
    <3> QED
      BY <2>3, <3>1 DEF DocumentedStatuses
  <2>4. CASE route.kind = "control"
    <3>1. CASE MayReturn(r, route, a.status)
      <4>1. \/ a.status \in {400, 404, 405, 503}
            \/ TakesBody(route) /\ a.status = 415
        BY <2>4, <3>1 DEF MayReturn
      <4> QED
        BY <2>4, <4>1 DEF DocumentedStatuses, TakesBody
    <3>2. CASE Controlled(r, a)
      <4>1. a.status \in {200, 400, 404, 409, 503}
        BY <3>2 DEF Controlled, ResultsOf, StatusOf
      <4> QED
        BY <2>4, <4>1 DEF DocumentedStatuses
    <3> QED
      BY <2>2, <2>4, <3>1, <3>2 DEF Served
  <2>5. CASE route.kind = "icon"
    <3>1. a.status \in {200, 404, 405} \/ (~route.valid /\ a.status = 400)
      BY <2>2, <2>5 DEF MayReturn, Served, Controlled
    <3>2. route.valid
      BY <1>1, <2>5 DEF ToDocumentedOperation
    <3>3. a.status \in {200, 404, 405}
      BY <3>1, <3>2
    <3> QED
      BY <2>5, <3>3 DEF DocumentedStatuses
  <2> QED
    BY <1>1, <2>3, <2>4, <2>5 DEF ToDocumentedOperation
<1>2. Inv => StatusesDocumented
  BY <1>1 DEF StatusesDocumented
<1> QED BY <1>2, Invariance, PTL

(* In whatever pieces it arrives, a usable request is answered by the      *)
(* operation that it names, never as a bad one (handleReadyRead and the    *)
(* early returns of processRequest).                                       *)
THEOREM UsableServed == Spec => []UsableRequestsServed
<1>1. ASSUME Inv, NEW c \in Connections, Usable(request[c])
      PROVE  ~RefusedAsBad(answer[c])
  <2> DEFINE r == request[c]
             route == RouteOf(r.path)
             a == answer[c]
  <2>1. r \in Requests /\ sent[c] \in 0 .. SentSize(r) /\ Justified(r, sent[c], a)
    BY <1>1 DEF Inv, SentBounded, AnswersJustified
  <2>2. WellFormed(r) /\ r.method # "OPTIONS"
    BY <1>1 DEF Usable
  <2>3. \/ route.kind = "snapshot" /\ r.method = "GET"
        \/ /\ route.kind = "control" /\ route.valid /\ r.method = "POST"
           /\ IF TakesBody(route) THEN r.json /\ r.body = "objectWithField" ELSE NoBody(r)
    BY <1>1 DEF Usable, TakesBody
  <2>4. CASE a = Unanswered
    BY <2>4 DEF Unanswered, Answer, RefusedAsBad
  <2>5. CASE a # Unanswered
    <3>1. MayReturn(r, route, a.status) \/ Served(r, a) \/ Controlled(r, a)
      BY <2>1, <2>2, <2>5, WellFormedAnswer
    <3>2. CASE Served(r, a)
      BY <3>2 DEF Served, RefusedAsBad
    <3>3. CASE Controlled(r, a)
      BY <3>3 DEF Controlled, ResultsOf, StatusOf, RefusedAsBad
    <3>4. CASE MayReturn(r, route, a.status)
      <4>1. CASE route.kind = "snapshot"
        BY <2>3, <3>4, <4>1 DEF MayReturn, RefusedAsBad
      <4>2. CASE route.kind = "control"
        <5>1. BodyFits(r, route)
          BY <2>1, <2>3, <4>2, BodiesAssumption DEF BodyFits
        <5> QED
          BY <2>3, <3>4, <4>2, <5>1 DEF MayReturn, RefusedAsBad
      <4> QED
        BY <2>3, <4>1, <4>2
    <3> QED
      BY <3>1, <3>2, <3>3, <3>4
  <2> QED
    BY <2>4, <2>5
<1>2. Inv => UsableRequestsServed
  BY <1>1 DEF UsableRequestsServed
<1> QED BY <1>2, Invariance, PTL
=============================================================================
