------------------------- MODULE StateStreamProofs -------------------------
(***************************************************************************)
(* Proofs about StateStream for every set of stores and sockets and every  *)
(* bound: the invariants of the stream and its refinement of SnapshotFeed. *)
(***************************************************************************)
EXTENDS StateStream, TLAPS

USE DEF Absent, Versions

-----------------------------------------------------------------------------
(* Types *)

(* The messages the server builds from a well-typed state are messages. *)
LEMMA MessageTypes ==
  ASSUME NEW rdy \in [Stores -> BOOLEAN], NEW ver \in [Stores -> Versions], NEW s \in Stores
  PROVE  FullState(rdy, ver) \in Messages /\ Patch(s, ver) \in Messages
<1>1. 0 \in Versions
  BY BoundsAssumption
<1> QED BY <1>1 DEF FullState, Patch, Messages

LEMMA ErrorType == ErrorMessage \in Messages
  BY BoundsAssumption DEF ErrorMessage, Messages, Nothing

(* What a send leaves on the wires. *)
LEMMA SendTypes ==
  ASSUME TypeOK, NEW c \in Sockets, NEW m \in Messages
  PROVE  /\ Sent(c, m) \in Seq(Messages)
         /\ Send(c, m) => wire' \in [Sockets -> Seq(Messages)]
<1>1. wire \in [Sockets -> Seq(Messages)] /\ wire[c] \in Seq(Messages)
  BY DEF TypeOK
<1>2. Sent(c, m) \in Seq(Messages)
  BY <1>1 DEF Sent
<1> QED BY <1>1, <1>2 DEF Send

LEMMA FailTypes ==
  ASSUME TypeOK, NEW c \in Sockets, Fail(c)
  PROVE  wire' \in [Sockets -> Seq(Messages)] /\ closing' = closing \cup {c}
  BY ErrorType, SendTypes DEF Fail

(* A broadcast only puts messages on the wires, and only greeted sessions *)
(* count as served after it.                                              *)
LEMMA BroadcastTypes ==
  ASSUME TypeOK, NEW s \in Stores, NEW rdy \in [Stores -> BOOLEAN],
         NEW ver \in [Stores -> Versions], Broadcast(s, rdy, ver)
  PROVE  /\ wire' \in [Sockets -> Seq(Messages)]
         /\ fullStateSent' \subseteq helloReceived
<1>1. \A c \in Sockets : /\ Sent(c, Patch(s, ver)) \in Seq(Messages)
                         /\ Sent(c, FullState(rdy, ver)) \in Seq(Messages)
                         /\ wire[c] \in Seq(Messages)
  BY MessageTypes, SendTypes DEF TypeOK
<1> QED BY <1>1 DEF Broadcast, TypeOK

(* A new version of a store is a version. *)
LEMMA UpdateTypes ==
  ASSUME TypeOK, NEW s \in Stores, NEW r \in Readiness, UpdateState(s, r)
  PROVE  /\ version' \in [Stores -> Versions]
         /\ ready' \in [Stores -> BOOLEAN]
  BY BoundsAssumption, ReadinessAssumption DEF TypeOK, UpdateState

(* Applying a message to a view gives a view. *)
LEMMA ApplyType ==
  ASSUME NEW state \in [Stores -> Versions], NEW m \in Messages
  PROVE  ApplyBackendMessage(state, m) \in [Stores -> Versions]
  BY DEF ApplyBackendMessage, Messages

LEMMA TypeInit == Init => TypeOK
  BY BoundsAssumption, FramesAssumption DEF Init, TypeOK, Nothing, Life

LEMMA TypeStep == TypeOK /\ [Next]_vars => TypeOK'
<1> SUFFICES ASSUME TypeOK, [Next]_vars PROVE TypeOK'
  OBVIOUS
<1>1. ASSUME NEW s \in Stores, NEW r \in Readiness, UpdateState(s, r) PROVE TypeOK'
  <2>1. version' \in [Stores -> Versions] /\ ready' \in [Stores -> BOOLEAN]
    BY <1>1, UpdateTypes
  <2>2. wire' \in [Sockets -> Seq(Messages)] /\ fullStateSent' \subseteq helloReceived
    BY <1>1, <2>1, BroadcastTypes DEF UpdateState
  <2> QED BY <1>1, <2>1, <2>2 DEF UpdateState, TypeOK, clientVars
<1>2. ASSUME NEW c \in Sockets, HandleNewConnection(c) PROVE TypeOK'
  <2>1. wire' \in [Sockets -> Seq(Messages)]
    <3>1. <<ErrorMessage>> \in Seq(Messages)
      BY ErrorType
    <3>2. wire' = wire \/ wire' = [wire EXCEPT ![c] = <<ErrorMessage>>]
      BY <1>2 DEF HandleNewConnection
    <3> QED BY <3>1, <3>2 DEF TypeOK
  <2>2. conn' = [conn EXCEPT ![c] = "open"] /\ conn' \in [Sockets -> Life]
    BY <1>2 DEF HandleNewConnection, TypeOK, Life
  <2> QED BY <1>2, <2>1, <2>2 DEF HandleNewConnection, TypeOK, storeVars, clientVars
<1>3. ASSUME NEW c \in Sockets, NEW f \in Frames, ClientSends(c, f) PROVE TypeOK'
  <2>1. /\ frames' \in [Sockets -> Nat]
        /\ \A d \in Sockets : frames'[d] <= MaxFrames[d]
    <3>1. frames[c] \in Nat /\ MaxFrames[c] \in Nat
      BY FramesAssumption DEF TypeOK
    <3>2. frames[c] < MaxFrames[c] /\ frames' = [frames EXCEPT ![c] = frames[c] + 1]
      BY <1>3 DEF ClientSends
    <3> QED BY <3>1, <3>2 DEF TypeOK
  <2>2. inbox' \in [Sockets -> Seq(Frames)]
    BY <1>3 DEF ClientSends, TypeOK
  <2> QED BY <1>3, <2>1, <2>2 DEF ClientSends, TypeOK, storeVars, sessionVars
<1>4. ASSUME NEW c \in Sockets, HandleTextMessage(c) PROVE TypeOK'
  <2>1. inbox' \in [Sockets -> Seq(Frames)] /\ c \in clients
    BY <1>4 DEF HandleTextMessage, Delivers, TypeOK
  <2>2. CASE Fail(c) /\ UNCHANGED <<helloReceived, fullStateSent>>
    BY <1>4, <2>1, <2>2, FailTypes DEF HandleTextMessage, TypeOK, storeVars
  <2>3. CASE /\ helloReceived' = helloReceived \cup {c}
             /\ UNCHANGED closing
             /\ SendFullState(c)
    <3>1. wire' \in [Sockets -> Seq(Messages)] /\ fullStateSent' = fullStateSent \cup {c}
      <4>1. FullState(ready, version) \in Messages
        BY MessageTypes, BoundsAssumption DEF TypeOK, FullState, Messages
      <4> QED BY <4>1, <2>3, SendTypes DEF SendFullState
    <3> QED BY <1>4, <2>1, <2>3, <3>1 DEF HandleTextMessage, TypeOK, storeVars
  <2>4. CASE /\ helloReceived' = helloReceived \cup {c}
             /\ UNCHANGED <<closing, fullStateSent>>
             /\ Send(c, ErrorMessage)
    BY <1>4, <2>1, <2>4, SendTypes, ErrorType DEF HandleTextMessage, TypeOK, storeVars
  <2> QED BY <1>4, <2>2, <2>3, <2>4 DEF HandleTextMessage
<1>5. ASSUME NEW c \in Sockets, HandleBinaryMessage(c) PROVE TypeOK'
  <2>1. inbox' \in [Sockets -> Seq(Frames)] /\ c \in clients
    BY <1>5 DEF HandleBinaryMessage, Delivers, TypeOK
  <2>2. wire' \in [Sockets -> Seq(Messages)] /\ closing' = closing \cup {c}
    BY <1>5, FailTypes DEF HandleBinaryMessage
  <2> QED BY <1>5, <2>1, <2>2 DEF HandleBinaryMessage, TypeOK, storeVars
<1>6. ASSUME NEW c \in Sockets, CloseTimeout(c) PROVE TypeOK'
  BY <1>6 DEF CloseTimeout, TypeOK, Life, storeVars, clientVars
<1>7. ASSUME NEW c \in Sockets, Disconnected(c) PROVE TypeOK'
  BY <1>7 DEF Disconnected, TypeOK, Life, storeVars, clientVars
<1>8. ASSUME NEW c \in Sockets, PeerLeaves(c) PROVE TypeOK'
  BY <1>8 DEF PeerLeaves, TypeOK, Life, storeVars, sessionVars, clientVars
<1>9. ASSUME NEW c \in Sockets, ClientReceives(c) PROVE TypeOK'
  <2>1. Head(wire[c]) \in Messages /\ Tail(wire[c]) \in Seq(Messages)
    BY <1>9 DEF ClientReceives, TypeOK
  <2> QED BY <1>9, <2>1, ApplyType DEF ClientReceives, TypeOK, storeVars, sessionVars, clientVars
<1>10. CASE UNCHANGED vars
  BY <1>10 DEF vars, TypeOK
<1> QED BY <1>1, <1>2, <1>3, <1>4, <1>5, <1>6, <1>7, <1>8, <1>9, <1>10 DEF Next

(* Every reachable state is well typed: in particular the session flags    *)
(* are kept only for sockets in m_clients, that said hello before they     *)
(* were served, and m_clients holds no socket that was never connected or  *)
(* is gone (handleNewConnection, `disconnected`).                          *)
THEOREM TypeCorrect == Spec => []TypeOK
  BY TypeInit, TypeStep, PTL DEF Spec

-----------------------------------------------------------------------------
(* What a client ends with *)

(* A message that does not carry s leaves what the reader ends with. *)
LEMMA EndsWithAppendOther ==
  ASSUME NEW w \in Seq(Messages), NEW m \in Messages, NEW state \in [Stores -> Versions],
         NEW s \in Stores, NEW v \in Versions,
         m.value[s] = Absent, EndsWith(w, state, s, v)
  PROVE  EndsWith(Append(w, m), state, s, v)
<1> DEFINE a == Append(w, m)
<1>1. a \in Seq(Messages) /\ Len(a) = Len(w) + 1 /\ a[Len(w) + 1] = m
      /\ \A i \in 1 .. Len(w) : a[i] = w[i]
  OBVIOUS
<1> HIDE DEF a
<1>2. CASE \E i \in 1 .. Len(w) :
             /\ w[i].value[s] = v
             /\ v # Absent
             /\ \A j \in (i + 1) .. Len(w) : w[j].value[s] = Absent
  <2>1. PICK i \in 1 .. Len(w) : /\ w[i].value[s] = v
                                 /\ v # Absent
                                 /\ \A j \in (i + 1) .. Len(w) : w[j].value[s] = Absent
    BY <1>2
  <2>2. i \in 1 .. Len(a) /\ a[i].value[s] = v
    BY <1>1, <2>1
  <2>3. \A j \in (i + 1) .. Len(a) : a[j].value[s] = Absent
    BY <1>1, <2>1
  <2> QED BY <1>1, <2>1, <2>2, <2>3 DEF EndsWith, a
<1>3. CASE (\A i \in 1 .. Len(w) : w[i].value[s] = Absent) /\ state[s] = v
  <2>1. \A i \in 1 .. Len(a) : a[i].value[s] = Absent
    BY <1>1, <1>3
  <2> QED BY <1>3, <2>1 DEF EndsWith, a
<1> QED BY <1>2, <1>3 DEF EndsWith

(* A message that carries s decides what the reader ends with. *)
LEMMA EndsWithAppendCarrier ==
  ASSUME NEW w \in Seq(Messages), NEW m \in Messages, NEW state, NEW s \in Stores,
         m.value[s] # Absent
  PROVE  EndsWith(Append(w, m), state, s, m.value[s])
<1> DEFINE a == Append(w, m)
<1>1. Len(a) = Len(w) + 1 /\ a[Len(w) + 1] = m /\ Len(w) \in Nat
  OBVIOUS
<1> HIDE DEF a
<1>2. Len(w) + 1 \in 1 .. Len(a) /\ ((Len(w) + 1) + 1) .. Len(a) = {}
  BY <1>1
<1> QED BY <1>1, <1>2 DEF EndsWith, a

(* Reading the first message does not change what the reader ends with. *)
LEMMA EndsWithReceive ==
  ASSUME NEW w \in Seq(Messages), w # <<>>, NEW state \in [Stores -> Versions],
         NEW s \in Stores, NEW v \in Versions, EndsWith(w, state, s, v)
  PROVE  EndsWith(Tail(w), ApplyBackendMessage(state, Head(w)), s, v)
<1> DEFINE t == Tail(w)
           next == ApplyBackendMessage(state, Head(w))
<1>1. Len(w) \in Nat \ {0} /\ Len(t) = Len(w) - 1 /\ Head(w) = w[1]
      /\ \A i \in 1 .. Len(t) : t[i] = w[i + 1]
  OBVIOUS
<1>2. next[s] = IF w[1].value[s] # Absent THEN w[1].value[s] ELSE state[s]
  BY <1>1 DEF ApplyBackendMessage
<1> HIDE DEF t, next
<1>3. CASE \E i \in 1 .. Len(w) :
             /\ w[i].value[s] = v
             /\ v # Absent
             /\ \A j \in (i + 1) .. Len(w) : w[j].value[s] = Absent
  <2>1. PICK i \in 1 .. Len(w) : /\ w[i].value[s] = v
                                 /\ v # Absent
                                 /\ \A j \in (i + 1) .. Len(w) : w[j].value[s] = Absent
    BY <1>3
  <2>2. CASE i = 1
    <3>1. \A j \in 1 .. Len(t) : t[j].value[s] = Absent
      BY <1>1, <2>1, <2>2
    <3> QED BY <1>2, <2>1, <2>2, <3>1 DEF EndsWith, t, next
  <2>3. CASE i # 1
    <3>1. i - 1 \in 1 .. Len(t) /\ t[i - 1].value[s] = v
      BY <1>1, <2>1, <2>3
    <3>2. ASSUME NEW j \in ((i - 1) + 1) .. Len(t) PROVE t[j].value[s] = Absent
      <4>1. j \in 1 .. Len(t) /\ j + 1 \in (i + 1) .. Len(w)
        BY <1>1, <2>1
      <4> QED BY <1>1, <2>1, <4>1
    <3> QED BY <2>1, <3>1, <3>2 DEF EndsWith, t, next
  <2> QED BY <2>2, <2>3
<1>4. CASE (\A i \in 1 .. Len(w) : w[i].value[s] = Absent) /\ state[s] = v
  <2>1. (\A i \in 1 .. Len(t) : t[i].value[s] = Absent) /\ next[s] = v
    BY <1>1, <1>2, <1>4
  <2> QED BY <2>1 DEF EndsWith, t, next
<1> QED BY <1>3, <1>4 DEF EndsWith

-----------------------------------------------------------------------------
(* The stream agrees with the stores *)

(* A store that is ready was updated at least once. *)
ReadyMeansUpdated == \A s \in Stores : ready[s] => version[s] # Absent

AgreementInv == TypeOK /\ ReadyMeansUpdated /\ StreamAgreesWithStore

LEMMA ReadyMeansUpdatedStep == TypeOK /\ ReadyMeansUpdated /\ [Next]_vars => ReadyMeansUpdated'
<1> SUFFICES ASSUME TypeOK, ReadyMeansUpdated, [Next]_vars PROVE ReadyMeansUpdated'
  OBVIOUS
<1>1. ASSUME NEW s \in Stores, NEW r \in Readiness, UpdateState(s, r) PROVE ReadyMeansUpdated'
  <2>1. \A t \in Stores : version'[t] = IF t = s THEN version[t] + 1 ELSE version[t]
    BY <1>1 DEF UpdateState, TypeOK
  <2>2. \A t \in Stores \ {s} : ready'[t] = ready[t]
    BY <1>1 DEF UpdateState, TypeOK
  <2>3. version[s] + 1 # Absent
    BY BoundsAssumption DEF TypeOK
  <2> QED BY <2>1, <2>2, <2>3 DEF ReadyMeansUpdated
<1>2. CASE UNCHANGED storeVars
  BY <1>2 DEF storeVars, ReadyMeansUpdated
<1> QED BY <1>1, <1>2 DEF Next, vars, storeVars, HandleNewConnection, ClientSends,
            HandleTextMessage, HandleBinaryMessage, CloseTimeout, Disconnected,
            PeerLeaves, ClientReceives

(* A send of m to c: everyone who ended with v of s still does, when m     *)
(* does not carry s or the socket is not open.                             *)
LEMMA SendKeepsEnd ==
  ASSUME TypeOK, NEW c \in Sockets, NEW m \in Messages, Send(c, m),
         NEW d \in Sockets, NEW s \in Stores, NEW v \in Versions,
         d = c => m.value[s] = Absent,
         EndsWith(wire[d], view[d], s, v)
  PROVE  EndsWith(wire'[d], view[d], s, v)
<1>1. wire'[d] = IF d = c THEN Sent(c, m) ELSE wire[d]
  BY DEF Send, TypeOK
<1>2. wire[d] \in Seq(Messages) /\ view[d] \in [Stores -> Versions]
  BY DEF TypeOK
<1> QED BY <1>1, <1>2, EndsWithAppendOther DEF Sent

LEMMA AgreementStep == AgreementInv /\ [Next]_vars => StreamAgreesWithStore'
<1> SUFFICES ASSUME AgreementInv, [Next]_vars,
                    NEW c \in fullStateSent', NEW s \in Stores, conn'[c] = "open", ready'[s]
             PROVE  EndsWith(wire'[c], view'[c], s, version'[s])
  BY DEF StreamAgreesWithStore
<1>0. TypeOK /\ TypeOK' /\ c \in Sockets
  BY TypeStep DEF AgreementInv, TypeOK
<1> DEFINE Held == c \in fullStateSent /\ conn[c] = "open" /\ ready[s]
                   /\ version'[s] = version[s]
<1>a. Held => EndsWith(wire[c], view[c], s, version'[s])
  BY DEF AgreementInv, StreamAgreesWithStore
<1>b. wire[c] \in Seq(Messages) /\ view[c] \in [Stores -> Versions] /\ version'[s] \in Versions
  BY <1>0 DEF TypeOK
<1> HIDE DEF Held
<1>1. ASSUME NEW t \in Stores, NEW r \in Readiness, UpdateState(t, r)
      PROVE  EndsWith(wire'[c], view'[c], s, version'[s])
  <2>1. version' \in [Stores -> Versions] /\ ready' \in [Stores -> BOOLEAN] /\ view' = view
        /\ conn' = conn
    BY <1>1, UpdateTypes, <1>0 DEF UpdateState
  <2>2. Broadcast(t, ready', version')
    BY <1>1 DEF UpdateState
  <2>3. ready'[s] /\ version'[s] # Absent
    BY <1>0, ReadyMeansUpdatedStep DEF AgreementInv, ReadyMeansUpdated
  <2>4. s # t => ready[s] /\ version'[s] = version[s]
    BY <1>1, <1>0 DEF UpdateState, TypeOK
  <2>5. /\ Patch(t, version') \in Messages /\ FullState(ready', version') \in Messages
        /\ FullState(ready', version').value[s] = version'[s]
        /\ Patch(t, version').value[s] = IF s = t THEN version'[s] ELSE Absent
    BY <2>1, <2>3, MessageTypes DEF FullState, Patch
  <2>6. CASE c \in fullStateSent /\ ready'[t]
    <3>1. wire'[c] = Append(wire[c], Patch(t, version'))
      BY <2>1, <2>2, <2>6, <1>0 DEF Broadcast, Sent
    <3>2. CASE s = t
      BY <3>1, <3>2, <2>1, <2>3, <2>5, <1>b, EndsWithAppendCarrier
    <3>3. CASE s # t
      BY <3>1, <3>3, <2>1, <2>4, <2>5, <2>6, <1>a, <1>b, EndsWithAppendOther DEF Held
    <3> QED BY <3>2, <3>3
  <2>7. CASE c \in fullStateSent /\ ~ready'[t]
    <3>1. wire'[c] = wire[c] /\ s # t
      BY <2>2, <2>7, <1>0 DEF Broadcast
    <3> QED BY <3>1, <2>1, <2>4, <2>7, <1>a DEF Held
  <2>8. CASE c \notin fullStateSent
    <3>1. wire'[c] = Append(wire[c], FullState(ready', version'))
      BY <2>1, <2>2, <2>8, <1>0 DEF Broadcast, Sent
    <3> QED BY <3>1, <2>1, <2>3, <2>5, <1>b, EndsWithAppendCarrier
  <2> QED BY <2>6, <2>7, <2>8
<1>2. ASSUME NEW d \in Sockets, HandleNewConnection(d)
      PROVE  EndsWith(wire'[c], view'[c], s, version'[s])
  <2>1. c # d
    BY <1>0, <1>2 DEF HandleNewConnection, TypeOK
  <2>2. wire'[c] = wire[c] /\ view' = view /\ Held
    BY <1>0, <1>2, <2>1 DEF HandleNewConnection, TypeOK, storeVars, Held
  <2> QED BY <1>a, <2>2
<1>3. ASSUME NEW d \in Sockets, NEW f \in Frames, ClientSends(d, f)
      PROVE  EndsWith(wire'[c], view'[c], s, version'[s])
  <2>1. wire' = wire /\ view' = view /\ Held
    BY <1>3 DEF ClientSends, storeVars, sessionVars, Held
  <2> QED BY <1>a, <2>1
<1>4. ASSUME NEW d \in Sockets, HandleTextMessage(d)
      PROVE  EndsWith(wire'[c], view'[c], s, version'[s])
  <2>1. UNCHANGED <<storeVars, conn, view>>
    BY <1>4 DEF HandleTextMessage
  <2>2. CASE Send(d, ErrorMessage) /\ UNCHANGED fullStateSent
    <3>1. Held /\ ErrorMessage.value[s] = Absent
      BY <2>1, <2>2 DEF storeVars, Held, ErrorMessage, Nothing
    <3> QED BY <3>1, <2>1, <2>2, <1>0, <1>a, <1>b, ErrorType, SendKeepsEnd
  <2>3. CASE SendFullState(d)
    <3>1. /\ FullState(ready, version) \in Messages
          /\ FullState(ready, version).value[s] = version[s]
          /\ version[s] # Absent
      BY <2>1, <1>0, MessageTypes DEF FullState, TypeOK, storeVars, AgreementInv, ReadyMeansUpdated
    <3>2. wire'[c] = IF c = d THEN Append(wire[c], FullState(ready, version)) ELSE wire[c]
      BY <2>1, <2>3, <1>0 DEF SendFullState, Send, Sent, TypeOK
    <3>3. CASE c = d
      BY <3>1, <3>2, <3>3, <2>1, <1>b, EndsWithAppendCarrier DEF storeVars
    <3>4. CASE c # d
      <4>1. Held
        BY <2>1, <2>3, <3>4 DEF storeVars, Held, SendFullState
      <4> QED BY <4>1, <3>2, <3>4, <2>1, <1>a
    <3> QED BY <3>3, <3>4
  <2> QED BY <1>4, <2>2, <2>3 DEF HandleTextMessage, Fail
<1>5. ASSUME NEW d \in Sockets, HandleBinaryMessage(d)
      PROVE  EndsWith(wire'[c], view'[c], s, version'[s])
  <2>1. Held /\ ErrorMessage.value[s] = Absent /\ view' = view /\ Send(d, ErrorMessage)
    BY <1>5 DEF HandleBinaryMessage, storeVars, Held, ErrorMessage, Nothing, Fail
  <2> QED BY <2>1, <1>0, <1>a, <1>b, ErrorType, SendKeepsEnd
<1>6. ASSUME NEW d \in Sockets, CloseTimeout(d)
      PROVE  EndsWith(wire'[c], view'[c], s, version'[s])
  <2>1. conn[c] = "open"
    BY <1>0, <1>6 DEF CloseTimeout, TypeOK
  <2>2. wire' = wire /\ view' = view /\ Held
    BY <1>6, <2>1 DEF CloseTimeout, storeVars, Held
  <2> QED BY <1>a, <2>2
<1>7. ASSUME NEW d \in Sockets, Disconnected(d)
      PROVE  EndsWith(wire'[c], view'[c], s, version'[s])
  <2>1. conn[c] = "open"
    BY <1>0, <1>7 DEF Disconnected, TypeOK
  <2>2. wire' = wire /\ view' = view /\ Held
    BY <1>7, <2>1 DEF Disconnected, storeVars, Held
  <2> QED BY <1>a, <2>2
<1>8. ASSUME NEW d \in Sockets, PeerLeaves(d)
      PROVE  EndsWith(wire'[c], view'[c], s, version'[s])
  <2>1. c # d
    BY <1>0, <1>8 DEF PeerLeaves, TypeOK
  <2>2. wire'[c] = wire[c] /\ view' = view /\ Held
    BY <1>0, <1>8, <2>1 DEF PeerLeaves, TypeOK, storeVars, sessionVars, Held
  <2> QED BY <1>a, <2>2
<1>9. ASSUME NEW d \in Sockets, ClientReceives(d)
      PROVE  EndsWith(wire'[c], view'[c], s, version'[s])
  <2>1. Held
    BY <1>9 DEF ClientReceives, storeVars, sessionVars, Held
  <2>2. CASE c = d
    <3>1. wire'[c] = Tail(wire[c]) /\ view'[c] = ApplyBackendMessage(view[c], Head(wire[c]))
          /\ wire[c] # <<>>
      BY <1>0, <1>9, <2>2 DEF ClientReceives, TypeOK
    <3> QED BY <3>1, <2>1, <1>a, <1>b, EndsWithReceive
  <2>3. CASE c # d
    <3>1. wire'[c] = wire[c] /\ view'[c] = view[c]
      BY <1>0, <1>9, <2>3 DEF ClientReceives, TypeOK
    <3> QED BY <3>1, <2>1, <1>a
  <2> QED BY <2>2, <2>3
<1>10. CASE UNCHANGED vars
  <2>1. wire' = wire /\ view' = view /\ Held
    BY <1>10 DEF vars, Held
  <2> QED BY <1>a, <2>1
<1> QED BY <1>1, <1>2, <1>3, <1>4, <1>5, <1>6, <1>7, <1>8, <1>9, <1>10 DEF Next

(* For every set of stores and clients and whatever readiness the stores   *)
(* report: a client that stays connected ends with exactly the content of  *)
(* every ready store once it has read what was sent to it.                 *)
THEOREM StreamAgreement == Spec => []StreamAgreesWithStore
<1>1. Init => AgreementInv
  BY TypeInit DEF Init, AgreementInv, ReadyMeansUpdated, StreamAgreesWithStore
<1>2. AgreementInv /\ [Next]_vars => AgreementInv'
  BY TypeStep, ReadyMeansUpdatedStep, AgreementStep DEF AgreementInv
<1>3. AgreementInv => StreamAgreesWithStore
  BY DEF AgreementInv
<1> QED BY <1>1, <1>2, <1>3, PTL DEF Spec

-----------------------------------------------------------------------------
(* No hello is forgotten *)

HelloInv == TypeOK /\ HelloServedOnceReady

LEMMA HelloStep == HelloInv /\ [Next]_vars => HelloServedOnceReady'
<1> SUFFICES ASSUME HelloInv, [Next]_vars, ConfiguredStateReady(ready')
             PROVE  helloReceived' \subseteq fullStateSent'
  BY DEF HelloServedOnceReady, ConfiguredStateReady
<1>0. TypeOK /\ (ConfiguredStateReady(ready) => helloReceived \subseteq fullStateSent)
  BY DEF HelloInv, HelloServedOnceReady
<1>1. ASSUME NEW s \in Stores, NEW r \in Readiness, UpdateState(s, r)
      PROVE  helloReceived' \subseteq fullStateSent'
  BY <1>1 DEF UpdateState, Broadcast, ConfiguredStateReady
<1>2. ASSUME NEW c \in Sockets, HandleTextMessage(c)
      PROVE  helloReceived' \subseteq fullStateSent'
  BY <1>0, <1>2 DEF HandleTextMessage, SendFullState, storeVars
<1>3. ASSUME NEW c \in Sockets, Disconnected(c)
      PROVE  helloReceived' \subseteq fullStateSent'
  BY <1>0, <1>3 DEF Disconnected, storeVars
<1>4. CASE UNCHANGED <<storeVars, helloReceived, fullStateSent>>
  BY <1>0, <1>4 DEF storeVars
<1> QED BY <1>1, <1>2, <1>3, <1>4 DEF Next, vars, storeVars, sessionVars, HandleNewConnection,
            ClientSends, HandleBinaryMessage, CloseTimeout, PeerLeaves, ClientReceives

(* Whatever the order of hellos, readiness changes and disconnections,     *)
(* no greeted session waits for its full state while every store is ready. *)
THEOREM HelloServed == Spec => []HelloServedOnceReady
<1>1. Init => HelloInv
  BY TypeInit DEF Init, HelloInv, HelloServedOnceReady
<1>2. HelloInv /\ [Next]_vars => HelloInv'
  BY TypeStep, HelloStep DEF HelloInv
<1>3. HelloInv => HelloServedOnceReady
  BY DEF HelloInv
<1> QED BY <1>1, <1>2, <1>3, PTL DEF Spec

-----------------------------------------------------------------------------
(* What is on the wire *)

(* What a message of each type carries: everything, one store, nothing. *)
Shaped(m) ==
  /\ m.type = "fullState" => Stores # {} /\ \A s \in Stores : m.value[s] # Absent
  /\ m.type = "patch" => \E s \in Stores : m.value[s] # Absent
                                           /\ \A t \in Stores \ {s} : m.value[t] = Absent
  /\ m.type = "error" => ~IsCarrier(m)

(* Each store only advances: from what the reader knows, along the         *)
(* messages, up to the version of the store.                               *)
Advancing(w, state, ver) ==
  \A s \in Stores :
    /\ state[s] <= ver[s]
    /\ \A i \in 1 .. Len(w) :
         w[i].value[s] # Absent =>
           /\ state[s] < w[i].value[s]
           /\ w[i].value[s] <= ver[s]
           /\ \A j \in 1 .. (i - 1) : w[j].value[s] < w[i].value[s]

Channel(w, state, ver) ==
  /\ \A i \in 1 .. Len(w) : Shaped(w[i])
  /\ FullStateFirst(w, state)
  /\ Advancing(w, state, ver)

Unserved(w, state) == state = Nothing /\ \A i \in 1 .. Len(w) : ~IsCarrier(w[i])

Served(w, state) ==
  \/ \A s \in Stores : state[s] # Absent
  \/ \E i \in 1 .. Len(w) : w[i].type = "fullState"

(* The inductive invariant: every channel is in order, one that was not    *)
(* served has nothing on it, one that was has its full state, or had it.   *)
WireInv ==
  /\ TypeOK
  /\ ReadyMeansUpdated
  /\ \A c \in Sockets :
       /\ Channel(wire[c], view[c], version)
       /\ c \notin fullStateSent /\ conn[c] # "gone" => Unserved(wire[c], view[c])
       /\ c \in fullStateSent /\ conn[c] = "open" => Served(wire[c], view[c])

(* Versions are numbers. *)
LEMMA Numbers ==
  ASSUME NEW state \in [Stores -> Versions], NEW w \in Seq(Messages), NEW s \in Stores
  PROVE  state[s] \in Nat /\ \A i \in 1 .. Len(w) : w[i] \in Messages /\ w[i].value[s] \in Nat
<1>1. state[s] \in Nat
  BY BoundsAssumption
<1>2. ASSUME NEW i \in 1 .. Len(w) PROVE w[i] \in Messages /\ w[i].value[s] \in Nat
  <2>1. w[i] \in Messages
    OBVIOUS
  <2>2. w[i].value[s] \in Versions
    BY <2>1 DEF Messages
  <2> QED BY <2>1, <2>2, BoundsAssumption
<1> QED BY <1>1, <1>2

(* Appending an error, or any message that carries nothing, keeps order. *)
LEMMA ChannelAppendQuiet ==
  ASSUME NEW w \in Seq(Messages), NEW m \in Messages, NEW state \in [Stores -> Versions],
         NEW ver \in [Stores -> Versions], m.type = "error", m.value = Nothing,
         Channel(w, state, ver)
  PROVE  Channel(Append(w, m), state, ver)
<1> DEFINE a == Append(w, m)
<1>1. Len(w) \in Nat /\ Len(a) = Len(w) + 1 /\ a[Len(w) + 1] = m
      /\ \A i \in 1 .. Len(w) : a[i] = w[i]
  OBVIOUS
<1>a. (\A i \in 1 .. Len(w) : Shaped(w[i])) /\ Advancing(w, state, ver)
  BY DEF Channel
<1>b. \A i \in 1 .. Len(a) : i \in 1 .. Len(w) \/ a[i] = m
  BY <1>1
<1> HIDE DEF a
<1>2. \A i \in 1 .. Len(a) : Shaped(a[i])
  <2>1. Shaped(m)
    BY DEF Shaped, IsCarrier
  <2> QED BY <1>1, <1>a, <1>b, <2>1
<1>3. FullStateFirst(a, state)
  <2>1. FullStateFirst(w, state) /\ ~IsCarrier(m)
    BY DEF Channel, IsCarrier
  <2>2. \A i \in 1 .. Len(w) : a[i] = w[i] /\ \A j \in 1 .. (i - 1) : a[j] = w[j]
    BY <1>1
  <2>3. ASSUME NEW i \in 1 .. Len(a), IsCarrier(a[i])
        PROVE  \/ /\ a[i].type = "fullState"
                  /\ \A t \in Stores : a[i].value[t] # Absent /\ state[t] = Absent
                  /\ \A j \in 1 .. (i - 1) : ~IsCarrier(a[j])
               \/ /\ a[i].type = "patch"
                  /\ \/ \A t \in Stores : state[t] # Absent
                     \/ \E j \in 1 .. (i - 1) : a[j].type = "fullState"
    <3>1. i \in 1 .. Len(w)
      BY <1>b, <2>1, <2>3
    <3>2. a[i] = w[i] /\ \A j \in 1 .. (i - 1) : a[j] = w[j]
      BY <2>2, <3>1
    <3>3. \/ /\ w[i].type = "fullState"
             /\ \A t \in Stores : w[i].value[t] # Absent /\ state[t] = Absent
             /\ \A j \in 1 .. (i - 1) : ~IsCarrier(w[j])
          \/ /\ w[i].type = "patch"
             /\ \/ \A t \in Stores : state[t] # Absent
                \/ \E j \in 1 .. (i - 1) : w[j].type = "fullState"
      BY <2>1, <2>3, <3>1, <3>2 DEF FullStateFirst
    <3> QED BY <3>2, <3>3
  <2> QED BY <2>3 DEF FullStateFirst
<1>4. Advancing(a, state, ver)
  <2>1. \A s \in Stores : m.value[s] = Absent
    BY DEF Nothing
  <2>2. \A s \in Stores : \A i \in 1 .. Len(a) : a[i].value[s] # Absent => i \in 1 .. Len(w)
    BY <1>b, <2>1
  <2>3. \A i \in 1 .. Len(w) : a[i] = w[i] /\ \A j \in 1 .. (i - 1) : a[j] = w[j]
    BY <1>1
  <2> QED BY <1>a, <2>2, <2>3 DEF Advancing
<1> QED BY <1>2, <1>3, <1>4 DEF Channel, a

(* A newer content of one store follows what a served reader has. *)
LEMMA ChannelAppendPatch ==
  ASSUME NEW w \in Seq(Messages), NEW m \in Messages, NEW state \in [Stores -> Versions],
         NEW ver \in [Stores -> Versions], m.type = "patch",
         NEW s \in Stores, \A t \in Stores \ {s} : m.value[t] = Absent,
         NEW new \in [Stores -> Versions], \A t \in Stores \ {s} : new[t] = ver[t],
         m.value[s] = new[s], ver[s] < new[s],
         Channel(w, state, ver), Served(w, state)
  PROVE  Channel(Append(w, m), state, new)
<1> DEFINE a == Append(w, m)
<1>1. Len(w) \in Nat /\ Len(a) = Len(w) + 1 /\ a[Len(w) + 1] = m
      /\ \A i \in 1 .. Len(w) : a[i] = w[i] /\ w[i] \in Messages
  OBVIOUS
<1>a. (\A i \in 1 .. Len(w) : Shaped(w[i])) /\ FullStateFirst(w, state) /\ Advancing(w, state, ver)
  BY DEF Channel
<1>b. \A i \in 1 .. Len(a) : i \in 1 .. Len(w) \/ i = Len(w) + 1
  BY <1>1
<1> HIDE DEF a
<1>0. m.value[s] # Absent
  BY BoundsAssumption
<1>2. \A i \in 1 .. Len(a) : Shaped(a[i])
  <2>1. Shaped(m)
    BY <1>0 DEF Shaped
  <2> QED BY <1>1, <1>a, <1>b, <2>1
<1>3. FullStateFirst(a, state)
  <2>1. \/ \A t \in Stores : state[t] # Absent
        \/ \E j \in 1 .. (Len(a) - 1) : a[j].type = "fullState"
    <3>1. Len(a) - 1 = Len(w)
      BY <1>1
    <3> QED BY <1>1, <3>1 DEF Served
  <2>2. \A i \in 1 .. Len(w) : a[i] = w[i] /\ \A j \in 1 .. (i - 1) : a[j] = w[j]
    BY <1>1
  <2>3. \A i \in 1 .. Len(a) : i \in 1 .. Len(w) \/ (i = Len(a) /\ a[i] = m)
    BY <1>1, <1>b
  <2>4. ASSUME NEW i \in 1 .. Len(a), IsCarrier(a[i])
        PROVE  \/ /\ a[i].type = "fullState"
                  /\ \A t \in Stores : a[i].value[t] # Absent /\ state[t] = Absent
                  /\ \A j \in 1 .. (i - 1) : ~IsCarrier(a[j])
               \/ /\ a[i].type = "patch"
                  /\ \/ \A t \in Stores : state[t] # Absent
                     \/ \E j \in 1 .. (i - 1) : a[j].type = "fullState"
    <3>1. CASE i \in 1 .. Len(w)
      <4>1. a[i] = w[i] /\ \A j \in 1 .. (i - 1) : a[j] = w[j]
        BY <2>2, <3>1
      <4>2. \/ /\ w[i].type = "fullState"
               /\ \A t \in Stores : w[i].value[t] # Absent /\ state[t] = Absent
               /\ \A j \in 1 .. (i - 1) : ~IsCarrier(w[j])
            \/ /\ w[i].type = "patch"
               /\ \/ \A t \in Stores : state[t] # Absent
                  \/ \E j \in 1 .. (i - 1) : w[j].type = "fullState"
        BY <1>a, <2>4, <3>1, <4>1 DEF FullStateFirst
      <4> QED BY <4>1, <4>2
    <3>2. CASE i = Len(a) /\ a[i] = m
      BY <2>1, <3>2
    <3> QED BY <2>3, <3>1, <3>2
  <2> QED BY <2>4 DEF FullStateFirst
<1>4. Advancing(a, state, new)
  <2>1. ASSUME NEW t \in Stores PROVE state[t] <= new[t] /\ ver[t] <= new[t]
    <3>1. state[t] \in Nat /\ ver[t] \in Nat /\ new[t] \in Nat
      BY Numbers
    <3>2. state[t] <= ver[t]
      BY <1>a DEF Advancing
    <3>3. ver[t] = new[t] \/ ver[t] < new[t]
      OBVIOUS
    <3> QED BY <3>1, <3>2, <3>3
  <2>2. ASSUME NEW t \in Stores, NEW i \in 1 .. Len(w), w[i].value[t] # Absent
        PROVE  /\ state[t] < a[i].value[t]
               /\ a[i].value[t] <= new[t]
               /\ \A j \in 1 .. (i - 1) : a[j].value[t] < a[i].value[t]
    <3>1. a[i] = w[i] /\ \A j \in 1 .. (i - 1) : a[j] = w[j]
      BY <1>1
    <3>2. /\ state[t] < w[i].value[t]
          /\ w[i].value[t] <= ver[t]
          /\ \A j \in 1 .. (i - 1) : w[j].value[t] < w[i].value[t]
      BY <2>2 DEF Channel, Advancing
    <3>3. w[i].value[t] \in Nat /\ ver[t] \in Nat /\ new[t] \in Nat /\ ver[t] <= new[t]
      BY <2>1, Numbers
    <3>4. w[i].value[t] <= new[t]
      BY <3>2, <3>3
    <3> QED BY <3>1, <3>2, <3>4
  <2>3. ASSUME NEW t \in Stores, m.value[t] # Absent
        PROVE  /\ state[t] < m.value[t]
               /\ m.value[t] <= new[t]
               /\ \A j \in 1 .. Len(w) : a[j].value[t] < m.value[t]
    <3>1. t = s
      BY <2>3
    <3>2. ver[t] \in Nat /\ new[t] \in Nat /\ state[t] \in Nat /\ state[t] <= ver[t]
      BY Numbers, <1>a DEF Advancing
    <3>3. ASSUME NEW j \in 1 .. Len(w) PROVE a[j].value[t] < m.value[t]
      <4>1. a[j] = w[j] /\ w[j].value[t] \in Nat
        BY <1>1, Numbers
      <4>2. w[j].value[t] <= ver[t]
        <5>1. w[j].value[t] # Absent => w[j].value[t] <= ver[t]
          BY <1>a DEF Advancing
        <5> QED BY <3>2, <5>1
      <4> QED BY <3>1, <3>2, <4>1, <4>2
    <3> QED BY <3>1, <3>2, <3>3
  <2>4. ASSUME NEW t \in Stores, NEW i \in 1 .. Len(a), a[i].value[t] # Absent
        PROVE  /\ state[t] < a[i].value[t]
               /\ a[i].value[t] <= new[t]
               /\ \A j \in 1 .. (i - 1) : a[j].value[t] < a[i].value[t]
    <3>1. CASE i \in 1 .. Len(w)
      BY <1>1, <2>2, <2>4, <3>1
    <3>2. CASE i = Len(w) + 1
      BY <1>1, <2>3, <2>4, <3>2
    <3> QED BY <1>b, <3>1, <3>2
  <2> QED BY <2>1, <2>4 DEF Advancing
<1> QED BY <1>2, <1>3, <1>4 DEF Channel, a

(* A full state starts a reader that knows nothing. *)
LEMMA ChannelAppendFull ==
  ASSUME NEW w \in Seq(Messages), NEW m \in Messages, NEW state, NEW new \in [Stores -> Versions],
         m.type = "fullState", Stores # {}, \A t \in Stores : m.value[t] = new[t],
         \A t \in Stores : new[t] # Absent,
         Unserved(w, state), \A i \in 1 .. Len(w) : Shaped(w[i])
  PROVE  Channel(Append(w, m), state, new) /\ Served(Append(w, m), state)
<1> DEFINE a == Append(w, m)
<1>1. Len(w) \in Nat /\ Len(a) = Len(w) + 1 /\ a[Len(w) + 1] = m
      /\ \A i \in 1 .. Len(w) : a[i] = w[i]
  OBVIOUS
<1> HIDE DEF a
<1>2. /\ \A t \in Stores : state[t] = Absent
      /\ \A i \in 1 .. Len(w) : ~IsCarrier(w[i]) /\ \A t \in Stores : w[i].value[t] = Absent
  BY DEF Unserved, IsCarrier, Nothing
<1>3. \A i \in 1 .. Len(a) : Shaped(a[i])
  <2>1. \A i \in 1 .. Len(a) : i \in 1 .. Len(w) \/ a[i] = m
    BY <1>1
  <2>2. Shaped(m)
    BY DEF Shaped
  <2> QED BY <1>1, <2>1, <2>2
<1>4. FullStateFirst(a, state)
  BY <1>1, <1>2 DEF FullStateFirst
<1>5. Advancing(a, state, new)
  BY <1>1, <1>2, BoundsAssumption DEF Advancing
<1>6. Served(a, state)
  BY <1>1 DEF Served
<1> QED BY <1>3, <1>4, <1>5, <1>6 DEF Channel, a

(* A store that advances leaves the channels in order. *)
LEMMA ChannelGrows ==
  ASSUME NEW w \in Seq(Messages), NEW state \in [Stores -> Versions],
         NEW ver \in [Stores -> Versions], NEW new \in [Stores -> Versions],
         \A s \in Stores : ver[s] <= new[s], Channel(w, state, ver)
  PROVE  Channel(w, state, new)
<1>1. ASSUME NEW s \in Stores, NEW i \in 1 .. Len(w), w[i].value[s] # Absent
      PROVE  w[i].value[s] <= new[s]
  <2>1. w[i].value[s] \in Nat /\ ver[s] \in Nat /\ new[s] \in Nat
    BY Numbers
  <2>2. w[i].value[s] <= ver[s]
    BY <1>1 DEF Channel, Advancing
  <2> QED BY <2>1, <2>2
<1>2. ASSUME NEW s \in Stores PROVE state[s] <= new[s]
  BY BoundsAssumption DEF Channel, Advancing
<1> QED BY <1>1, <1>2 DEF Channel, Advancing

(* What reading m shows a client that goes from state to next: nothing     *)
(* new, all stores at once, or one store advancing.                        *)
Shown(m, state, next, ver) ==
  \/ ~IsCarrier(m) /\ next = state
  \/ /\ IsCarrier(m) /\ m.type = "fullState"
     /\ state = Nothing
     /\ \A s \in Stores : next[s] \in 1 .. ver[s]
  \/ /\ IsCarrier(m) /\ m.type = "patch"
     /\ \A s \in Stores : state[s] # Absent /\ next[s] # Absent
     /\ \E s \in Stores : /\ next = [state EXCEPT ![s] = next[s]]
                           /\ next[s] \in (state[s] + 1) .. ver[s]

LEMMA Reading ==
  ASSUME NEW w \in Seq(Messages), w # <<>>, NEW state \in [Stores -> Versions],
         NEW ver \in [Stores -> Versions], Channel(w, state, ver),
         NEW next, next = ApplyBackendMessage(state, Head(w))
  PROVE  Shown(Head(w), state, next, ver)
<1> DEFINE m == Head(w)
<1>1. Len(w) \in Nat \ {0} /\ m = w[1] /\ m \in Messages
  OBVIOUS
<1>2. next = [s \in Stores |-> IF m.value[s] # Absent THEN m.value[s] ELSE state[s]]
  BY DEF ApplyBackendMessage
<1>3. m.value \in [Stores -> Versions]
  BY <1>1 DEF Messages
<1>4. Shaped(m) /\ 1 \in 1 .. Len(w) /\ 1 .. (1 - 1) = {}
  BY <1>1 DEF Channel
<1>5. \A s \in Stores : m.value[s] # Absent => state[s] < m.value[s] /\ m.value[s] <= ver[s]
  BY <1>1, <1>4 DEF Channel, Advancing
<1> HIDE DEF m
<1>6. CASE ~IsCarrier(m)
  BY <1>2, <1>6 DEF IsCarrier, Nothing, Shown, m
<1>7. CASE IsCarrier(m) /\ m.type = "fullState" /\ \A s \in Stores : m.value[s] # Absent /\ state[s] = Absent
  <2>1. state = Nothing
    BY <1>7 DEF Nothing
  <2>2. ASSUME NEW s \in Stores PROVE next[s] \in 1 .. ver[s]
    BY <1>2, <1>3, <1>5, <1>7, BoundsAssumption
  <2> QED BY <1>7, <2>1, <2>2 DEF Shown, m
<1>8. CASE IsCarrier(m) /\ m.type = "patch" /\ \A s \in Stores : state[s] # Absent
  <2>1. PICK s \in Stores : m.value[s] # Absent /\ \A t \in Stores \ {s} : m.value[t] = Absent
    BY <1>4, <1>8 DEF Shaped
  <2>2. next = [state EXCEPT ![s] = next[s]]
    <3>1. /\ next \in [Stores -> Versions] /\ next[s] = m.value[s]
          /\ \A t \in Stores \ {s} : next[t] = state[t]
      BY <1>1, <1>2, <1>3, <2>1
    <3> QED BY <3>1
  <2>3. next[s] \in (state[s] + 1) .. ver[s]
    BY <1>2, <1>3, <1>5, <2>1, BoundsAssumption
  <2>4. \A t \in Stores : next[t] # Absent
    BY <1>2, <1>8
  <2> QED BY <1>8, <2>2, <2>3, <2>4 DEF Shown, m
<1> QED BY <1>1, <1>4, <1>6, <1>7, <1>8 DEF Channel, FullStateFirst

(* Reading keeps the channel in order, and a served reader stays served. *)
LEMMA ChannelReceive ==
  ASSUME NEW w \in Seq(Messages), w # <<>>, NEW state \in [Stores -> Versions],
         NEW ver \in [Stores -> Versions], Channel(w, state, ver)
  PROVE  LET next == ApplyBackendMessage(state, Head(w)) IN
         /\ Channel(Tail(w), next, ver)
         /\ Unserved(w, state) => Unserved(Tail(w), next)
         /\ Served(w, state) => Served(Tail(w), next)
<1> DEFINE m == Head(w)
           t == Tail(w)
           next == ApplyBackendMessage(state, m)
<1>1. /\ Len(w) \in Nat \ {0} /\ m = w[1] /\ Len(t) = Len(w) - 1
      /\ \A i \in 1 .. Len(t) : t[i] = w[i + 1] /\ i + 1 \in 1 .. Len(w)
      /\ \A i \in 1 .. Len(w) : w[i] \in Messages
  OBVIOUS
<1>2. /\ next \in [Stores -> Versions]
      /\ \A s \in Stores : next[s] = IF m.value[s] # Absent THEN m.value[s] ELSE state[s]
  BY <1>1, ApplyType DEF ApplyBackendMessage
<1>3. \/ ~IsCarrier(m) /\ next = state
      \/ IsCarrier(m) /\ m.type = "fullState" /\ \A s \in Stores : next[s] # Absent
      \/ IsCarrier(m) /\ m.type = "patch" /\ \A s \in Stores : state[s] # Absent /\ next[s] # Absent
  <2> HIDE DEF next
  <2>1. Shown(m, state, next, ver)
    BY Reading DEF next
  <2>2. \A s \in Stores : next[s] \in 1 .. ver[s] => next[s] # Absent
    OBVIOUS
  <2> QED BY <2>1, <2>2 DEF Shown
<1> HIDE DEF m, t, next
<1>4. \A i \in 1 .. Len(t) : Shaped(t[i])
  BY <1>1 DEF Channel
<1>5. FullStateFirst(t, next)
  <2> SUFFICES ASSUME NEW i \in 1 .. Len(t), IsCarrier(t[i])
               PROVE  \/ /\ t[i].type = "fullState"
                         /\ \A s \in Stores : t[i].value[s] # Absent /\ next[s] = Absent
                         /\ \A j \in 1 .. (i - 1) : ~IsCarrier(t[j])
                      \/ /\ t[i].type = "patch"
                         /\ \/ \A s \in Stores : next[s] # Absent
                            \/ \E j \in 1 .. (i - 1) : t[j].type = "fullState"
    BY DEF FullStateFirst
  <2>1. t[i] = w[i + 1] /\ i + 1 \in 1 .. Len(w) /\ (i + 1) - 1 = i /\ 1 \in 1 .. i
        /\ \A j \in 1 .. (i - 1) : t[j] = w[j + 1] /\ j + 1 \in 1 .. i
    BY <1>1
  <2>2. CASE ~IsCarrier(m) /\ next = state
    <3>1. m.type # "fullState"
      BY <1>1, <2>2 DEF Channel, Shaped, IsCarrier, Nothing
    <3>2. CASE w[i + 1].type = "fullState"
      BY <1>1, <2>1, <2>2, <3>2 DEF Channel, FullStateFirst
    <3>3. CASE w[i + 1].type = "patch" /\ \E j \in 1 .. i : w[j].type = "fullState"
      <4>1. PICK j \in 1 .. i : w[j].type = "fullState"
        BY <3>3
      <4>2. j # 1
        BY <1>1, <3>1, <4>1
      <4>3. j - 1 \in 1 .. (i - 1) /\ t[j - 1] = w[j]
        BY <1>1, <2>1, <4>2
      <4> QED BY <2>1, <3>3, <4>1, <4>3
    <3>4. CASE w[i + 1].type = "patch" /\ \A s \in Stores : state[s] # Absent
      BY <2>1, <2>2, <3>4
    <3> QED BY <2>1, <3>2, <3>3, <3>4 DEF Channel, FullStateFirst
  <2>3. CASE IsCarrier(m) /\ \A s \in Stores : next[s] # Absent
    <3>1. ~(\A j \in 1 .. i : ~IsCarrier(w[j]))
      BY <1>1, <2>1, <2>3
    <3> QED BY <2>1, <2>3, <3>1 DEF Channel, FullStateFirst
  <2> QED BY <1>3, <2>2, <2>3
<1>6. Advancing(t, next, ver)
  <2>1. ASSUME NEW s \in Stores PROVE next[s] <= ver[s]
    <3>1. 1 \in 1 .. Len(w)
      BY <1>1
    <3>2. state[s] <= ver[s] /\ (w[1].value[s] # Absent => w[1].value[s] <= ver[s])
      BY <3>1 DEF Channel, Advancing
    <3> QED BY <1>1, <1>2, <3>2
  <2>2. ASSUME NEW s \in Stores, NEW i \in 1 .. Len(t), t[i].value[s] # Absent
        PROVE  /\ next[s] < t[i].value[s]
               /\ t[i].value[s] <= ver[s]
               /\ \A j \in 1 .. (i - 1) : t[j].value[s] < t[i].value[s]
    <3>1. t[i] = w[i + 1] /\ i + 1 \in 1 .. Len(w) /\ 1 \in 1 .. ((i + 1) - 1)
          /\ \A j \in 1 .. (i - 1) : t[j] = w[j + 1] /\ j + 1 \in 1 .. ((i + 1) - 1)
      BY <1>1
    <3>2. /\ state[s] < w[i + 1].value[s]
          /\ w[i + 1].value[s] <= ver[s]
          /\ \A j \in 1 .. ((i + 1) - 1) : w[j].value[s] < w[i + 1].value[s]
      BY <2>2, <3>1 DEF Channel, Advancing
    <3> QED BY <1>1, <1>2, <3>1, <3>2
  <2> QED BY <2>1, <2>2 DEF Advancing
<1>7. Unserved(w, state) => Unserved(t, next)
  BY <1>1, <1>3 DEF Unserved
<1>8. Served(w, state) => Served(t, next)
  <2>1. CASE ~IsCarrier(m) /\ next = state
    <3>1. m.type # "fullState"
      BY <1>1, <2>1 DEF Channel, Shaped, IsCarrier, Nothing
    <3>2. ASSUME NEW j \in 1 .. Len(w), w[j].type = "fullState"
          PROVE  \E i \in 1 .. Len(t) : t[i].type = "fullState"
      <4>1. j # 1
        BY <1>1, <3>1, <3>2
      <4>2. j - 1 \in 1 .. Len(t) /\ t[j - 1] = w[j]
        BY <1>1, <4>1
      <4> QED BY <3>2, <4>2
    <3> QED BY <2>1, <3>2 DEF Served
  <2>2. CASE \A s \in Stores : next[s] # Absent
    BY <2>2 DEF Served
  <2> QED BY <1>3, <2>1, <2>2
<1> QED BY <1>4, <1>5, <1>6, <1>7, <1>8 DEF Channel, m, t, next

-----------------------------------------------------------------------------
(* The wires stay in order *)

(* WireInv for one socket. *)
SocketInv(c) ==
  /\ Channel(wire[c], view[c], version)
  /\ c \notin fullStateSent /\ conn[c] # "gone" => Unserved(wire[c], view[c])
  /\ c \in fullStateSent /\ conn[c] = "open" => Served(wire[c], view[c])

(* An error sent to any socket keeps every socket in order. *)
LEMMA SocketError ==
  ASSUME TypeOK, NEW c \in Sockets, SocketInv(c), NEW d \in Sockets, Send(d, ErrorMessage),
         version' = version, view' = view, conn' = conn, fullStateSent' = fullStateSent
  PROVE  SocketInv(c)'
<1>1. wire[c] \in Seq(Messages) /\ view[c] \in [Stores -> Versions]
      /\ version \in [Stores -> Versions]
  BY DEF TypeOK
<1>2. ErrorMessage.type = "error" /\ ErrorMessage.value = Nothing /\ ErrorMessage \in Messages
      /\ ~IsCarrier(ErrorMessage)
  BY ErrorType DEF ErrorMessage, IsCarrier
<1>3. wire'[c] = wire[c] \/ wire'[c] = Append(wire[c], ErrorMessage)
  BY DEF Send, Sent, TypeOK
<1>4. CASE wire'[c] = wire[c]
  BY <1>4 DEF SocketInv
<1>5. CASE wire'[c] = Append(wire[c], ErrorMessage)
  <2> DEFINE a == Append(wire[c], ErrorMessage)
  <2>1. Channel(a, view[c], version)
    BY <1>1, <1>2, ChannelAppendQuiet DEF SocketInv
  <2>2. /\ Len(wire[c]) \in Nat /\ Len(a) = Len(wire[c]) + 1 /\ a[Len(wire[c]) + 1] = ErrorMessage
        /\ \A i \in 1 .. Len(wire[c]) : a[i] = wire[c][i]
    BY <1>1, <1>2
  <2> HIDE DEF a
  <2>3. Unserved(wire[c], view[c]) => Unserved(a, view[c])
    BY <1>2, <2>2 DEF Unserved
  <2>4. Served(wire[c], view[c]) => Served(a, view[c])
    BY <2>2 DEF Served
  <2> QED BY <1>5, <2>1, <2>3, <2>4 DEF SocketInv, a
<1> QED BY <1>3, <1>4, <1>5

(* A full state of ready stores for a socket that was not served. *)
LEMMA SocketServed ==
  ASSUME TypeOK, NEW c \in Sockets, SocketInv(c), c \notin fullStateSent, conn[c] # "gone",
         NEW rdy \in [Stores -> BOOLEAN], NEW ver \in [Stores -> Versions],
         ConfiguredStateReady(rdy), \A s \in Stores : rdy[s] => ver[s] # Absent,
         \A s \in Stores : version[s] <= ver[s]
  PROVE  /\ Channel(Sent(c, FullState(rdy, ver)), view[c], ver)
         /\ conn[c] = "open" => Served(Sent(c, FullState(rdy, ver)), view[c])
<1>1. wire[c] \in Seq(Messages) /\ view[c] \in [Stores -> Versions]
      /\ version \in [Stores -> Versions]
  BY DEF TypeOK
<1>2. Unserved(wire[c], view[c]) /\ Channel(wire[c], view[c], version)
  BY DEF SocketInv
<1>3. CASE conn[c] = "open"
  <2>1. /\ FullState(rdy, ver).type = "fullState" /\ Stores # {}
        /\ \A t \in Stores : FullState(rdy, ver).value[t] = ver[t] /\ ver[t] # Absent
    BY DEF FullState, ConfiguredStateReady
  <2>2. FullState(rdy, ver) \in Messages
    BY <2>1, MessageTypes
  <2> QED BY <1>1, <1>2, <1>3, <2>1, <2>2, ChannelAppendFull DEF Sent, Channel
<1>4. CASE conn[c] # "open"
  BY <1>1, <1>2, <1>4, ChannelGrows DEF Sent
<1> QED BY <1>3, <1>4

LEMMA WireStep == WireInv /\ [Next]_vars => \A c \in Sockets : SocketInv(c)'
<1> SUFFICES ASSUME WireInv, [Next]_vars, NEW c \in Sockets PROVE SocketInv(c)'
  OBVIOUS
<1>0. TypeOK /\ TypeOK' /\ ReadyMeansUpdated /\ ReadyMeansUpdated' /\ SocketInv(c)
  BY TypeStep, ReadyMeansUpdatedStep DEF WireInv, SocketInv
<1>a. /\ wire[c] \in Seq(Messages) /\ view[c] \in [Stores -> Versions]
      /\ version \in [Stores -> Versions] /\ ready \in [Stores -> BOOLEAN]
      /\ version' \in [Stores -> Versions] /\ ready' \in [Stores -> BOOLEAN]
      /\ c \in fullStateSent => conn[c] \in {"open", "closing", "left"}
  BY <1>0 DEF TypeOK
<1>1. ASSUME NEW s \in Stores, NEW r \in Readiness, UpdateState(s, r) PROVE SocketInv(c)'
  <2>1. Broadcast(s, ready', version') /\ view' = view /\ conn' = conn
    BY <1>1 DEF UpdateState
  <2>2. version'[s] = version[s] + 1 /\ \A t \in Stores \ {s} : version'[t] = version[t]
    BY <1>0, <1>1 DEF UpdateState, TypeOK
  <2>3. version[s] \in Nat /\ \A t \in Stores : version[t] \in Nat /\ version[t] <= version'[t]
    <3>1. \A t \in Stores : version[t] \in Nat
      BY <1>a, BoundsAssumption
    <3>2. version[s] <= version'[s]
      BY <2>2, <3>1
    <3>3. ASSUME NEW t \in Stores \ {s} PROVE version[t] <= version'[t]
      BY <2>2, <3>1
    <3> QED BY <3>1, <3>2, <3>3
  <2>4. Channel(wire[c], view[c], version')
    BY <1>0, <1>a, <2>3, ChannelGrows DEF SocketInv
  <2>5. CASE ready'[s] /\ c \in fullStateSent
    <3>1. wire'[c] = Sent(c, Patch(s, version')) /\ c \in fullStateSent'
      BY <2>1, <2>5 DEF Broadcast
    <3>2. CASE conn[c] = "open"
      <4> DEFINE m == Patch(s, version')
                 a == Append(wire[c], m)
      <4>1. /\ m \in Messages /\ m.type = "patch" /\ m.value[s] = version'[s]
            /\ \A t \in Stores \ {s} : m.value[t] = Absent
        BY <1>a, MessageTypes DEF Patch
      <4>2. Served(wire[c], view[c]) /\ Channel(wire[c], view[c], version)
        BY <1>0, <2>5, <3>2 DEF SocketInv
      <4>3. Channel(a, view[c], version')
        <5> HIDE DEF m
        <5>1. version[s] < version'[s]
          BY <2>2, <2>3
        <5>2. \A t \in Stores \ {s} : version'[t] = version[t]
          BY <2>2
        <5> QED BY <1>a, <4>1, <4>2, <5>1, <5>2, ChannelAppendPatch
      <4>4. Len(a) = Len(wire[c]) + 1 /\ \A i \in 1 .. Len(wire[c]) : a[i] = wire[c][i]
        BY <1>a, <4>1
      <4>5. Served(a, view[c])
        <5> HIDE DEF a
        <5>1. Len(wire[c]) \in Nat
          BY <1>a
        <5> QED BY <4>2, <4>4, <5>1 DEF Served
      <4> QED BY <2>1, <3>1, <3>2, <4>3, <4>5 DEF SocketInv, Sent
    <3>3. CASE conn[c] # "open"
      BY <2>1, <2>4, <3>1, <3>3 DEF SocketInv, Sent
    <3> QED BY <3>2, <3>3
  <2>6. CASE ready'[s] /\ c \notin fullStateSent /\ c \in helloReceived /\ ConfiguredStateReady(ready')
    <3>1. wire'[c] = Sent(c, FullState(ready', version')) /\ c \in fullStateSent'
      BY <2>1, <2>6 DEF Broadcast
    <3>2. conn[c] # "gone" /\ \A t \in Stores : ready'[t] => version'[t] # Absent
      BY <1>0, <2>6 DEF TypeOK, ReadyMeansUpdated
    <3> QED BY <1>0, <1>a, <2>1, <2>3, <2>6, <3>1, <3>2, SocketServed DEF SocketInv
  <2>7. CASE ~(ready'[s] /\ (c \in fullStateSent \/ (c \in helloReceived /\ ConfiguredStateReady(ready'))))
    <3>1. wire'[c] = wire[c] /\ (c \in fullStateSent' <=> c \in fullStateSent)
      BY <2>1, <2>7 DEF Broadcast
    <3> QED BY <1>0, <2>1, <2>4, <3>1 DEF SocketInv
  <2> QED BY <2>5, <2>6, <2>7
<1>2. ASSUME NEW d \in Sockets, HandleNewConnection(d) PROVE SocketInv(c)'
  <2>1. version' = version /\ view' = view /\ fullStateSent' = fullStateSent
        /\ conn[d] = "none" /\ conn' = [conn EXCEPT ![d] = "open"]
    BY <1>2 DEF HandleNewConnection, storeVars
  <2>2. CASE c = d
    <3>1. c \notin fullStateSent /\ Unserved(wire[c], view[c])
      BY <1>0, <1>a, <2>1, <2>2 DEF SocketInv
    <3>2. wire'[c] = wire[c] \/ wire'[c] = <<ErrorMessage>>
      BY <1>0, <1>2, <2>2 DEF HandleNewConnection, TypeOK
    <3>3. CASE wire'[c] = wire[c]
      BY <1>0, <2>1, <3>1, <3>3 DEF SocketInv
    <3>4. CASE wire'[c] = <<ErrorMessage>>
      <4> DEFINE e == <<ErrorMessage>>
      <4>1. Len(e) = 1 /\ e[1] = ErrorMessage
        OBVIOUS
      <4>2. ErrorMessage.type = "error" /\ ErrorMessage.value = Nothing
        BY DEF ErrorMessage
      <4> HIDE DEF e
      <4>3. /\ \A i \in 1 .. Len(e) : ~IsCarrier(e[i]) /\ Shaped(e[i])
            /\ \A s \in Stores : \A i \in 1 .. Len(e) : e[i].value[s] = Absent
        BY <4>1, <4>2 DEF IsCarrier, Shaped, Nothing
      <4>4. \A s \in Stores : view[c][s] <= version[s]
        BY <1>0 DEF SocketInv, Channel, Advancing
      <4>5. Channel(e, view[c], version) /\ Unserved(e, view[c])
        BY <3>1, <4>3, <4>4 DEF Channel, FullStateFirst, Advancing, Unserved
      <4> QED BY <2>1, <3>1, <3>4, <4>5 DEF SocketInv, e
    <3> QED BY <3>2, <3>3, <3>4
  <2>3. CASE c # d
    <3>1. wire'[c] = wire[c] /\ conn'[c] = conn[c]
      BY <1>0, <1>2, <2>1, <2>3 DEF HandleNewConnection, TypeOK
    <3> QED BY <1>0, <2>1, <3>1 DEF SocketInv
  <2> QED BY <2>2, <2>3
<1>3. ASSUME NEW d \in Sockets, NEW f \in Frames, ClientSends(d, f) PROVE SocketInv(c)'
  BY <1>0, <1>3 DEF ClientSends, storeVars, sessionVars, SocketInv
<1>4. ASSUME NEW d \in Sockets, HandleTextMessage(d) PROVE SocketInv(c)'
  <2>1. version' = version /\ view' = view /\ conn' = conn /\ d \in clients
    BY <1>4 DEF HandleTextMessage, storeVars, Delivers
  <2>2. CASE Send(d, ErrorMessage) /\ fullStateSent' = fullStateSent
    BY <1>0, <2>1, <2>2, SocketError
  <2>3. CASE d \notin helloReceived /\ ConfiguredStateReady(ready) /\ SendFullState(d)
    <3>1. d \notin fullStateSent /\ conn[d] # "gone"
      BY <1>0, <2>1, <2>3 DEF TypeOK
    <3>2. CASE c = d
      <4>1. wire'[c] = Sent(c, FullState(ready, version)) /\ c \in fullStateSent'
        BY <1>0, <2>3, <3>2 DEF SendFullState, Send, TypeOK
      <4>2. \A s \in Stores : version[s] <= version[s]
        BY <1>a, BoundsAssumption
      <4> QED BY <1>0, <1>a, <2>1, <2>3, <3>1, <3>2, <4>1, <4>2, SocketServed
              DEF SocketInv, ReadyMeansUpdated
    <3>3. CASE c # d
      <4>1. wire'[c] = wire[c] /\ (c \in fullStateSent' <=> c \in fullStateSent)
        BY <1>0, <2>3, <3>3 DEF SendFullState, Send, TypeOK
      <4> QED BY <1>0, <2>1, <4>1 DEF SocketInv
    <3> QED BY <3>2, <3>3
  <2> QED BY <1>4, <2>2, <2>3 DEF HandleTextMessage, Fail
<1>5. ASSUME NEW d \in Sockets, HandleBinaryMessage(d) PROVE SocketInv(c)'
  BY <1>0, <1>5, SocketError DEF HandleBinaryMessage, Fail, storeVars
<1>6. ASSUME NEW d \in Sockets, CloseTimeout(d) PROVE SocketInv(c)'
  <2>1. conn[d] \in {"open", "left"} /\ conn' = [conn EXCEPT ![d] = "closing"]
        /\ UNCHANGED <<version, view, wire, fullStateSent>>
    BY <1>6 DEF CloseTimeout, storeVars
  <2>2. (conn'[c] = "open" => conn[c] = "open") /\ (conn'[c] # "gone" => conn[c] # "gone")
    BY <1>0, <2>1 DEF TypeOK
  <2> QED BY <1>0, <2>1, <2>2 DEF SocketInv
<1>7. ASSUME NEW d \in Sockets, Disconnected(d) PROVE SocketInv(c)'
  <2>1. conn' = [conn EXCEPT ![d] = "gone"] /\ UNCHANGED <<version, view, wire>>
        /\ fullStateSent' = fullStateSent \ {d}
    BY <1>7 DEF Disconnected, storeVars
  <2>2. CASE c = d
    BY <1>0, <2>1, <2>2 DEF SocketInv, TypeOK
  <2>3. CASE c # d
    BY <1>0, <2>1, <2>3 DEF SocketInv, TypeOK
  <2> QED BY <2>2, <2>3
<1>8. ASSUME NEW d \in Sockets, PeerLeaves(d) PROVE SocketInv(c)'
  <2>1. conn[d] = "open" /\ conn' = [conn EXCEPT ![d] = "left"] /\ wire' = [wire EXCEPT ![d] = <<>>]
        /\ UNCHANGED <<version, view, fullStateSent>>
    BY <1>8 DEF PeerLeaves, storeVars, sessionVars
  <2>2. CASE c = d
    <3>1. wire'[c] = <<>> /\ conn'[c] = "left" /\ conn[c] = "open"
      BY <1>0, <2>1, <2>2 DEF TypeOK
    <3>2. Len(<<>>) = 0 /\ \A s \in Stores : view[c][s] <= version[s]
      BY <1>0 DEF SocketInv, Channel, Advancing
    <3>3. Channel(<<>>, view[c], version)
      BY <3>2 DEF Channel, FullStateFirst, Advancing
    <3>4. c \notin fullStateSent => Unserved(<<>>, view[c])
      BY <1>0, <3>1, <3>2 DEF SocketInv, Unserved
    <3> QED BY <2>1, <3>1, <3>3, <3>4 DEF SocketInv
  <2>3. CASE c # d
    BY <1>0, <2>1, <2>3 DEF SocketInv, TypeOK
  <2> QED BY <2>2, <2>3
<1>9. ASSUME NEW d \in Sockets, ClientReceives(d) PROVE SocketInv(c)'
  <2>1. UNCHANGED <<version, conn, fullStateSent>>
    BY <1>9 DEF ClientReceives, storeVars, sessionVars
  <2>2. CASE c = d
    <3>1. wire'[c] = Tail(wire[c]) /\ view'[c] = ApplyBackendMessage(view[c], Head(wire[c]))
          /\ wire[c] # <<>>
      BY <1>0, <1>9, <2>2 DEF ClientReceives, TypeOK
    <3> QED BY <1>0, <1>a, <2>1, <3>1, ChannelReceive DEF SocketInv
  <2>3. CASE c # d
    <3>1. wire'[c] = wire[c] /\ view'[c] = view[c]
      BY <1>0, <1>9, <2>3 DEF ClientReceives, TypeOK
    <3> QED BY <1>0, <2>1, <3>1 DEF SocketInv
  <2> QED BY <2>2, <2>3
<1>10. CASE UNCHANGED vars
  BY <1>0, <1>10 DEF vars, SocketInv
<1> QED BY <1>1, <1>2, <1>3, <1>4, <1>5, <1>6, <1>7, <1>8, <1>9, <1>10 DEF Next

LEMMA WireInit == Init => WireInv
<1> SUFFICES ASSUME Init PROVE WireInv
  OBVIOUS
<1>1. TypeOK /\ ReadyMeansUpdated /\ fullStateSent = {}
  BY TypeInit DEF Init, ReadyMeansUpdated
<1>2. ASSUME NEW c \in Sockets
      PROVE  wire[c] = <<>> /\ view[c] = Nothing /\ \A s \in Stores : view[c][s] <= version[s]
  BY <1>2 DEF Init, Nothing
<1>3. Len(<<>>) = 0
  OBVIOUS
<1>4. ASSUME NEW c \in Sockets
      PROVE  Channel(wire[c], view[c], version) /\ Unserved(wire[c], view[c])
  BY <1>2, <1>3 DEF Channel, FullStateFirst, Advancing, Unserved
<1> QED BY <1>1, <1>4 DEF WireInv

LEMMA WireInvariance == Spec => []WireInv
<1>1. WireInv /\ [Next]_vars => WireInv'
  BY TypeStep, ReadyMeansUpdatedStep, WireStep DEF WireInv, SocketInv
<1> QED BY <1>1, WireInit, PTL DEF Spec

(* A client is never shown part of the state, whatever the order of        *)
(* hellos, updates and readiness changes: one full state, then patches     *)
(* (sendFullState, sendPatch, fullStateSent).                              *)
THEOREM FullStateBeforePatches == Spec => []FullStateThenPatches
<1>1. WireInv => FullStateThenPatches
  BY DEF WireInv, Channel, FullStateThenPatches
<1> QED BY <1>1, WireInvariance, PTL

-----------------------------------------------------------------------------
(* The stream implements the feed *)

(* Every step of the stream is a step of the feed, or invisible to it. *)
LEMMA FeedStep == WireInv /\ [Next]_vars => [Feed!FeedNext]_(Feed!feedVars)
<1> SUFFICES ASSUME WireInv, [Next]_vars PROVE [Feed!FeedNext]_(Feed!feedVars)
  OBVIOUS
<1>0. TypeOK
  BY DEF WireInv
<1>1. ASSUME NEW s \in Stores, NEW r \in Readiness, UpdateState(s, r) PROVE Feed!FeedNext
  BY <1>1 DEF UpdateState, Feed!FeedNext, Feed!Publish
<1>2. ASSUME NEW c \in Sockets, ClientReceives(c) PROVE [Feed!FeedNext]_(Feed!feedVars)
  <2>1. /\ version' = version /\ wire[c] # <<>>
        /\ view' = [view EXCEPT ![c] = ApplyBackendMessage(view[c], Head(wire[c]))]
    BY <1>2 DEF ClientReceives, storeVars
  <2>2. /\ view'[c] = ApplyBackendMessage(view[c], Head(wire[c]))
        /\ view' = [view EXCEPT ![c] = view'[c]]
        /\ view'[c] \in [Stores -> Versions]
    <3>1. TypeOK'
      BY <1>0, TypeStep
    <3> QED BY <1>0, <2>1, <3>1 DEF TypeOK
  <2>3. /\ wire[c] \in Seq(Messages) /\ view[c] \in [Stores -> Versions]
        /\ version \in [Stores -> Versions] /\ Channel(wire[c], view[c], version)
    BY <1>0 DEF TypeOK, WireInv
  <2>4. \/ view'[c] = view[c]
        \/ view[c] = Nothing /\ \A s \in Stores : view'[c][s] \in 1 .. version[s]
        \/ /\ \A s \in Stores : view[c][s] # Absent
           /\ \E s \in Stores : /\ view'[c] = [view[c] EXCEPT ![s] = view'[c][s]]
                                 /\ view'[c][s] \in (view[c][s] + 1) .. version[s]
    <3>1. Shown(Head(wire[c]), view[c], view'[c], version)
      BY <2>1, <2>2, <2>3, Reading
    <3> QED BY <3>1 DEF Shown
  <2>5. CASE view'[c] = view[c]
    <3>1. view' = view
      BY <1>0, <2>2, <2>5 DEF TypeOK
    <3> QED BY <2>1, <3>1 DEF Feed!feedVars
  <2>6. CASE view[c] = Nothing /\ \A s \in Stores : view'[c][s] \in 1 .. version[s]
    <3>1. Feed!ShowAll(c)
      BY <2>1, <2>2, <2>6 DEF Feed!ShowAll, Feed!Shows, Feed!Nothing, Nothing
    <3> QED BY <3>1 DEF Feed!FeedNext
  <2>7. CASE /\ \A s \in Stores : view[c][s] # Absent
             /\ \E s \in Stores : /\ view'[c] = [view[c] EXCEPT ![s] = view'[c][s]]
                                   /\ view'[c][s] \in (view[c][s] + 1) .. version[s]
    <3>1. PICK s \in Stores : /\ view'[c] = [view[c] EXCEPT ![s] = view'[c][s]]
                              /\ view'[c][s] \in (view[c][s] + 1) .. version[s]
      BY <2>7
    <3>2. Feed!ShowChange(c, s)
      BY <2>1, <2>2, <2>7, <3>1 DEF Feed!ShowChange, Feed!Shows
    <3> QED BY <3>2 DEF Feed!FeedNext
  <2> QED BY <2>4, <2>5, <2>6, <2>7
<1>3. CASE UNCHANGED <<version, view>>
  BY <1>3 DEF Feed!feedVars
<1> QED BY <1>1, <1>2, <1>3 DEF Next, vars, storeVars, HandleNewConnection, ClientSends,
            HandleTextMessage, HandleBinaryMessage, CloseTimeout, Disconnected, PeerLeaves

(* The stores, the WebSocket server, the wire and the client together      *)
(* implement SnapshotFeed for every set of stores and clients.             *)
THEOREM StreamImplementsFeed == Spec => FeedSpec
<1>1. Init => Feed!FeedInit
  BY DEF Init, Feed!FeedInit, Feed!Nothing, Nothing
<1> QED BY <1>1, FeedStep, WireInvariance, PTL DEF Spec, FeedSpec, Feed!FeedSpec
=============================================================================
