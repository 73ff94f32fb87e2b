------------------------ MODULE ReliableSocket_proofs ------------------------
(***************************************************************************)
(* Proofs about ReliableSocket, for any finite set of nodes, any scripts   *)
(* and any bounds: its type invariant, that a call waits exactly while its *)
(* request is pending, that a connection hands over a request once, and    *)
(* that the sockets implement module Calls.                                *)
(*                                                                         *)
(* The argument is one about where things come from: every request on its  *)
(* way, in a queue or in a cache was made by a call that is still on       *)
(* record, except DISCONNECTs, which sockets make up.  What is asserted of *)
(* a datagram, a request or a connection is an operator of it and of the   *)
(* calls C and the counters X of a state, so that the same operator speaks *)
(* of the state before a step and of the one after it.                     *)
(***************************************************************************)
EXTENDS ReliableSocket, FiniteSetTheorems, SequenceTheorems, TLAPS

-----------------------------------------------------------------------------
(* The invariant.                                                          *)

UserType == {"CONN", "DATA", "DISCONNECT"}

IsCall(C, n, m, s, type) ==
  s \in DOMAIN C[n] /\ C[n][s].to = m /\ C[n][s].type = type

Asked(C, n, m, s, type) == type = "DISCONNECT" \/ IsCall(C, n, m, s, type)

\* What the other side answers it with.
Given(C, n, m, s, type) ==
  \/ Asked(C, n, m, s, type)
  \/ type = "ERROR" /\ (IsCall(C, n, m, s, "CONN") \/ IsCall(C, n, m, s, "DATA"))

\* A number drawn for a ping is no call's, and none will get it.
PingNumber(C, X, n, s) == (s < X[n] \/ s = MaxSeqn) /\ s \notin DOMAIN C[n]

DatagramOK(C, X, d) ==
  /\ d \in Datagram
  /\ d.step = "REQ" =>
       IF d.type = "PING" THEN PingNumber(C, X, d.src, d.seqn)
       ELSE d.type \in UserType /\ Asked(C, d.src, d.dst, d.seqn, d.type)
  /\ d.step = "RESP" =>
       IF d.type = "PING" THEN PingNumber(C, X, d.dst, d.seqn)
       ELSE d.type \in UserType \cup {"ERROR"} /\ Given(C, d.dst, d.src, d.seqn, d.type)

RequestOK(C, n, r) == r \in Request /\ Asked(C, r.src, n, r.seqn, r.type)

ConnectionOK(C, n, m, c) ==
  /\ IsConnection(c)
  /\ c.handed_over \subseteq c.received
  /\ \A s \in DOMAIN c.cached : Given(C, m, n, s, c.cached[s])

CallsOK(C, X) ==
  /\ DOMAIN C = Node
  /\ X \in [Node -> Seqn]
  /\ \A n \in Node : \A s \in DOMAIN C[n] : s \in Seqn /\ s < X[n] /\ C[n][s] \in Call

CallsInv == CallsOK(calls, next_seqn)

NetworkInv == \A d \in network : DatagramOK(calls, next_seqn, d)

ConnectionsInv ==
  /\ DOMAIN connections = Node
  /\ \A n \in Node :
       /\ DOMAIN connections[n] \subseteq Node
       /\ \A m \in DOMAIN connections[n] : ConnectionOK(calls, n, m, connections[n][m])

QueuesInv ==
  /\ handler \in [Node -> Request \cup {Idle, Dead}]
  /\ \A n \in Node : handler[n] \notin {Idle, Dead} => RequestOK(calls, n, handler[n])
  /\ requests \in [Node -> Seq(Request)]
  /\ \A n \in Node : \A i \in 1..Len(requests[n]) : RequestOK(calls, n, requests[n][i])
  /\ fake_reqs \in [Node -> SUBSET Request]
  /\ \A n \in Node : \A r \in fake_reqs[n] : r.type = "DISCONNECT"

FlagsInv ==
  /\ bumper_alive \in [Node -> BOOLEAN]
  /\ open \in [Node -> BOOLEAN]
  /\ clearing \in [Node -> BOOLEAN]

\* The pending requests of n to m in the connections K, none without a connection.
Pending(K, n, m) == IF m \in DOMAIN K[n] THEN K[n][m].pending ELSE <<>>

Waits(call) == call.outcome = "waiting"

WaitOK(C, K) ==
  \A n \in Node :
    /\ \A s \in DOMAIN C[n] :
         Waits(C[n][s]) => /\ s \in DOMAIN Pending(K, n, C[n][s].to)
                           /\ Pending(K, n, C[n][s].to)[s].type = C[n][s].type
    /\ \A m \in Node : \A s \in DOMAIN Pending(K, n, m) :
         s \in DOMAIN C[n] /\ Waits(C[n][s]) /\ C[n][s].to = m

WaitInv == WaitOK(calls, connections)

SocketInv ==
  CallsInv /\ NetworkInv /\ ConnectionsInv /\ QueuesInv /\ FlagsInv /\ WaitInv

-----------------------------------------------------------------------------
(* What it says.                                                           *)

LEMMA InvType == SocketInv => TypeOK
<1> SUFFICES ASSUME SocketInv
             PROVE  TypeOK
  OBVIOUS
<1>1. next_seqn \in [Node -> Seqn] /\ DOMAIN calls = Node
      /\ \A n \in Node : DOMAIN calls[n] \subseteq Seqn /\ Range(calls[n]) \subseteq Call
  BY DEF SocketInv, CallsInv, CallsOK, Range
<1>2. network \subseteq Datagram
  BY DEF SocketInv, NetworkInv, DatagramOK
<1>3. /\ DOMAIN connections = Node
      /\ \A n \in Node : /\ DOMAIN connections[n] \subseteq Node
                         /\ \A m \in DOMAIN connections[n] : IsConnection(connections[n][m])
  BY DEF SocketInv, ConnectionsInv, ConnectionOK
<1> QED
  BY <1>1, <1>2, <1>3 DEF SocketInv, QueuesInv, FlagsInv, TypeOK

LEMMA PendingDomain ==
  ASSUME NEW n, NEW m
  PROVE  DOMAIN Pending(connections, n, m) = PendingTo(n, m)
BY DEF Pending, PendingTo, Connected

LEMMA InvWaiting == SocketInv => WaitingIsPending
<1> SUFFICES ASSUME SocketInv, NEW n \in Node
             PROVE  /\ \A s \in DOMAIN calls[n] :
                         IsWaiting(n, s) =>
                           /\ s \in PendingTo(n, calls[n][s].to)
                           /\ connections[n][calls[n][s].to].pending[s].type = calls[n][s].type
                    /\ \A m \in DOMAIN connections[n] : \A s \in PendingTo(n, m) :
                         IsWaiting(n, s) /\ calls[n][s].to = m
  BY DEF WaitingIsPending
<1>1. ASSUME NEW s \in DOMAIN calls[n], IsWaiting(n, s)
      PROVE  /\ s \in PendingTo(n, calls[n][s].to)
             /\ connections[n][calls[n][s].to].pending[s].type = calls[n][s].type
  <2> DEFINE m == calls[n][s].to
  <2>1. /\ s \in DOMAIN Pending(connections, n, m)
        /\ Pending(connections, n, m)[s].type = calls[n][s].type
    BY <1>1 DEF SocketInv, WaitInv, WaitOK, Waits, IsWaiting
  <2>2. m \in DOMAIN connections[n]
    BY <2>1 DEF Pending
  <2> QED
    BY <2>1, <2>2 DEF Pending, PendingTo, Connected
<1>2. ASSUME NEW m \in DOMAIN connections[n], NEW s \in PendingTo(n, m)
      PROVE  IsWaiting(n, s) /\ calls[n][s].to = m
  BY <1>2, PendingDomain
  DEF SocketInv, WaitInv, WaitOK, Waits, ConnectionsInv, IsWaiting
<1> QED
  BY <1>1, <1>2

-----------------------------------------------------------------------------
(* From one state to the next: calls are made with new numbers, and what a *)
(* call is about does not change.                                          *)

Grows(C, X, D, Y) ==
  \A n \in Node :
    /\ X[n] <= Y[n]
    /\ \A s \in DOMAIN C[n] :
         s \in DOMAIN D[n] /\ D[n][s].to = C[n][s].to /\ D[n][s].type = C[n][s].type
    /\ \A s \in DOMAIN D[n] \ DOMAIN C[n] : s = X[n] /\ s < MaxSeqn

LEMMA SeqnNat == Seqn \subseteq Nat /\ MaxSeqn \in Seqn
BY BoundAssumption DEF Seqn

LEMMA GrowsSame ==
  ASSUME CallsInv, UNCHANGED <<calls, next_seqn>>
  PROVE  CallsInv' /\ Grows(calls, next_seqn, calls', next_seqn')
<1>1. \A n \in Node : next_seqn[n] \in Nat
  BY SeqnNat DEF CallsInv, CallsOK
<1> QED
  BY <1>1 DEF CallsInv, CallsOK, Grows

LEMMA AskedStill ==
  ASSUME NEW C, NEW X, NEW D, NEW Y, Grows(C, X, D, Y),
         NEW n \in Node, NEW m, NEW s, NEW type, Asked(C, n, m, s, type)
  PROVE  Asked(D, n, m, s, type)
BY DEF Asked, IsCall, Grows

LEMMA GivenStill ==
  ASSUME NEW C, NEW X, NEW D, NEW Y, Grows(C, X, D, Y),
         NEW n \in Node, NEW m, NEW s, NEW type, Given(C, n, m, s, type)
  PROVE  Given(D, n, m, s, type)
<1>1. \A t : IsCall(C, n, m, s, t) => IsCall(D, n, m, s, t)
  BY DEF IsCall, Grows
<1> QED
  BY <1>1, AskedStill DEF Given

LEMMA PingNumberStill ==
  ASSUME NEW C, NEW X, CallsOK(C, X), NEW D, NEW Y, CallsOK(D, Y), Grows(C, X, D, Y),
         NEW n \in Node, NEW s \in Seqn, PingNumber(C, X, n, s)
  PROVE  PingNumber(D, Y, n, s)
<1>1. X[n] \in Nat /\ Y[n] \in Nat /\ s \in Nat /\ MaxSeqn \in Nat /\ X[n] <= Y[n]
  BY SeqnNat DEF CallsOK, Grows
<1>2. s \notin DOMAIN D[n]
  BY <1>1 DEF PingNumber, Grows
<1> QED
  BY <1>1, <1>2 DEF PingNumber

LEMMA DatagramStill ==
  ASSUME NEW C, NEW X, CallsOK(C, X), NEW D, NEW Y, CallsOK(D, Y), Grows(C, X, D, Y),
         NEW d, DatagramOK(C, X, d)
  PROVE  DatagramOK(D, Y, d)
<1>1. d \in Datagram /\ d.src \in Node /\ d.dst \in Node /\ d.seqn \in Seqn
      /\ d.step \in {"REQ", "RESP"}
  BY DEF DatagramOK, Datagram
<1>2. CASE d.step = "REQ"
  BY <1>1, <1>2, PingNumberStill, AskedStill DEF DatagramOK
<1>3. CASE d.step = "RESP"
  <2>1. CASE d.type = "PING"
    BY <1>1, <1>3, <2>1, PingNumberStill DEF DatagramOK
  <2>2. CASE d.type # "PING"
    BY <1>1, <1>3, <2>2, GivenStill DEF DatagramOK
  <2> QED
    BY <2>1, <2>2
<1> QED
  BY <1>1, <1>2, <1>3

LEMMA RequestStill ==
  ASSUME NEW C, NEW X, NEW D, NEW Y, Grows(C, X, D, Y),
         NEW n \in Node, NEW r, RequestOK(C, n, r)
  PROVE  RequestOK(D, n, r)
BY AskedStill DEF RequestOK, Request

LEMMA ConnectionStill ==
  ASSUME NEW C, NEW X, NEW D, NEW Y, Grows(C, X, D, Y),
         NEW n \in Node, NEW m \in Node, NEW c, ConnectionOK(C, n, m, c)
  PROVE  ConnectionOK(D, n, m, c)
BY GivenStill DEF ConnectionOK

\* New datagrams join old ones.
LEMMA NetworkStep ==
  ASSUME CallsInv, NetworkInv, CallsInv', Grows(calls, next_seqn, calls', next_seqn'),
         NEW new, network' = network \cup new,
         \A d \in new : DatagramOK(calls', next_seqn', d)
  PROVE  NetworkInv'
<1>1. \A d \in network : DatagramOK(calls', next_seqn', d)
  BY DatagramStill DEF NetworkInv, CallsInv
<1> QED
  BY <1>1 DEF NetworkInv

LEMMA NetworkSame ==
  ASSUME CallsInv, NetworkInv, CallsInv', Grows(calls, next_seqn, calls', next_seqn'),
         network' = network
  PROVE  NetworkInv'
<1>1. \A d \in network : DatagramOK(calls', next_seqn', d)
  BY DatagramStill DEF NetworkInv, CallsInv
<1> QED
  BY <1>1 DEF NetworkInv

LEMMA ConnectionsSame ==
  ASSUME ConnectionsInv, Grows(calls, next_seqn, calls', next_seqn'),
         UNCHANGED connections
  PROVE  ConnectionsInv'
<1>1. \A n \in Node : \A m \in DOMAIN connections[n] :
        ConnectionOK(calls', n, m, connections[n][m])
  BY ConnectionStill DEF ConnectionsInv
<1> QED
  BY <1>1 DEF ConnectionsInv

LEMMA QueuesSame ==
  ASSUME QueuesInv, Grows(calls, next_seqn, calls', next_seqn'),
         UNCHANGED <<handler, requests, fake_reqs>>
  PROVE  QueuesInv'
<1>1. /\ \A n \in Node : handler[n] \notin {Idle, Dead} => RequestOK(calls', n, handler[n])
      /\ \A n \in Node : \A i \in 1..Len(requests[n]) : RequestOK(calls', n, requests[n][i])
  BY RequestStill DEF QueuesInv
<1> QED
  BY <1>1 DEF QueuesInv

\* Calls and the requests that are pending for them stay as they are.
LEMMA WaitSame ==
  ASSUME CallsInv, WaitInv, calls' = calls,
         \A n, m \in Node : Pending(connections', n, m) = Pending(connections, n, m)
  PROVE  WaitInv'
<1>1. \A n \in Node : \A s \in DOMAIN calls[n] : calls[n][s].to \in Node
  BY DEF CallsInv, CallsOK, Call
<1> QED
  BY <1>1 DEF WaitInv, WaitOK
-----------------------------------------------------------------------------
(* Connections, and what the operations change in one.                     *)

LEMMA NewConnectionOK ==
  ASSUME NEW C, NEW n, NEW m
  PROVE  ConnectionOK(C, n, m, NewConnection)
<1>1. DOMAIN <<>> = {} /\ Range(<<>>) = {}
  BY DEF Range
<1> QED
  BY <1>1, ConfigAssumption DEF ConnectionOK, IsConnection, NewConnection

LEMMA ConnectionToOK ==
  ASSUME ConnectionsInv, NEW n \in Node, NEW m \in Node
  PROVE  /\ ConnectionOK(calls, n, m, ConnectionTo(n, m))
         /\ ConnectionTo(n, m).pending = Pending(connections, n, m)
BY NewConnectionOK DEF ConnectionTo, Connected, Pending, NewConnection, ConnectionsInv

LEMMA CachedUpdate ==
  ASSUME NEW C, NEW n, NEW m, NEW c, ConnectionOK(C, n, m, c),
         NEW k, DOMAIN k \subseteq Seqn, Range(k) \subseteq UserType \cup {"ERROR"},
         \A s \in DOMAIN k : Given(C, m, n, s, k[s])
  PROVE  LET d == [c EXCEPT !.cached = k]
         IN  ConnectionOK(C, n, m, d) /\ d.pending = c.pending
BY DEF ConnectionOK, IsConnection, UserType

LEMMA CounterReset ==
  ASSUME NEW C, NEW n, NEW m, NEW c, ConnectionOK(C, n, m, c)
  PROVE  LET d == [c EXCEPT !.disconnect_counter = 0]
         IN  /\ ConnectionOK(C, n, m, d) /\ d.pending = c.pending
             /\ d.received = c.received /\ d.handed_over = c.handed_over
             /\ d.cached = c.cached
BY ConfigAssumption DEF ConnectionOK, IsConnection

LEMMA PendingUpdate ==
  ASSUME NEW C, NEW n, NEW m, NEW c, ConnectionOK(C, n, m, c),
         NEW p, DOMAIN p \subseteq Seqn, Range(p) \subseteq PendingResponse,
         NEW b \in BOOLEAN
  PROVE  /\ LET d == [c EXCEPT !.pending = p, !.disconnecting = b]
            IN  ConnectionOK(C, n, m, d) /\ d.pending = p
         /\ LET d == [c EXCEPT !.pending = p]
            IN  ConnectionOK(C, n, m, d) /\ d.pending = p
BY DEF ConnectionOK, IsConnection

\* The connections of one node are replaced.
LEMMA ConnectionsStep ==
  ASSUME ConnectionsInv, Grows(calls, next_seqn, calls', next_seqn'),
         NEW n \in Node, NEW K, connections' = [connections EXCEPT ![n] = K],
         DOMAIN K \subseteq Node, \A m \in DOMAIN K : ConnectionOK(calls', n, m, K[m])
  PROVE  ConnectionsInv'
<1>1. DOMAIN connections' = Node /\ \A k \in Node :
        connections'[k] = IF k = n THEN K ELSE connections[k]
  BY DEF ConnectionsInv
<1>2. \A k \in Node : \A m \in DOMAIN connections[k] :
        ConnectionOK(calls', k, m, connections[k][m])
  BY ConnectionStill DEF ConnectionsInv
<1> QED
  BY <1>1, <1>2 DEF ConnectionsInv

\* One connection is made or replaced, while calls stay as they are.
LEMMA OneConnection ==
  ASSUME CallsInv, ConnectionsInv, WaitInv, UNCHANGED <<calls, next_seqn>>,
         NEW n \in Node, NEW m \in Node, NEW c,
         ConnectionOK(calls, n, m, c), c.pending = Pending(connections, n, m),
         connections' = [connections EXCEPT ![n] = With(@, m, c)]
  PROVE  ConnectionsInv' /\ WaitInv'
<1> DEFINE K == With(connections[n], m, c)
<1>1. DOMAIN K = DOMAIN connections[n] \cup {m}
      /\ \A k \in DOMAIN K : K[k] = IF k = m THEN c ELSE connections[n][k]
  BY DEF With
<1>2. DOMAIN K \subseteq Node /\ \A k \in DOMAIN K : ConnectionOK(calls', n, k, K[k])
  BY <1>1 DEF ConnectionsInv
<1>3. connections' = [connections EXCEPT ![n] = K]
  OBVIOUS
<1>4. ConnectionsInv'
  <2> HIDE DEF K
  <2> QED
    BY <1>2, <1>3, GrowsSame, ConnectionsStep
<1>5. \A i, j \in Node : Pending(connections', i, j) = Pending(connections, i, j)
  <2> HIDE DEF K
  <2> QED
    BY <1>1, <1>3 DEF Pending, ConnectionsInv
<1> QED
  BY <1>4, <1>5, WaitSame

-----------------------------------------------------------------------------
(* Actions that leave the calls alone.                                     *)

LEMMA TailOK ==
  ASSUME NEW C, NEW n, NEW q \in Seq(Request), q # <<>>,
         \A i \in 1..Len(q) : RequestOK(C, n, q[i])
  PROVE  /\ RequestOK(C, n, Head(q)) /\ Tail(q) \in Seq(Request)
         /\ \A i \in 1..Len(Tail(q)) : RequestOK(C, n, Tail(q)[i])
OBVIOUS

LEMMA AppendOK ==
  ASSUME NEW C, NEW n, NEW q \in Seq(Request), NEW r, RequestOK(C, n, r),
         \A i \in 1..Len(q) : RequestOK(C, n, q[i])
  PROVE  /\ Append(q, r) \in Seq(Request)
         /\ \A i \in 1..Len(Append(q, r)) : RequestOK(C, n, Append(q, r)[i])
BY DEF RequestOK

\* A user's answer is one of those a request may get.
LEMMA AnswerGiven ==
  ASSUME NEW C, NEW n, NEW m, NEW s, NEW asked \in UserType, Asked(C, n, m, s, asked),
         NEW type \in Answers(asked)
  PROVE  type \in UserType \cup {"ERROR"} /\ Given(C, n, m, s, type)
BY RefusableAssumption DEF Answers, Given, Asked, UserType

LEMMA ServeStep ==
  ASSUME SocketInv, NEW n \in Node, Serve(n)
  PROVE  SocketInv'
<1> USE DEF SocketInv
<1> DEFINE req == Head(requests[n])
           conn == ConnectionTo(n, req.src)
<1>1. CallsInv' /\ Grows(calls, next_seqn, calls', next_seqn')
  BY GrowsSame DEF Serve
<1>2. /\ RequestOK(calls, n, req) /\ req \in Request
      /\ Tail(requests[n]) \in Seq(Request)
      /\ \A i \in 1..Len(Tail(requests[n])) : RequestOK(calls, n, Tail(requests[n])[i])
  BY TailOK DEF Serve, QueuesInv, RequestOK
<1>3. req.src \in Node /\ req.seqn \in Seqn /\ req.type \in UserType
      /\ Asked(calls, req.src, n, req.seqn, req.type)
  BY <1>2 DEF Request, RequestOK, UserType
<1>4. PICK type \in Answers(req.type) :
        /\ \E erased \in {{}} \cup {{s} : s \in DOMAIN conn.cached} :
             LET kept == Without(conn.cached, erased) IN
             connections' = [connections EXCEPT ![n] = With(@, req.src,
               [conn EXCEPT !.cached =
                  IF req.seqn \in DOMAIN kept THEN kept ELSE With(kept, req.seqn, type)])]
        /\ network' = network \cup {Resp(n, req.src, type, req.seqn)}
  BY DEF Serve
<1>5. type \in UserType \cup {"ERROR"} /\ Given(calls, req.src, n, req.seqn, type)
  BY <1>3, AnswerGiven
<1>6. NetworkInv'
  <2> DEFINE new == {Resp(n, req.src, type, req.seqn)}
  <2>1. \A d \in new : DatagramOK(calls', next_seqn', d)
    BY <1>3, <1>5 DEF Serve, DatagramOK, Datagram, Resp, UserType
  <2>2. network' = network \cup new
    BY <1>4
  <2> HIDE DEF new
  <2> QED
    BY <1>1, <2>1, <2>2, NetworkStep
<1>7. ConnectionsInv' /\ WaitInv'
  <2>1. PICK erased \in {{}} \cup {{s} : s \in DOMAIN conn.cached} :
          LET kept == Without(conn.cached, erased) IN
          connections' = [connections EXCEPT ![n] = With(@, req.src,
            [conn EXCEPT !.cached =
               IF req.seqn \in DOMAIN kept THEN kept ELSE With(kept, req.seqn, type)])]
    BY <1>4
  <2> DEFINE kept == Without(conn.cached, erased)
             k == IF req.seqn \in DOMAIN kept THEN kept ELSE With(kept, req.seqn, type)
             c == [conn EXCEPT !.cached = k]
  <2>2. ConnectionOK(calls, n, req.src, conn) /\ conn.pending = Pending(connections, n, req.src)
    BY <1>3, ConnectionToOK
  <2>3. /\ DOMAIN k \subseteq DOMAIN conn.cached \cup {req.seqn}
        /\ \A s \in DOMAIN k : \/ s \in DOMAIN conn.cached /\ k[s] = conn.cached[s]
                               \/ s = req.seqn /\ k[s] = type
    BY DEF Without, Restrict, With
  <2>4. /\ DOMAIN k \subseteq Seqn /\ Range(k) \subseteq UserType \cup {"ERROR"}
        /\ \A s \in DOMAIN k : Given(calls, req.src, n, s, k[s])
    <3>1. /\ DOMAIN conn.cached \subseteq Seqn
          /\ \A s \in DOMAIN conn.cached :
               /\ conn.cached[s] \in UserType \cup {"ERROR"}
               /\ Given(calls, req.src, n, s, conn.cached[s])
      BY <2>2 DEF ConnectionOK, IsConnection, Range, UserType
    <3> HIDE DEF conn, req, k
    <3> QED
      BY <1>3, <1>5, <2>3, <3>1 DEF Range
  <2>5. ConnectionOK(calls, n, req.src, c) /\ c.pending = Pending(connections, n, req.src)
    <3> HIDE DEF k, conn, req
    <3> QED
      BY <2>2, <2>4, CachedUpdate
  <2>6. connections' = [connections EXCEPT ![n] = With(@, req.src, c)]
    BY <2>1
  <2>7. UNCHANGED <<calls, next_seqn>>
    BY DEF Serve
  <2> HIDE DEF c, req
  <2> QED
    BY <1>3, <2>5, <2>6, <2>7, OneConnection
<1>8. QueuesInv'
  BY <1>2 DEF Serve, QueuesInv
<1>9. FlagsInv'
  BY DEF Serve, FlagsInv
<1> QED
  BY <1>1, <1>6, <1>7, <1>8, <1>9

LEMMA FlagStep ==
  ASSUME SocketInv, NEW n \in Node, CloseChannel(n) \/ BumperExit(n)
  PROVE  SocketInv'
<1> USE DEF SocketInv
<1>0. UNCHANGED <<next_seqn, connections, network, handler, fake_reqs, requests, calls>>
  BY DEF CloseChannel, BumperExit
<1>1. CallsInv' /\ Grows(calls, next_seqn, calls', next_seqn')
  BY <1>0, GrowsSame
<1>2. NetworkInv' /\ ConnectionsInv' /\ QueuesInv' /\ WaitInv'
  BY <1>0, <1>1, NetworkSame, ConnectionsSame, QueuesSame DEF WaitInv
<1>3. FlagsInv'
  BY DEF CloseChannel, BumperExit, FlagsInv
<1> QED
  BY <1>1, <1>2, <1>3

LEMMA HandOverStep ==
  ASSUME SocketInv, NEW n \in Node, HandOver(n) \/ PassFakeReq(n)
  PROVE  SocketInv'
<1> USE DEF SocketInv
<1>0. UNCHANGED <<next_seqn, connections, network, calls>>
  BY DEF HandOver, PassFakeReq
<1>1. CallsInv' /\ Grows(calls, next_seqn, calls', next_seqn')
  BY <1>0, GrowsSame
<1>2. NetworkInv' /\ ConnectionsInv' /\ WaitInv'
  BY <1>0, <1>1, NetworkSame, ConnectionsSame DEF WaitInv
<1>3. ASSUME NEW r, RequestOK(calls, n, r), requests' = [requests EXCEPT ![n] = Append(@, r)]
      PROVE  /\ requests' \in [Node -> Seq(Request)]
             /\ \A m \in Node : \A i \in 1..Len(requests'[m]) : RequestOK(calls, m, requests'[m][i])
  <2> DEFINE q == Append(requests[n], r)
  <2>1. /\ q \in Seq(Request)
        /\ \A i \in 1..Len(q) : RequestOK(calls, n, q[i])
    BY <1>3, AppendOK DEF QueuesInv
  <2>2. requests' = [requests EXCEPT ![n] = q]
    BY <1>3
  <2> HIDE DEF q
  <2> QED
    BY <2>1, <2>2 DEF QueuesInv
<1>4. QueuesInv' /\ FlagsInv'
  <2>1. CASE HandOver(n)
    <3>1. RequestOK(calls, n, handler[n])
      BY <2>1 DEF HandOver, QueuesInv
    <3>2. CASE open[n]
      <4>1. requests' = [requests EXCEPT ![n] = Append(@, handler[n])]
        BY <2>1, <3>2 DEF HandOver
      <4>2. /\ requests' \in [Node -> Seq(Request)]
            /\ \A m \in Node : \A i \in 1..Len(requests'[m]) : RequestOK(calls, m, requests'[m][i])
        BY <1>3, <3>1, <4>1
      <4>3. handler' = [handler EXCEPT ![n] = Idle] /\ UNCHANGED <<fake_reqs, bumper_alive, open, clearing>>
        BY <2>1, <3>2 DEF HandOver
      <4> QED
        BY <1>0, <4>2, <4>3 DEF QueuesInv, FlagsInv
    <3>3. CASE ~open[n]
      BY <1>0, <2>1, <3>3, ZenonT(40) DEF HandOver, QueuesInv, FlagsInv
    <3> QED
      BY <3>2, <3>3
  <2>2. ASSUME NEW r \in fake_reqs[n], PassFakeReq(n),
               IF open[n]
                 THEN /\ requests' = [requests EXCEPT ![n] = Append(@, r)]
                      /\ fake_reqs' = [fake_reqs EXCEPT ![n] = @ \ {r}]
                      /\ UNCHANGED bumper_alive
                 ELSE /\ fake_reqs' = [fake_reqs EXCEPT ![n] = {}]
                      /\ bumper_alive' = [bumper_alive EXCEPT ![n] = FALSE]
                      /\ UNCHANGED requests
        PROVE  QueuesInv' /\ FlagsInv'
    <3>1. RequestOK(calls, n, r)
      BY DEF RequestOK, Asked, QueuesInv
    <3>2. UNCHANGED <<handler, open, clearing>>
      BY <2>2 DEF PassFakeReq
    <3>3. CASE open[n]
      <4>1. requests' = [requests EXCEPT ![n] = Append(@, r)]
        BY <2>2, <3>3
      <4>2. /\ requests' \in [Node -> Seq(Request)]
            /\ \A m \in Node : \A i \in 1..Len(requests'[m]) : RequestOK(calls, m, requests'[m][i])
        BY <1>3, <3>1, <4>1
      <4>3. fake_reqs' = [fake_reqs EXCEPT ![n] = @ \ {r}] /\ UNCHANGED bumper_alive
        BY <2>2, <3>3
      <4> QED
        BY <1>0, <3>2, <4>2, <4>3 DEF QueuesInv, FlagsInv
    <3>4. CASE ~open[n]
      BY <1>0, <2>2, <3>2, <3>4 DEF QueuesInv, FlagsInv
    <3> QED
      BY <3>3, <3>4
  <2> QED
    BY <2>1, <2>2 DEF PassFakeReq
<1> QED
  BY <1>1, <1>2, <1>4
-----------------------------------------------------------------------------
(* The handler takes a request.                                            *)

LEMMA RequestDatagram ==
  ASSUME NetworkInv, NEW d \in network, d.step = "REQ"
  PROVE  /\ d.src \in Node /\ d.dst \in Node /\ d.seqn \in Seqn
         /\ d.type \in UserType \cup {"PING"}
         /\ d.type = "PING" => PingNumber(calls, next_seqn, d.src, d.seqn)
         /\ d.type # "PING" => Asked(calls, d.src, d.dst, d.seqn, d.type)
<1>1. DatagramOK(calls, next_seqn, d)
  BY DEF NetworkInv
<1> QED
  BY <1>1 DEF DatagramOK, Datagram

LEMMA ConnectionsKept ==
  ASSUME CallsInv, ConnectionsInv, WaitInv, UNCHANGED <<calls, next_seqn>>,
         NEW n \in Node, connections' = [connections EXCEPT ![n] = connections[n]]
  PROVE  ConnectionsInv' /\ WaitInv'
<1>1. \A k \in Node : connections'[k] = connections[k]
  BY DEF ConnectionsInv
<1>2. \A i, j \in Node : Pending(connections', i, j) = Pending(connections, i, j)
  BY <1>1 DEF Pending
<1>3. ConnectionsInv'
  <2>1. Grows(calls, next_seqn, calls', next_seqn') /\ DOMAIN connections[n] \subseteq Node
    BY GrowsSame DEF ConnectionsInv
  <2>2. \A m \in DOMAIN connections[n] : ConnectionOK(calls', n, m, connections[n][m])
    BY DEF ConnectionsInv
  <2> QED
    BY <2>1, <2>2, ConnectionsStep
<1> QED
  BY <1>2, <1>3, WaitSame

LEMMA PingStep ==
  ASSUME SocketInv, NEW n \in Node, NEW d \in network,
         HandleReq(n, d), HandlePing(n, d)
  PROVE  NetworkInv' /\ ConnectionsInv' /\ QueuesInv' /\ WaitInv'
<1> USE DEF SocketInv
<1>1. CallsInv' /\ Grows(calls, next_seqn, calls', next_seqn')
      /\ UNCHANGED <<calls, next_seqn>>
  BY GrowsSame DEF HandleReq
<1>2. d.step = "REQ" /\ d.dst = n /\ d.type = "PING"
  BY DEF HandleReq, HandlePing
<1>3. d.src \in Node /\ d.seqn \in Seqn /\ PingNumber(calls, next_seqn, d.src, d.seqn)
  BY <1>2, RequestDatagram
<1>4. NetworkInv'
  <2> DEFINE new == {Resp(n, d.src, "PING", d.seqn)}
  <2>1. \A e \in new : DatagramOK(calls', next_seqn', e)
    BY <1>1, <1>3 DEF DatagramOK, Datagram, Resp
  <2>2. network' = network \cup new
    BY DEF HandlePing
  <2> HIDE DEF new
  <2> QED
    BY <1>1, <2>1, <2>2, NetworkStep
<1>5. ConnectionsInv' /\ WaitInv'
  <2>1. CASE Connected(n, d.src)
    <3> DEFINE c == [connections[n][d.src] EXCEPT !.disconnect_counter = 0]
    <3>1. ConnectionOK(calls, n, d.src, connections[n][d.src])
          /\ connections[n][d.src].pending = Pending(connections, n, d.src)
      BY <2>1 DEF ConnectionsInv, Connected, Pending
    <3>2. ConnectionOK(calls, n, d.src, c) /\ c.pending = Pending(connections, n, d.src)
      BY <3>1, CounterReset
    <3>3. Heard(n, d.src) = With(connections[n], d.src, c)
      BY <2>1 DEF Heard, Connected, With
    <3>4. connections' = [connections EXCEPT ![n] = With(@, d.src, c)]
      BY <3>3 DEF HandlePing
    <3> HIDE DEF c
    <3> QED
      BY <1>1, <1>3, <3>2, <3>4, OneConnection
  <2>2. CASE ~Connected(n, d.src)
    BY <1>1, <2>2, ConnectionsKept DEF HandlePing, Heard
  <2> QED
    BY <2>1, <2>2
<1>6. QueuesInv'
  BY <1>1, QueuesSame DEF HandleReq, HandlePing
<1> QED
  BY <1>4, <1>5, <1>6

LEMMA UnconnectedStep ==
  ASSUME SocketInv, NEW n \in Node, NEW d \in network,
         HandleReq(n, d), HandleUnconnected(n, d)
  PROVE  NetworkInv' /\ ConnectionsInv' /\ QueuesInv' /\ WaitInv'
<1> USE DEF SocketInv
<1>1. CallsInv' /\ Grows(calls, next_seqn, calls', next_seqn')
      /\ UNCHANGED <<calls, next_seqn>>
  BY GrowsSame DEF HandleReq
<1>2. d.step = "REQ" /\ d.dst = n /\ d.type \in {"DATA", "DISCONNECT"}
  BY DEF HandleReq, HandleUnconnected
<1>3. d.src \in Node /\ d.seqn \in Seqn /\ Asked(calls, d.src, n, d.seqn, d.type)
  BY <1>2, RequestDatagram
<1>4. NetworkInv'
  <2> DEFINE type == IF d.type = "DISCONNECT" THEN "DISCONNECT" ELSE "ERROR"
             new == {Resp(n, d.src, type, d.seqn)}
  <2>1. \A e \in new : DatagramOK(calls', next_seqn', e)
    BY <1>1, <1>2, <1>3 DEF DatagramOK, Datagram, Resp, Given, Asked, UserType
  <2>2. network' = network \cup new
    BY DEF HandleUnconnected
  <2> HIDE DEF new
  <2> QED
    BY <1>1, <2>1, <2>2, NetworkStep
<1>5. ConnectionsInv' /\ WaitInv'
  BY <1>1, ConnectionsSame DEF HandleUnconnected, WaitInv
<1>6. QueuesInv'
  BY <1>1, QueuesSame DEF HandleReq, HandleUnconnected
<1> QED
  BY <1>4, <1>5, <1>6

LEMMA ConnectedStep ==
  ASSUME SocketInv, NEW n \in Node, NEW d \in network,
         HandleReq(n, d), HandleConnected(n, d)
  PROVE  NetworkInv' /\ ConnectionsInv' /\ QueuesInv' /\ WaitInv'
<1> USE DEF SocketInv
<1> DEFINE old == ConnectionTo(n, d.src)
           conn == [old EXCEPT !.disconnect_counter = 0]
           taken == [conn EXCEPT !.received = @ \cup {d.seqn}, !.handed_over = @ \cup {d.seqn}]
<1>1. CallsInv' /\ Grows(calls, next_seqn, calls', next_seqn')
      /\ UNCHANGED <<calls, next_seqn>>
  BY GrowsSame DEF HandleReq
<1>2. d.step = "REQ" /\ d.dst = n /\ d.type # "PING"
  BY DEF HandleReq, HandleConnected
<1>3. d.src \in Node /\ d.seqn \in Seqn /\ d.type \in UserType
      /\ Asked(calls, d.src, n, d.seqn, d.type)
  BY <1>2, RequestDatagram
<1>4. ConnectionOK(calls, n, d.src, conn) /\ conn.pending = Pending(connections, n, d.src)
  <2>1. ConnectionOK(calls, n, d.src, old) /\ old.pending = Pending(connections, n, d.src)
    BY <1>3, ConnectionToOK
  <2> HIDE DEF old
  <2> QED
    BY <2>1, CounterReset
<1>5. ConnectionOK(calls, n, d.src, taken) /\ taken.pending = Pending(connections, n, d.src)
  <2> HIDE DEF conn
  <2> QED
    BY <1>3, <1>4 DEF ConnectionOK, IsConnection
<1>6. UNCHANGED <<fake_reqs, requests>>
  BY DEF HandleReq
<1>7. CASE /\ d.seqn \in DOMAIN conn.cached
           /\ network' = network \cup {Resp(n, d.src, conn.cached[d.seqn], d.seqn)}
           /\ connections' = [connections EXCEPT ![n] = With(@, d.src, conn)]
           /\ UNCHANGED handler
  <2> HIDE DEF conn
  <2>1. conn.cached[d.seqn] \in UserType \cup {"ERROR"}
        /\ Given(calls, d.src, n, d.seqn, conn.cached[d.seqn])
    BY <1>4, <1>7 DEF ConnectionOK, IsConnection, Range, UserType
  <2> DEFINE new == {Resp(n, d.src, conn.cached[d.seqn], d.seqn)}
  <2>2. \A e \in new : DatagramOK(calls', next_seqn', e)
    BY <1>1, <1>3, <2>1 DEF DatagramOK, Datagram, Resp, UserType
  <2>3. network' = network \cup new
    BY <1>7
  <2> HIDE DEF new
  <2> QED
    BY <1>1, <1>3, <1>4, <1>6, <1>7, <2>2, <2>3, NetworkStep, OneConnection, QueuesSame
<1>8. CASE /\ connections' = [connections EXCEPT ![n] = With(@, d.src, taken)]
           /\ handler' = [handler EXCEPT ![n] =
                [src |-> d.src, type |-> d.type, seqn |-> d.seqn, fake |-> FALSE]]
           /\ UNCHANGED network
  <2> HIDE DEF taken
  <2> DEFINE r == [src |-> d.src, type |-> d.type, seqn |-> d.seqn, fake |-> FALSE]
  <2>1. RequestOK(calls, n, r)
    BY <1>3 DEF RequestOK, Request, UserType
  <2>2. handler' = [handler EXCEPT ![n] = r]
    BY <1>8
  <2>3. QueuesInv'
    <3> HIDE DEF r
    <3> QED
      BY <1>1, <1>6, <2>1, <2>2 DEF QueuesInv, RequestOK
  <2> QED
    BY <1>1, <1>3, <1>5, <1>8, <2>3, NetworkSame, OneConnection
<1>9. CASE /\ connections' = [connections EXCEPT ![n] = With(@, d.src, conn)]
           /\ UNCHANGED <<network, handler>>
  <2> HIDE DEF conn
  <2> QED
    BY <1>1, <1>3, <1>4, <1>6, <1>9, NetworkSame, OneConnection, QueuesSame
<1> QED
  BY <1>7, <1>8, <1>9 DEF HandleConnected

LEMMA HandleReqStep ==
  ASSUME SocketInv, NEW n \in Node, NEW d \in network, HandleReq(n, d)
  PROVE  SocketInv'
<1>1. CallsInv'
  BY GrowsSame DEF HandleReq, SocketInv
<1>2. NetworkInv' /\ ConnectionsInv' /\ QueuesInv' /\ WaitInv'
  BY PingStep, UnconnectedStep, ConnectedStep DEF HandleReq
<1>3. FlagsInv'
  BY DEF HandleReq, SocketInv, FlagsInv
<1> QED
  BY <1>1, <1>2, <1>3 DEF SocketInv
-----------------------------------------------------------------------------
(* Calls end, and what was pending for them goes.                          *)

\* n's calls become f, in which those of `ended' are over.
Ends(n, ended, f) ==
  /\ calls' = [calls EXCEPT ![n] = f]
  /\ DOMAIN f = DOMAIN calls[n]
  /\ \A s \in DOMAIN f \ ended : f[s] = calls[n][s]
  /\ \A s \in DOMAIN f \cap ended :
       f[s] \in Call /\ f[s].to = calls[n][s].to /\ f[s].type = calls[n][s].type
       /\ ~Waits(f[s])

PendingGoes(n, ended) ==
  /\ \A k, m \in Node : k # n => Pending(connections', k, m) = Pending(connections, k, m)
  /\ \A m \in Node :
       /\ DOMAIN Pending(connections', n, m) = DOMAIN Pending(connections, n, m) \ ended
       /\ \A s \in DOMAIN Pending(connections', n, m) :
            Pending(connections', n, m)[s].type = Pending(connections, n, m)[s].type

NumbersGrow ==
  next_seqn' \in [Node -> Seqn] /\ \A k \in Node : next_seqn[k] <= next_seqn'[k]

LEMMA EndStep ==
  ASSUME CallsInv, WaitInv, NEW n \in Node, NEW ended, NEW f,
         Ends(n, ended, f), PendingGoes(n, ended), NumbersGrow
  PROVE  CallsInv' /\ Grows(calls, next_seqn, calls', next_seqn') /\ WaitInv'
<1> USE DEF Ends, PendingGoes, NumbersGrow
<1>1. DOMAIN calls' = Node /\ \A k \in Node : calls'[k] = IF k = n THEN f ELSE calls[k]
  BY DEF CallsInv, CallsOK
<1>2. \A k \in Node : \A s \in DOMAIN calls[k] :
        /\ calls[k][s] \in Call /\ calls[k][s].to \in Node
        /\ s < next_seqn[k] /\ s \in Seqn /\ s < next_seqn'[k]
  <2> SUFFICES ASSUME NEW k \in Node, NEW s \in DOMAIN calls[k]
               PROVE  /\ calls[k][s] \in Call /\ calls[k][s].to \in Node
                      /\ s < next_seqn[k] /\ s \in Seqn /\ s < next_seqn'[k]
    OBVIOUS
  <2>1. calls[k][s] \in Call /\ s \in Seqn /\ s < next_seqn[k]
    BY DEF CallsInv, CallsOK
  <2>2. s \in Nat /\ next_seqn[k] \in Nat /\ next_seqn'[k] \in Nat
        /\ next_seqn[k] <= next_seqn'[k]
    BY <2>1, SeqnNat DEF CallsInv, CallsOK
  <2> QED
    BY <2>1, <2>2 DEF Call
<1>3. CallsInv'
  <2>1. ASSUME NEW k \in Node, NEW s \in DOMAIN calls'[k]
        PROVE  s \in Seqn /\ s < next_seqn'[k] /\ calls'[k][s] \in Call
    <3>1. CASE k = n
      BY <1>1, <1>2, <2>1, <3>1
    <3>2. CASE k # n
      BY <1>1, <1>2, <2>1, <3>2
    <3> QED
      BY <3>1, <3>2
  <2> QED
    BY <1>1, <2>1 DEF CallsInv, CallsOK
<1>4. Grows(calls, next_seqn, calls', next_seqn')
  BY <1>1 DEF Grows
<1>5. WaitInv'
  <2> SUFFICES ASSUME NEW k \in Node
               PROVE  /\ \A s \in DOMAIN calls'[k] :
                           Waits(calls'[k][s]) =>
                             /\ s \in DOMAIN Pending(connections', k, calls'[k][s].to)
                             /\ Pending(connections', k, calls'[k][s].to)[s].type
                                  = calls'[k][s].type
                      /\ \A m \in Node : \A s \in DOMAIN Pending(connections', k, m) :
                           s \in DOMAIN calls'[k] /\ Waits(calls'[k][s]) /\ calls'[k][s].to = m
    BY DEF WaitInv, WaitOK
  <2>1. /\ \A s \in DOMAIN calls[k] :
             Waits(calls[k][s]) =>
               /\ s \in DOMAIN Pending(connections, k, calls[k][s].to)
               /\ Pending(connections, k, calls[k][s].to)[s].type = calls[k][s].type
        /\ \A m \in Node : \A s \in DOMAIN Pending(connections, k, m) :
             s \in DOMAIN calls[k] /\ Waits(calls[k][s]) /\ calls[k][s].to = m
    BY DEF WaitInv, WaitOK
  <2>2. CASE k # n
    BY <1>1, <1>2, <2>1, <2>2
  <2>3. CASE k = n
    <3>1. ASSUME NEW s \in DOMAIN f, Waits(f[s])
          PROVE  /\ s \in DOMAIN Pending(connections', n, f[s].to)
                 /\ Pending(connections', n, f[s].to)[s].type = f[s].type
      <4>1. s \notin ended /\ f[s] = calls[n][s] /\ f[s].to \in Node
        BY <1>2, <3>1
      <4> DEFINE m == calls[n][s].to
      <4>2. /\ m \in Node /\ s \in DOMAIN Pending(connections, n, m)
            /\ Pending(connections, n, m)[s].type = calls[n][s].type
        BY <2>1, <2>3, <3>1, <4>1
      <4>3. /\ s \in DOMAIN Pending(connections', n, m)
            /\ Pending(connections', n, m)[s].type = calls[n][s].type
        <5> HIDE DEF m
        <5> QED
          BY <4>1, <4>2
      <4> QED
        BY <4>1, <4>3
    <3>2. ASSUME NEW m \in Node, NEW s \in DOMAIN Pending(connections', n, m)
          PROVE  s \in DOMAIN f /\ Waits(f[s]) /\ f[s].to = m
      <4>1. s \in DOMAIN Pending(connections, n, m) /\ s \notin ended
        BY <3>2
      <4> QED
        BY <2>1, <2>3, <4>1
    <3> QED
      BY <1>1, <2>3, <3>1, <3>2
  <2> QED
    BY <2>2, <2>3
<1> QED
  BY <1>3, <1>4, <1>5
-----------------------------------------------------------------------------
(* The handler takes a response.                                           *)

LEMMA ResponseDatagram ==
  ASSUME NetworkInv, NEW d \in network, d.step = "RESP"
  PROVE  /\ d.src \in Node /\ d.dst \in Node /\ d.seqn \in Seqn
         /\ d.type \in UserType \cup {"PING", "ERROR"}
         /\ d.type = "PING" => d.seqn \notin DOMAIN calls[d.dst]
<1>1. DatagramOK(calls, next_seqn, d)
  BY DEF NetworkInv
<1> QED
  BY <1>1 DEF DatagramOK, Datagram, PingNumber, UserType

LEMMA WithoutOK ==
  ASSUME NEW f, DOMAIN f \subseteq Seqn, Range(f) \subseteq PendingResponse, NEW S
  PROVE  /\ DOMAIN Without(f, S) = DOMAIN f \ S
         /\ \A s \in DOMAIN f \ S : Without(f, S)[s] = f[s]
         /\ Range(Without(f, S)) \subseteq PendingResponse
BY DEF Without, Restrict, Range

\* The calls that a response ends: the one it answers, and with a connection
\* those that wait on it.
Over(n, d) ==
  Answered(n, d) \cup
    IF d.type = "DISCONNECT" THEN PendingTo(n, d.src) \ Answered(n, d) ELSE {}

LEMMA HandleRespEnds ==
  ASSUME SocketInv, NEW n \in Node, NEW d \in network, HandleResp(n, d)
  PROVE  \E f : /\ Ends(n, Over(n, d), f)
                /\ \A s \in DOMAIN f \cap Over(n, d) :
                     /\ \E m \in Node : s \in DOMAIN Pending(connections, n, m)
                     /\ f[s] = [calls[n][s] EXCEPT !.outcome = f[s].outcome]
                     /\ \/ f[s].outcome = "missed"
                        \/ <<calls[n][s].to, n, s, f[s].outcome>> \in Replies
<1> DEFINE answered == Answered(n, d)
           dropped == IF d.type = "DISCONNECT" THEN PendingTo(n, d.src) \ answered ELSE {}
           ended == answered \cup dropped
           f == [s \in DOMAIN calls[n] |->
                   CASE s \in answered -> [calls[n][s] EXCEPT !.outcome = d.type]
                     [] s \in dropped -> [calls[n][s] EXCEPT !.outcome = "missed"]
                     [] OTHER -> calls[n][s]]
<1>1. d.step = "RESP" /\ d.dst = n /\ d.src \in Node /\ d.seqn \in Seqn
      /\ d.type \in UserType \cup {"PING", "ERROR"}
      /\ (d.type = "PING" => d.seqn \notin DOMAIN calls[n])
  <2>1. d.step = "RESP" /\ d.dst = n
    BY DEF HandleResp
  <2> QED
    BY <2>1, ResponseDatagram DEF SocketInv
<1>2. UNCHANGED network /\ calls' = [calls EXCEPT ![n] = f] /\ DOMAIN f = DOMAIN calls[n]
  BY DEF HandleResp
<1>3. /\ answered \subseteq DOMAIN Pending(connections, n, d.src) \cap {d.seqn}
      /\ ended \subseteq DOMAIN Pending(connections, n, d.src)
  BY PendingDomain DEF Answered
<1>4. \A s \in DOMAIN Pending(connections, n, d.src) :
        s \in DOMAIN calls[n] /\ calls[n][s].to = d.src
  BY <1>1 DEF SocketInv, WaitInv, WaitOK
<1>5. \A s \in DOMAIN calls[n] : calls[n][s] \in Call
  BY DEF SocketInv, CallsInv, CallsOK
<1>6. \A s \in DOMAIN f \cap answered :
        f[s] = [calls[n][s] EXCEPT !.outcome = d.type] /\ s = d.seqn
        /\ d.type \in UserType \cup {"ERROR"}
  BY <1>1, <1>3, <1>4
<1>7. \A s \in (DOMAIN f \cap ended) \ answered :
        f[s] = [calls[n][s] EXCEPT !.outcome = "missed"]
  OBVIOUS
<1>8. \A s \in DOMAIN f \ ended : f[s] = calls[n][s]
  OBVIOUS
<1>9. \A s \in DOMAIN f \cap ended : s \in answered \/ s \notin answered
  OBVIOUS
<1> HIDE DEF f, ended
<1>10. ASSUME NEW s \in DOMAIN f \cap ended
       PROVE  /\ f[s] \in Call /\ f[s].to = calls[n][s].to /\ f[s].type = calls[n][s].type
              /\ ~Waits(f[s])
              /\ f[s] = [calls[n][s] EXCEPT !.outcome = f[s].outcome]
              /\ \/ f[s].outcome = "missed"
                 \/ <<calls[n][s].to, n, s, f[s].outcome>> \in Replies
  <2>1. calls[n][s] \in Call
    BY <1>2, <1>5
  <2>2. CASE s \in answered
    <3>1. f[s] = [calls[n][s] EXCEPT !.outcome = d.type] /\ s = d.seqn
          /\ d.type \in UserType \cup {"ERROR"}
      BY <1>6, <2>2
    <3>2. <<d.src, d.dst, d.seqn, d.type>> \in Replies
      BY <1>1, <3>1 DEF Replies, UserType
    <3>3. calls[n][s].to = d.src
      BY <1>3, <1>4
    <3> QED
      BY <1>1, <2>1, <3>1, <3>2, <3>3 DEF Call, Waits, UserType
  <2>3. CASE s \notin answered
    <3>1. f[s] = [calls[n][s] EXCEPT !.outcome = "missed"]
      BY <1>7, <2>3
    <3> QED
      BY <2>1, <3>1 DEF Call, Waits
  <2> QED
    BY <2>2, <2>3
<1>11. Ends(n, ended, f)
  BY <1>2, <1>8, <1>10 DEF Ends
<1>12. \A s \in DOMAIN f \cap ended : \E m \in Node : s \in DOMAIN Pending(connections, n, m)
  BY <1>1, <1>3
<1>13. ended = Over(n, d)
  BY DEF ended, Over
<1> QED
  BY <1>10, <1>11, <1>12, <1>13

LEMMA HandleRespConnections ==
  ASSUME SocketInv, NEW n \in Node, NEW d \in network, HandleResp(n, d)
  PROVE  \E K : /\ connections' = [connections EXCEPT ![n] = K]
                /\ DOMAIN K \subseteq DOMAIN connections[n]
                /\ \A m \in DOMAIN K : ConnectionOK(calls, n, m, K[m])
                /\ \A m \in DOMAIN connections[n] \ {d.src} :
                     m \in DOMAIN K /\ K[m].pending = connections[n][m].pending
                /\ d.type = "DISCONNECT" => d.src \notin DOMAIN K
                /\ d.type # "DISCONNECT" /\ d.src \in DOMAIN connections[n] =>
                     /\ d.src \in DOMAIN K
                     /\ DOMAIN K[d.src].pending =
                          DOMAIN connections[n][d.src].pending \ Answered(n, d)
                     /\ \A s \in DOMAIN K[d.src].pending :
                          K[d.src].pending[s] = connections[n][d.src].pending[s]
<1> DEFINE old == connections[n]
           heard == Heard(n, d.src)
           K == IF d.type = "DISCONNECT" \/ ~Connected(n, d.src)
                  THEN Without(heard, {d.src})
                  ELSE [heard EXCEPT ![d.src].pending = Without(@, Answered(n, d))]
<1>1. /\ DOMAIN heard = DOMAIN old
      /\ \A m \in DOMAIN old : /\ ConnectionOK(calls, n, m, heard[m])
                               /\ heard[m].pending = old[m].pending
  <2>1. \A m \in DOMAIN old : ConnectionOK(calls, n, m, old[m])
    BY DEF SocketInv, ConnectionsInv
  <2>2. CASE Connected(n, d.src)
    <3>1. \A m \in DOMAIN old :
            heard[m] = IF m = d.src THEN [old[m] EXCEPT !.disconnect_counter = 0] ELSE old[m]
      BY <2>2 DEF Heard, Connected
    <3>2. DOMAIN heard = DOMAIN old
      BY <2>2 DEF Heard
    <3> HIDE DEF heard
    <3>3. ASSUME NEW m \in DOMAIN old
          PROVE  ConnectionOK(calls, n, m, heard[m]) /\ heard[m].pending = old[m].pending
      <4> DEFINE c == old[m]
      <4>1. ConnectionOK(calls, n, m, c)
        BY <2>1
      <4>2. heard[m] = IF m = d.src THEN [c EXCEPT !.disconnect_counter = 0] ELSE c
        BY <3>1
      <4> HIDE DEF c
      <4>3. ConnectionOK(calls, n, m, heard[m]) /\ heard[m].pending = c.pending
        BY <4>1, <4>2, CounterReset
      <4> QED
        BY <4>3 DEF c
    <3> QED
      BY <3>2, <3>3
  <2>3. CASE ~Connected(n, d.src)
    BY <2>1, <2>3 DEF Heard
  <2> QED
    BY <2>2, <2>3
<1>2. connections' = [connections EXCEPT ![n] = K]
  BY DEF HandleResp
<1>3. CASE d.type = "DISCONNECT" \/ ~Connected(n, d.src)
  <2>1. DOMAIN K = DOMAIN old \ {d.src} /\ \A m \in DOMAIN K : K[m] = heard[m]
    BY <1>1, <1>3 DEF Without, Restrict
  <2>2. d.type = "DISCONNECT" \/ d.src \notin DOMAIN old
    BY <1>3 DEF Connected
  <2> HIDE DEF K, heard, old
  <2>3. /\ DOMAIN K \subseteq DOMAIN old
        /\ \A m \in DOMAIN K : ConnectionOK(calls, n, m, K[m])
        /\ \A m \in DOMAIN old \ {d.src} : m \in DOMAIN K /\ K[m].pending = old[m].pending
        /\ d.type = "DISCONNECT" => d.src \notin DOMAIN K
    BY <1>1, <2>1
  <2> QED
    BY <1>2, <2>2, <2>3 DEF old
<1>4. CASE ~(d.type = "DISCONNECT" \/ ~Connected(n, d.src))
  <2> DEFINE c == [heard[d.src] EXCEPT !.pending = Without(@, Answered(n, d))]
  <2>1. DOMAIN K = DOMAIN old
        /\ \A m \in DOMAIN K : K[m] = IF m = d.src THEN c ELSE heard[m]
    BY <1>1, <1>4
  <2>2. d.src \in DOMAIN old
    BY <1>4 DEF Connected
  <2>3. /\ ConnectionOK(calls, n, d.src, c)
        /\ DOMAIN c.pending = DOMAIN heard[d.src].pending \ Answered(n, d)
        /\ \A s \in DOMAIN c.pending : c.pending[s] = heard[d.src].pending[s]
    <3> DEFINE h == heard[d.src]
               p == Without(h.pending, Answered(n, d))
    <3>1. ConnectionOK(calls, n, d.src, h)
      BY <1>1, <2>2
    <3>2. c = [h EXCEPT !.pending = p]
      OBVIOUS
    <3>3. /\ DOMAIN p = DOMAIN h.pending \ Answered(n, d)
          /\ \A s \in DOMAIN p : p[s] = h.pending[s]
          /\ DOMAIN p \subseteq Seqn /\ Range(p) \subseteq PendingResponse
      <4> HIDE DEF h
      <4>1. DOMAIN h.pending \subseteq Seqn /\ Range(h.pending) \subseteq PendingResponse
        BY <3>1 DEF ConnectionOK, IsConnection
      <4>2. \A S : /\ DOMAIN Without(h.pending, S) = DOMAIN h.pending \ S
                   /\ \A s \in DOMAIN h.pending \ S : Without(h.pending, S)[s] = h.pending[s]
                   /\ Range(Without(h.pending, S)) \subseteq PendingResponse
        BY <4>1, WithoutOK
      <4> QED
        BY <4>1, <4>2
    <3> HIDE DEF c, h, p
    <3>4. ConnectionOK(calls, n, d.src, c) /\ c.pending = p
      BY <3>1, <3>2, <3>3 DEF ConnectionOK, IsConnection
    <3> QED
      BY <3>3, <3>4 DEF h
  <2> HIDE DEF K, heard, old, c
  <2>4. /\ DOMAIN K \subseteq DOMAIN old
        /\ \A m \in DOMAIN K : ConnectionOK(calls, n, m, K[m])
        /\ \A m \in DOMAIN old \ {d.src} : m \in DOMAIN K /\ K[m].pending = old[m].pending
        /\ d.src \in DOMAIN K
        /\ DOMAIN K[d.src].pending = DOMAIN old[d.src].pending \ Answered(n, d)
        /\ \A s \in DOMAIN K[d.src].pending : K[d.src].pending[s] = old[d.src].pending[s]
    BY <1>1, <2>1, <2>2, <2>3
  <2> QED
    BY <1>2, <1>4, <2>4 DEF old
<1> QED
  BY <1>3, <1>4
LEMMA HandleRespStep ==
  ASSUME SocketInv, NEW n \in Node, NEW d \in network, HandleResp(n, d)
  PROVE  SocketInv' /\ Grows(calls, next_seqn, calls', next_seqn')
<1> USE DEF SocketInv
<1> DEFINE ended == Over(n, d)
<1>1. d.src \in Node
  BY ResponseDatagram DEF HandleResp
<1>2. PICK K : /\ connections' = [connections EXCEPT ![n] = K]
               /\ DOMAIN K \subseteq DOMAIN connections[n]
               /\ \A m \in DOMAIN K : ConnectionOK(calls, n, m, K[m])
               /\ \A m \in DOMAIN connections[n] \ {d.src} :
                    m \in DOMAIN K /\ K[m].pending = connections[n][m].pending
               /\ d.type = "DISCONNECT" => d.src \notin DOMAIN K
               /\ d.type # "DISCONNECT" /\ d.src \in DOMAIN connections[n] =>
                    /\ d.src \in DOMAIN K
                    /\ DOMAIN K[d.src].pending =
                         DOMAIN connections[n][d.src].pending \ Answered(n, d)
                    /\ \A s \in DOMAIN K[d.src].pending :
                         K[d.src].pending[s] = connections[n][d.src].pending[s]
  BY HandleRespConnections
<1>3. /\ ended \subseteq DOMAIN Pending(connections, n, d.src)
      /\ d.type = "DISCONNECT" => ended = DOMAIN Pending(connections, n, d.src)
      /\ d.type # "DISCONNECT" => ended = Answered(n, d)
  BY PendingDomain DEF Answered, Over
<1>4. \A m \in Node : \A s \in DOMAIN Pending(connections, n, m) :
        s \in DOMAIN calls[n] /\ calls[n][s].to = m
  BY DEF WaitInv, WaitOK
<1>5. PICK f : Ends(n, ended, f)
  BY HandleRespEnds
<1>6. NumbersGrow
  <2>1. next_seqn' = next_seqn /\ next_seqn \in [Node -> Seqn]
    BY DEF HandleResp, CallsInv, CallsOK
  <2>2. \A k \in Node : next_seqn[k] \in Nat
    BY <2>1, SeqnNat
  <2> QED
    BY <2>1, <2>2 DEF NumbersGrow
<1>7. \A k, m \in Node : k # n => Pending(connections', k, m) = Pending(connections, k, m)
  BY <1>2 DEF Pending, ConnectionsInv
<1>8. ASSUME NEW m \in Node
       PROVE  /\ DOMAIN Pending(connections', n, m) = DOMAIN Pending(connections, n, m) \ ended
              /\ \A s \in DOMAIN Pending(connections', n, m) :
                   Pending(connections', n, m)[s].type = Pending(connections, n, m)[s].type
  <2>0. connections'[n] = K
    BY <1>2 DEF ConnectionsInv
  <2>1. CASE m # d.src
    <3>1. Pending(connections', n, m) = Pending(connections, n, m)
      BY <1>2, <2>0, <2>1 DEF Pending
    <3>2. DOMAIN Pending(connections, n, m) \cap ended = {}
      BY <1>1, <1>3, <1>4, <2>1
    <3> QED
      BY <3>1, <3>2
  <2>2. CASE m = d.src /\ d.type = "DISCONNECT"
    BY <1>2, <1>3, <2>0, <2>2 DEF Pending
  <2>3. CASE m = d.src /\ d.type # "DISCONNECT"
    <3>1. ended = Answered(n, d)
      BY <1>3, <2>3
    <3> HIDE DEF ended
    <3>2. CASE m \in DOMAIN connections[n]
      BY <1>2, <2>0, <2>3, <3>1, <3>2 DEF Pending
    <3>3. CASE m \notin DOMAIN connections[n]
      BY <1>2, <2>0, <3>3 DEF Pending
    <3> QED
      BY <3>2, <3>3
  <2> QED
    BY <2>1, <2>2, <2>3
<1> HIDE DEF ended
<1>9. CallsInv' /\ Grows(calls, next_seqn, calls', next_seqn') /\ WaitInv'
  <2>1. PendingGoes(n, ended)
    BY <1>7, <1>8 DEF PendingGoes
  <2> QED
    BY <1>5, <1>6, <2>1, EndStep
<1>10. ConnectionsInv'
  <2>1. DOMAIN K \subseteq Node
    BY <1>2 DEF ConnectionsInv
  <2>2. \A m \in DOMAIN K : ConnectionOK(calls', n, m, K[m])
    BY <1>2, <1>9, <2>1, ConnectionStill
  <2> QED
    BY <1>2, <1>9, <2>1, <2>2, ConnectionsStep
<1>11. NetworkInv' /\ QueuesInv' /\ FlagsInv'
  BY <1>9, NetworkSame, QueuesSame DEF HandleResp, FlagsInv
<1> QED
  BY <1>9, <1>10, <1>11
-----------------------------------------------------------------------------
(* The steps that draw numbers and give up calls.                          *)

LEMMA SeqnAfterOK ==
  ASSUME CallsInv, NEW n \in Node, NEW k \in Nat
  PROVE  /\ SeqnAfter(n, k) \in Seqn
         /\ next_seqn[n] <= SeqnAfter(n, k)
BY BoundAssumption DEF CallsInv, CallsOK, SeqnAfter, Seqn

LEMMA NumberingOK ==
  ASSUME CallsInv, NEW n \in Node, NEW first \in Nat, NEW A, IsFiniteSet(A),
         NEW f \in Numberings(n, first, A)
  PROVE  /\ DOMAIN f = A
         /\ \A m \in A : /\ f[m] \in Seqn /\ next_seqn[n] <= f[m]
                         /\ f[m] < SeqnAfter(n, first + Cardinality(A)) \/ f[m] = MaxSeqn
<1>1. PICK order \in Bijection(A, 1..Cardinality(A)) :
        f = [m \in A |-> SeqnAfter(n, first + order[m] - 1)]
  BY DEF Numberings
<1>2. Cardinality(A) \in Nat
  BY FS_CardinalityType
<1>3. \A m \in A : order[m] \in 1..Cardinality(A)
  BY DEF Bijection, Injection
<1>4. ASSUME NEW m \in A
      PROVE  /\ f[m] \in Seqn /\ next_seqn[n] <= f[m]
             /\ f[m] < SeqnAfter(n, first + Cardinality(A)) \/ f[m] = MaxSeqn
  <2> DEFINE k == first + order[m] - 1
  <2>1. k \in Nat /\ k < first + Cardinality(A)
    BY <1>2, <1>3
  <2>2. f[m] = SeqnAfter(n, k)
    BY <1>1
  <2>3. next_seqn[n] \in Nat /\ MaxSeqn \in Nat
    BY SeqnNat DEF CallsInv, CallsOK
  <2> HIDE DEF k
  <2>4. f[m] < SeqnAfter(n, first + Cardinality(A)) \/ f[m] = MaxSeqn
    BY <1>2, <2>1, <2>2, <2>3 DEF SeqnAfter
  <2> QED
    BY <2>1, <2>2, <2>4, SeqnAfterOK
<1> QED
  BY <1>1, <1>4

LEMMA NumbersStep ==
  ASSUME CallsInv, NEW n \in Node, NEW k \in Nat,
         next_seqn' = [next_seqn EXCEPT ![n] = SeqnAfter(n, k)]
  PROVE  NumbersGrow
<1>1. next_seqn \in [Node -> Seqn] /\ \A m \in Node : next_seqn[m] \in Nat
  BY SeqnNat DEF CallsInv, CallsOK
<1> QED
  BY <1>1, SeqnAfterOK DEF NumbersGrow

LEMMA MissOK ==
  ASSUME CallsInv, NEW n \in Node, NEW S, MissCalls(n, S)
  PROVE  \E f : Ends(n, S, f)
<1> DEFINE f == [s \in DOMAIN calls[n] |->
                   IF s \in S THEN [calls[n][s] EXCEPT !.outcome = "missed"] ELSE calls[n][s]]
<1>1. calls' = [calls EXCEPT ![n] = f] /\ DOMAIN f = DOMAIN calls[n]
  BY DEF MissCalls, CallsInv, CallsOK
<1>2. \A s \in DOMAIN f \ S : f[s] = calls[n][s]
  OBVIOUS
<1>3. \A s \in DOMAIN f \cap S :
        f[s] \in Call /\ f[s].to = calls[n][s].to /\ f[s].type = calls[n][s].type
        /\ ~Waits(f[s])
  <2>1. \A s \in DOMAIN calls[n] : calls[n][s] \in Call
    BY DEF CallsInv, CallsOK
  <2> QED
    BY <2>1 DEF Call, Waits
<1> HIDE DEF f
<1>4. Ends(n, S, f)
  BY <1>1, <1>2, <1>3 DEF Ends
<1> QED
  BY <1>4

LEMMA ClearStep ==
  ASSUME SocketInv, NEW n \in Node, ClearConnections(n)
  PROVE  SocketInv' /\ Grows(calls, next_seqn, calls', next_seqn')
<1> USE DEF SocketInv
<1> DEFINE remotes == DOMAIN connections[n]
           ended == UNION {PendingTo(n, m) : m \in remotes}
<1>1. remotes \subseteq Node /\ IsFiniteSet(remotes) /\ Cardinality(remotes) \in Nat
  BY NodeAssumption, FS_Subset, FS_CardinalityType DEF ConnectionsInv
<1>2. NumbersGrow
  <2>1. next_seqn' = [next_seqn EXCEPT ![n] = SeqnAfter(n, Cardinality(remotes))]
    BY DEF ClearConnections
  <2> QED
    BY <1>1, <2>1, NumbersStep
<1>3. connections' = [connections EXCEPT ![n] = <<>>]
  BY DEF ClearConnections
<1>4. PendingGoes(n, ended)
  <2>1. \A k \in Node : connections'[k] = IF k = n THEN <<>> ELSE connections[k]
    BY <1>3 DEF ConnectionsInv
  <2>2. \A m \in Node : DOMAIN Pending(connections', n, m) = {}
    BY <2>1 DEF Pending
  <2>3. \A m \in Node : DOMAIN Pending(connections, n, m) \subseteq ended
    BY DEF Pending, PendingTo, Connected
  <2>4. \A k, m \in Node : k # n => Pending(connections', k, m) = Pending(connections, k, m)
    BY <2>1 DEF Pending
  <2> HIDE DEF ended
  <2> QED
    BY <2>2, <2>3, <2>4 DEF PendingGoes
<1>5. PICK f : Ends(n, ended, f)
  <2>1. MissCalls(n, ended)
    BY DEF ClearConnections
  <2> HIDE DEF ended
  <2> QED
    BY <2>1, MissOK
<1>6. CallsInv' /\ Grows(calls, next_seqn, calls', next_seqn') /\ WaitInv'
  <2> HIDE DEF ended
  <2> QED
    BY <1>2, <1>4, <1>5, EndStep
<1>7. NetworkInv'
  <2>1. PICK seqn \in Numberings(n, 0, remotes) :
          network' = network \cup {Req(n, m, "DISCONNECT", seqn[m]) :
                        m \in {r \in remotes : ~connections[n][r].disconnecting}}
    BY DEF ClearConnections
  <2> DEFINE new == {Req(n, m, "DISCONNECT", seqn[m]) :
                        m \in {r \in remotes : ~connections[n][r].disconnecting}}
  <2>2. \A m \in remotes : seqn[m] \in Seqn
    <3> HIDE DEF remotes
    <3> QED
      BY <1>1, NumberingOK
  <2>3. \A d \in new : DatagramOK(calls', next_seqn', d)
    BY <1>1, <2>2 DEF DatagramOK, Datagram, Req, Asked, UserType
  <2>4. network' = network \cup new
    BY <2>1
  <2> HIDE DEF new
  <2> QED
    BY <1>6, <2>3, <2>4, NetworkStep
<1>8. ConnectionsInv'
  <2>1. DOMAIN <<>> \subseteq Node /\ \A m \in DOMAIN <<>> : ConnectionOK(calls', n, m, <<>>[m])
    OBVIOUS
  <2> QED
    BY <1>3, <1>6, <2>1, ConnectionsStep
<1>9. QueuesInv' /\ FlagsInv'
  BY <1>6, QueuesSame DEF ClearConnections, FlagsInv
<1> QED
  BY <1>6, <1>7, <1>8, <1>9
LEMMA BumpPendingOK ==
  ASSUME NEW p \in PendingResponse
  PROVE  BumpPending(p) \in PendingResponse /\ BumpPending(p).type = p.type
<1>1. Cooldown(p.cooldown_attempt + 1) \in Int
  <2>1. /\ p.cooldown_attempt + 1 \in Nat /\ CooldownNumer \in Nat
        /\ CooldownDenom \in Nat \ {0}
    BY ConfigAssumption DEF PendingResponse
  <2>2. (p.cooldown_attempt + 1) * CooldownNumer \in Int
    BY <2>1
  <2>3. ((p.cooldown_attempt + 1) * CooldownNumer) \div CooldownDenom \in Int
    BY <2>1, <2>2
  <2> QED
    BY <2>3 DEF Cooldown
<1> HIDE DEF Cooldown
<1>2. MaxReqAttempts \in Nat
  BY ConfigAssumption
<1>3. CASE p.cooldown_counter > 0
  BY <1>3 DEF BumpPending, PendingResponse
<1>4. CASE ~(p.cooldown_counter > 0)
  <2> DEFINE left == IF p.remaining_attempts = 0 THEN 0 ELSE p.remaining_attempts - 1
             attempt == p.cooldown_attempt + 1
             wait == Cooldown(attempt)
  <2>1. left \in 0..MaxReqAttempts /\ attempt \in Nat /\ wait \in Int
    BY <1>1, <1>2 DEF PendingResponse
  <2>2. BumpPending(p) = [p EXCEPT !.remaining_attempts = left, !.cooldown_attempt = attempt,
                                   !.cooldown_counter = wait]
    BY <1>4 DEF BumpPending
  <2> HIDE DEF left, attempt, wait
  <2> QED
    BY <2>1, <2>2 DEF PendingResponse
<1> QED
  BY <1>3, <1>4

LEMMA BumpConnectionOK ==
  ASSUME NEW C, NEW n, NEW m, NEW c, ConnectionOK(C, n, m, c), ~GivenUp(c)
  PROVE  /\ ConnectionOK(C, n, m, BumpConnection(c))
         /\ DOMAIN BumpConnection(c).pending
              = DOMAIN c.pending \ {s \in DOMAIN c.pending : Exhausted(c.pending[s])}
         /\ \A s \in DOMAIN BumpConnection(c).pending :
              BumpConnection(c).pending[s].type = c.pending[s].type
<1> DEFINE kept == {s \in DOMAIN c.pending : ~Exhausted(c.pending[s])}
           p == [s \in kept |-> BumpPending(c.pending[s])]
           count == c.disconnect_counter + 1
<1>1. \A s \in DOMAIN c.pending : s \in Seqn /\ c.pending[s] \in PendingResponse
  BY DEF ConnectionOK, IsConnection, Range
<1>2. /\ DOMAIN p \subseteq Seqn /\ Range(p) \subseteq PendingResponse
      /\ \A s \in DOMAIN p : p[s].type = c.pending[s].type
  BY <1>1, BumpPendingOK DEF Range
<1>3. count \in 0..MaxDisconnectCount
  BY ConfigAssumption DEF ConnectionOK, IsConnection, GivenUp
<1>4. BumpConnection(c) = [c EXCEPT !.pending = p, !.disconnect_counter = count]
  BY DEF BumpConnection
<1>5. DOMAIN p = DOMAIN c.pending \ {s \in DOMAIN c.pending : Exhausted(c.pending[s])}
  OBVIOUS
<1> HIDE DEF p, count
<1>6. ConnectionOK(C, n, m, BumpConnection(c)) /\ BumpConnection(c).pending = p
  BY <1>2, <1>3, <1>4 DEF ConnectionOK, IsConnection
<1> QED
  BY <1>2, <1>5, <1>6

LEMMA BumpStep ==
  ASSUME SocketInv, NEW n \in Node, Bump(n)
  PROVE  SocketInv' /\ Grows(calls, next_seqn, calls', next_seqn')
<1> USE DEF SocketInv
<1> DEFINE conns == connections[n]
           lost == {m \in DOMAIN conns : GivenUp(conns[m])}
           pinged == {m \in DOMAIN conns : PingDue(conns[m].disconnect_counter + 1)}
           Those(P(_), m) == {s \in DOMAIN conns[m].pending : P(conns[m].pending[s])}
           resent == UNION {{Req(n, m, conns[m].pending[s].type, s) : s \in Those(Resent, m)} :
                              m \in DOMAIN conns}
           expired == UNION {Those(Exhausted, m) : m \in DOMAIN conns}
           dropped == UNION {DOMAIN conns[m].pending : m \in lost}
           ended == expired \cup dropped
           K == [m \in DOMAIN conns \ lost |-> BumpConnection(conns[m])]
           P == Cardinality(pinged)
           L == Cardinality(lost)
<1>1. /\ DOMAIN conns \subseteq Node
      /\ pinged \subseteq Node /\ IsFiniteSet(pinged) /\ P \in Nat
      /\ lost \subseteq Node /\ IsFiniteSet(lost) /\ L \in Nat
  <2>1. DOMAIN conns \subseteq Node
    BY DEF ConnectionsInv
  <2>2. pinged \subseteq Node /\ lost \subseteq Node
    BY <2>1
  <2> HIDE DEF pinged, lost
  <2> QED
    BY <2>1, <2>2, NodeAssumption, FS_Subset, FS_CardinalityType
<1>2. /\ MissCalls(n, ended)
      /\ connections' = [connections EXCEPT ![n] = K]
      /\ next_seqn' = [next_seqn EXCEPT ![n] = SeqnAfter(n, P + L)]
      /\ bumper_alive' = [bumper_alive EXCEPT ![n] = open[n]]
      /\ UNCHANGED <<handler, requests, open, clearing>>
  BY DEF Bump
<1>3. PICK ping \in Numberings(n, 0, pinged) :
        network' = network \cup resent \cup {Req(n, m, "PING", ping[m]) : m \in pinged}
  BY DEF Bump
<1>4. PICK fake \in Numberings(n, P, lost) :
        fake_reqs' = [fake_reqs EXCEPT ![n] =
          {[src |-> m, type |-> "DISCONNECT", seqn |-> fake[m], fake |-> TRUE] : m \in lost}]
  BY DEF Bump
<1>5. \A m \in DOMAIN conns : ConnectionOK(calls, n, m, conns[m])
  BY DEF ConnectionsInv
<1>6. /\ DOMAIN K = DOMAIN conns \ lost
      /\ \A m \in DOMAIN K :
           /\ ConnectionOK(calls, n, m, K[m])
           /\ DOMAIN K[m].pending = DOMAIN conns[m].pending \ Those(Exhausted, m)
           /\ \A s \in DOMAIN K[m].pending : K[m].pending[s].type = conns[m].pending[s].type
  <2>1. DOMAIN K = DOMAIN conns \ lost
    OBVIOUS
  <2>2. ASSUME NEW m \in DOMAIN K
        PROVE  /\ ConnectionOK(calls, n, m, K[m])
               /\ DOMAIN K[m].pending = DOMAIN conns[m].pending \ Those(Exhausted, m)
               /\ \A s \in DOMAIN K[m].pending :
                    K[m].pending[s].type = conns[m].pending[s].type
    <3> DEFINE c == conns[m]
    <3>1. K[m] = BumpConnection(c) /\ ConnectionOK(calls, n, m, c) /\ ~GivenUp(c)
      BY <1>5
    <3>2. Those(Exhausted, m) = {s \in DOMAIN c.pending : Exhausted(c.pending[s])}
      OBVIOUS
    <3> HIDE DEF c, K, Those
    <3> QED
      BY <3>1, <3>2, BumpConnectionOK DEF c
  <2> QED
    BY <2>1, <2>2
<1>7. NumbersGrow
  <2> DEFINE k == P + L
  <2>1. k \in Nat
    BY <1>1
  <2>2. next_seqn' = [next_seqn EXCEPT ![n] = SeqnAfter(n, k)]
    BY <1>2
  <2> HIDE DEF k
  <2> QED
    BY <2>1, <2>2, NumbersStep
<1>8. \A m \in Node : \A s \in DOMAIN Pending(connections, n, m) :
        /\ s \in DOMAIN calls[n] /\ Waits(calls[n][s]) /\ calls[n][s].to = m
        /\ Pending(connections, n, m)[s].type = calls[n][s].type
  BY DEF WaitInv, WaitOK
<1>9. \A m \in DOMAIN conns : Pending(connections, n, m) = conns[m].pending
  BY DEF Pending
<1>10. PendingGoes(n, ended)
  <2>0. \A k \in Node : connections'[k] = IF k = n THEN K ELSE connections[k]
    BY <1>2 DEF ConnectionsInv
  <2>1. \A k, m \in Node : k # n => Pending(connections', k, m) = Pending(connections, k, m)
    BY <2>0 DEF Pending
  <2>2. ASSUME NEW m \in Node
        PROVE  /\ DOMAIN Pending(connections', n, m) = DOMAIN Pending(connections, n, m) \ ended
               /\ \A s \in DOMAIN Pending(connections', n, m) :
                    Pending(connections', n, m)[s].type = Pending(connections, n, m)[s].type
    <3>1. CASE m \notin DOMAIN conns
      <4>1. m \notin DOMAIN K
        BY <3>1
      <4> HIDE DEF K, ended
      <4> QED
        BY <2>0, <3>1, <4>1 DEF Pending
    <3>2. CASE m \in lost
      <4>1. m \notin DOMAIN K /\ DOMAIN conns[m].pending \subseteq ended /\ m \in DOMAIN conns
        BY <3>2
      <4> HIDE DEF K, ended, lost
      <4> QED
        BY <1>9, <2>0, <4>1 DEF Pending
    <3>3. CASE m \in DOMAIN conns \ lost
      <4>1. DOMAIN conns[m].pending \cap ended \subseteq Those(Exhausted, m)
        <5> SUFFICES ASSUME NEW s \in DOMAIN conns[m].pending, s \in ended
                     PROVE  s \in Those(Exhausted, m)
          OBVIOUS
        <5>1. \A k \in DOMAIN conns : s \in DOMAIN conns[k].pending => k = m
          BY <1>1, <1>8, <1>9, <3>3
        <5> QED
          BY <3>3, <5>1
      <4>2. Those(Exhausted, m) \subseteq ended
        BY <3>3
      <4> HIDE DEF K, ended, lost, Those
      <4>3. Pending(connections', n, m) = K[m].pending /\ m \in DOMAIN K
        BY <1>6, <2>0, <3>3 DEF Pending
      <4>4. DOMAIN K[m].pending = DOMAIN conns[m].pending \ ended
        BY <1>6, <4>1, <4>2, <4>3
      <4> QED
        BY <1>6, <1>9, <3>3, <4>3, <4>4
    <3> QED
      BY <3>1, <3>2, <3>3
  <2> HIDE DEF ended
  <2> QED
    BY <2>1, <2>2 DEF PendingGoes
<1>11. PICK f : Ends(n, ended, f)
  <2> HIDE DEF ended
  <2> QED
    BY <1>2, MissOK
<1>12. CallsInv' /\ Grows(calls, next_seqn, calls', next_seqn') /\ WaitInv'
  <2> HIDE DEF ended
  <2> QED
    BY <1>7, <1>10, <1>11, EndStep
<1>13. ConnectionsInv'
  <2> HIDE DEF K
  <2>1. DOMAIN K \subseteq Node
    BY <1>1, <1>6
  <2>2. \A m \in DOMAIN K : ConnectionOK(calls', n, m, K[m])
    BY <1>6, <1>12, <2>1, ConnectionStill
  <2> QED
    BY <1>2, <1>12, <2>1, <2>2, ConnectionsStep
<1>14. NetworkInv'
  <2> DEFINE pings == {Req(n, m, "PING", ping[m]) : m \in pinged}
             new == resent \cup pings
  <2>1. \A d \in resent : DatagramOK(calls', next_seqn', d)
    <3> SUFFICES ASSUME NEW m \in DOMAIN conns, NEW s \in DOMAIN conns[m].pending
                 PROVE  DatagramOK(calls', next_seqn', Req(n, m, conns[m].pending[s].type, s))
      OBVIOUS
    <3> DEFINE type == conns[m].pending[s].type
    <3>1. m \in Node /\ s \in DOMAIN Pending(connections, n, m)
      BY <1>1, <1>9
    <3>2. IsCall(calls, n, m, s, type) /\ s \in Seqn /\ type \in UserType
      <4>1. s \in DOMAIN calls[n] /\ calls[n][s].to = m /\ calls[n][s].type = type
        BY <1>8, <1>9, <3>1
      <4> HIDE DEF type
      <4> QED
        BY <4>1 DEF IsCall, CallsInv, CallsOK, Call, UserType
    <3> HIDE DEF type
    <3>3. IsCall(calls', n, m, s, type)
      BY <1>12, <3>2 DEF IsCall, Grows
    <3> QED
      BY <3>1, <3>2, <3>3 DEF DatagramOK, Datagram, Req, Asked, UserType, type
  <2>2. ASSUME NEW m \in pinged
        PROVE  DatagramOK(calls', next_seqn', Req(n, m, "PING", ping[m]))
    <3>1. /\ ping[m] \in Seqn /\ next_seqn[n] <= ping[m]
          /\ ping[m] < SeqnAfter(n, P) \/ ping[m] = MaxSeqn
      <4>1. \A k \in pinged : /\ ping[k] \in Seqn /\ next_seqn[n] <= ping[k]
                              /\ ping[k] < SeqnAfter(n, 0 + P) \/ ping[k] = MaxSeqn
        <5> HIDE DEF pinged
        <5> QED
          BY <1>1, <1>3, NumberingOK
      <4> HIDE DEF P
      <4> QED
        BY <1>1, <4>1
    <3>2. SeqnAfter(n, P) <= next_seqn'[n] /\ SeqnAfter(n, P) \in Nat /\ next_seqn'[n] \in Nat
      <4> HIDE DEF P, L
      <4> QED
        BY <1>1, <1>2, SeqnNat DEF SeqnAfter, CallsInv, CallsOK
    <3> DEFINE s == ping[m]
               end == SeqnAfter(n, P)
    <3>3. s < next_seqn'[n] \/ s = MaxSeqn
      <4>1. s \in Nat /\ (s < end \/ s = MaxSeqn)
        BY <3>1, SeqnNat
      <4>2. end <= next_seqn'[n] /\ end \in Nat /\ next_seqn'[n] \in Nat
        BY <3>2
      <4> HIDE DEF s, end
      <4> QED
        BY <4>1, <4>2
    <3>4. ping[m] \notin DOMAIN calls'[n]
      <4>1. DOMAIN calls'[n] = DOMAIN calls[n]
        BY <1>11 DEF Ends, CallsInv, CallsOK
      <4>2. /\ \A k \in DOMAIN calls[n] : k < next_seqn[n] /\ k \in Nat
            /\ next_seqn[n] \in Nat
        BY SeqnNat DEF CallsInv, CallsOK
      <4>3. s \in Nat /\ next_seqn[n] <= s
        BY <3>1, SeqnNat
      <4> HIDE DEF s
      <4>4. s \notin DOMAIN calls[n]
        BY <4>2, <4>3
      <4> QED
        BY <4>1, <4>4 DEF s
    <3> QED
      BY <1>1, <3>1, <3>3, <3>4 DEF DatagramOK, Datagram, Req, PingNumber
  <2>3. \A d \in new : DatagramOK(calls', next_seqn', d)
    <3> HIDE DEF resent
    <3> QED
      BY <2>1, <2>2
  <2>4. network' = network \cup new
    BY <1>3
  <2> HIDE DEF new
  <2> QED
    BY <1>12, <2>3, <2>4, NetworkStep
<1>15. QueuesInv'
  <2>1. \A m \in lost : fake[m] \in Seqn
    <3> HIDE DEF lost
    <3> QED
      BY <1>1, <1>4, NumberingOK
  <2> DEFINE made == {[src |-> m, type |-> "DISCONNECT", seqn |-> fake[m], fake |-> TRUE] : m \in lost}
  <2>2. made \subseteq Request /\ \A r \in made : r.type = "DISCONNECT"
    <3>1. \A m \in Node, s \in Seqn :
            [src |-> m, type |-> "DISCONNECT", seqn |-> s, fake |-> TRUE] \in Request
      BY DEF Request
    <3> HIDE DEF lost
    <3> QED
      BY <1>1, <2>1, <3>1
  <2>3. fake_reqs' = [fake_reqs EXCEPT ![n] = made]
    BY <1>4
  <2> HIDE DEF made
  <2>4. /\ \A k \in Node : handler[k] \notin {Idle, Dead} => RequestOK(calls', k, handler[k])
        /\ \A k \in Node : \A i \in 1..Len(requests[k]) : RequestOK(calls', k, requests[k][i])
    BY <1>12, RequestStill DEF QueuesInv
  <2> QED
    BY <1>2, <2>2, <2>3, <2>4 DEF QueuesInv
<1>16. FlagsInv'
  BY <1>2 DEF FlagsInv
<1> QED
  BY <1>12, <1>13, <1>14, <1>15, <1>16
-----------------------------------------------------------------------------
(* A call is made.                                                         *)

LEMMA SendReqStep ==
  ASSUME SocketInv, NEW n \in Node, NEW m \in Node, SendReq(n, m)
  PROVE  SocketInv' /\ Grows(calls, next_seqn, calls', next_seqn')
<1> USE DEF SocketInv
<1> DEFINE seqn == next_seqn[n]
           type == Script[n][Cardinality(DOMAIN calls[n]) + 1]
           local == ~Connected(n, m) /\ type # "CONN"
           old == ConnectionTo(n, m)
           outcome == CASE ~local -> "waiting"
                        [] local /\ type = "DISCONNECT" -> "DISCONNECT"
                        [] local /\ type # "DISCONNECT" -> "missed"
           call == [to |-> m, type |-> type, outcome |-> outcome]
           pending == With(old.pending, seqn, NewPending(type))
           conn == [old EXCEPT !.pending = pending,
                               !.disconnecting = @ \/ type = "DISCONNECT"]
<1>1. type \in UserType
  <2> DEFINE made == Cardinality(DOMAIN calls[n])
  <2>1. DOMAIN calls[n] \subseteq 0..MaxSeqn
    BY DEF CallsInv, CallsOK, Seqn
  <2>2. made \in Nat
    <3>1. IsFiniteSet(0..MaxSeqn)
      BY BoundAssumption, FS_Interval
    <3> QED
      BY <2>1, <3>1, FS_Subset, FS_CardinalityType
  <2>3. made < Len(Script[n])
    BY DEF SendReq
  <2>4. Script[n] \in Seq(UserType)
    BY ScriptAssumption DEF UserType
  <2> HIDE DEF made
  <2>5. made + 1 \in 1..Len(Script[n])
    BY <2>2, <2>3, <2>4
  <2>6. Script[n][made + 1] \in UserType
    BY <2>4, <2>5
  <2> QED
    BY <2>6 DEF made
<1>2. /\ seqn \in Nat /\ seqn \in Seqn /\ seqn < MaxSeqn
      /\ next_seqn' = [next_seqn EXCEPT ![n] = SeqnAfter(n, 1)]
      /\ calls' = [calls EXCEPT ![n] = With(calls[n], seqn, call)]
      /\ UNCHANGED <<handler, bumper_alive, fake_reqs, requests, open, clearing>>
  <2>1. seqn \in Seqn
    BY DEF CallsInv, CallsOK
  <2>2. seqn \in Nat
    BY <2>1, SeqnNat
  <2> QED
    BY <2>1, <2>2 DEF SendReq, CallsInv, CallsOK
<1>3. call \in Call /\ call.to = m /\ call.type = type /\ (Waits(call) <=> ~local)
  BY <1>1 DEF Call, UserType, Waits
<1>4. NumbersGrow
  BY <1>2, NumbersStep
<1>5. seqn < next_seqn'[n]
  BY <1>2, BoundAssumption DEF SeqnAfter, CallsInv, CallsOK
<1> HIDE DEF call
<1>6. /\ DOMAIN calls' = Node
      /\ \A k \in Node : k # n => calls'[k] = calls[k]
      /\ DOMAIN calls'[n] = DOMAIN calls[n] \cup {seqn}
      /\ calls'[n][seqn] = call
      /\ \A s \in DOMAIN calls[n] : s # seqn /\ calls'[n][s] = calls[n][s]
  <2>1. \A s \in DOMAIN calls[n] : s < seqn /\ s \in Nat
    BY SeqnNat DEF CallsInv, CallsOK
  <2>2. \A s \in DOMAIN calls[n] : s # seqn
    BY <1>2, <2>1
  <2>3. DOMAIN calls' = Node /\ calls'[n] = With(calls[n], seqn, call)
        /\ \A k \in Node : k # n => calls'[k] = calls[k]
    BY <1>2 DEF CallsInv, CallsOK
  <2> HIDE DEF seqn
  <2> QED
    BY <2>2, <2>3 DEF With
<1>7. \A k \in Node : \A s \in DOMAIN calls[k] :
        s \in Seqn /\ s < next_seqn'[k] /\ calls[k][s] \in Call
  <2> SUFFICES ASSUME NEW k \in Node, NEW s \in DOMAIN calls[k]
               PROVE  s \in Seqn /\ s < next_seqn'[k] /\ calls[k][s] \in Call
    OBVIOUS
  <2>1. s \in Seqn /\ s < next_seqn[k] /\ calls[k][s] \in Call /\ next_seqn[k] \in Seqn
    BY DEF CallsInv, CallsOK
  <2>2. next_seqn[k] <= next_seqn'[k] /\ next_seqn'[k] \in Seqn
    BY <1>4 DEF NumbersGrow
  <2>3. s \in Nat /\ next_seqn[k] \in Nat /\ next_seqn'[k] \in Nat
    BY <2>1, <2>2, SeqnNat
  <2> QED
    BY <2>1, <2>2, <2>3
<1>8. CallsInv'
  BY <1>2, <1>3, <1>4, <1>5, <1>6, <1>7 DEF CallsInv, CallsOK, NumbersGrow
<1>9. Grows(calls, next_seqn, calls', next_seqn')
  BY <1>2, <1>4, <1>6 DEF Grows, NumbersGrow
<1>10. QueuesInv' /\ FlagsInv'
  BY <1>2, <1>9, QueuesSame DEF FlagsInv
<1>11. CASE local
  <2>1. UNCHANGED <<connections, network>>
    BY <1>11 DEF SendReq
  <2>2. NetworkInv' /\ ConnectionsInv'
    BY <1>8, <1>9, <2>1, NetworkSame, ConnectionsSame
  <2>3. ~Waits(call)
    BY <1>3, <1>11
  <2>4. WaitInv'
    BY <1>6, <2>1, <2>3 DEF WaitInv, WaitOK
  <2> QED
    BY <1>8, <1>9, <1>10, <2>2, <2>4
<1>12. CASE ~local
  <2>1. /\ connections' = [connections EXCEPT ![n] = With(connections[n], m, conn)]
        /\ network' = network \cup {Req(n, m, type, seqn)}
    BY <1>12 DEF SendReq, ConnectionsInv
  <2>2. NetworkInv'
    <3> DEFINE new == {Req(n, m, type, seqn)}
    <3>1. IsCall(calls', n, m, seqn, type)
      BY <1>3, <1>6 DEF IsCall
    <3>2. \A d \in new : DatagramOK(calls', next_seqn', d)
      BY <1>1, <1>2, <3>1 DEF DatagramOK, Datagram, Req, Asked, UserType
    <3>3. network' = network \cup new
      BY <2>1
    <3> HIDE DEF new
    <3> QED
      BY <1>8, <1>9, <3>2, <3>3, NetworkStep
  <2>3. ConnectionOK(calls, n, m, old) /\ old.pending = Pending(connections, n, m)
    BY ConnectionToOK
  <2>4. /\ DOMAIN pending = DOMAIN Pending(connections, n, m) \cup {seqn}
        /\ pending[seqn].type = type
        /\ \A s \in DOMAIN Pending(connections, n, m) :
             s # seqn /\ pending[s] = Pending(connections, n, m)[s]
    <3>1. \A s \in DOMAIN Pending(connections, n, m) : s \in DOMAIN calls[n]
      BY DEF WaitInv, WaitOK
    <3> HIDE DEF old, type, seqn
    <3> QED
      BY <1>6, <2>3, <3>1 DEF With, NewPending
  <2>5. DOMAIN pending \subseteq Seqn /\ Range(pending) \subseteq PendingResponse
    <3>1. NewPending(type) \in PendingResponse
      BY <1>1, ConfigAssumption DEF NewPending, PendingResponse, UserType
    <3>2. \A s \in DOMAIN old.pending : s \in Seqn /\ old.pending[s] \in PendingResponse
      BY <2>3 DEF ConnectionOK, IsConnection, Range
    <3> HIDE DEF old, type, seqn
    <3> QED
      BY <1>2, <3>1, <3>2 DEF With, Range
  <2>6. ConnectionOK(calls, n, m, conn) /\ conn.pending = pending
    <3> HIDE DEF old, pending
    <3> QED
      BY <2>3, <2>5 DEF ConnectionOK, IsConnection
  <2> DEFINE K == With(connections[n], m, conn)
  <2> HIDE DEF conn
  <2>7. /\ DOMAIN K = DOMAIN connections[n] \cup {m} /\ K[m] = conn
        /\ \A k \in DOMAIN K \ {m} : K[k] = connections[n][k]
    BY DEF With
  <2>8. connections' = [connections EXCEPT ![n] = K]
    BY <2>1
  <2> HIDE DEF K
  <2>9. ConnectionsInv'
    <3>1. DOMAIN K \subseteq Node
      BY <2>7 DEF ConnectionsInv
    <3>2. \A k \in DOMAIN K : ConnectionOK(calls, n, k, K[k])
      BY <2>6, <2>7 DEF ConnectionsInv
    <3>3. \A k \in DOMAIN K : ConnectionOK(calls', n, k, K[k])
      BY <1>9, <3>1, <3>2, ConnectionStill
    <3> QED
      BY <1>9, <2>8, <3>1, <3>3, ConnectionsStep
  <2>10. /\ \A i, j \in Node : i # n \/ j # m =>
              Pending(connections', i, j) = Pending(connections, i, j)
         /\ Pending(connections', n, m) = pending
    <3>1. \A k \in Node : connections'[k] = IF k = n THEN K ELSE connections[k]
      BY <2>8 DEF ConnectionsInv
    <3> HIDE DEF pending
    <3> QED
      BY <2>6, <2>7, <3>1 DEF Pending
  <2>11. WaitInv'
    <3> HIDE DEF pending, seqn, type
    <3> SUFFICES ASSUME NEW k \in Node
                 PROVE  /\ \A s \in DOMAIN calls'[k] :
                             Waits(calls'[k][s]) =>
                               /\ s \in DOMAIN Pending(connections', k, calls'[k][s].to)
                               /\ Pending(connections', k, calls'[k][s].to)[s].type
                                    = calls'[k][s].type
                        /\ \A j \in Node : \A s \in DOMAIN Pending(connections', k, j) :
                             s \in DOMAIN calls'[k] /\ Waits(calls'[k][s]) /\ calls'[k][s].to = j
      BY DEF WaitInv, WaitOK
    <3>1. /\ \A s \in DOMAIN calls[k] :
               calls[k][s].to \in Node
               /\ (Waits(calls[k][s]) =>
                     /\ s \in DOMAIN Pending(connections, k, calls[k][s].to)
                     /\ Pending(connections, k, calls[k][s].to)[s].type = calls[k][s].type)
          /\ \A j \in Node : \A s \in DOMAIN Pending(connections, k, j) :
               s \in DOMAIN calls[k] /\ Waits(calls[k][s]) /\ calls[k][s].to = j
      BY DEF WaitInv, WaitOK, CallsInv, CallsOK, Call
    <3>2. CASE k # n
      BY <1>6, <2>10, <3>1, <3>2
    <3>3. CASE k = n
      <4>1. ASSUME NEW s \in DOMAIN calls'[n], Waits(calls'[n][s])
            PROVE  /\ s \in DOMAIN Pending(connections', n, calls'[n][s].to)
                   /\ Pending(connections', n, calls'[n][s].to)[s].type = calls'[n][s].type
        <5>1. CASE s = seqn
          BY <1>3, <1>6, <2>4, <2>10, <5>1
        <5>2. CASE s # seqn
          <6> DEFINE j == calls[n][s].to
          <6>1. /\ j \in Node /\ s \in DOMAIN calls[n] /\ calls'[n][s] = calls[n][s]
                /\ s \in DOMAIN Pending(connections, n, j)
                /\ Pending(connections, n, j)[s].type = calls[n][s].type
            BY <1>6, <3>1, <3>3, <4>1, <5>2
          <6>2. /\ s \in DOMAIN Pending(connections', n, j)
                /\ Pending(connections', n, j)[s].type = calls[n][s].type
            <7> HIDE DEF j
            <7>1. CASE j = m
              BY <2>4, <2>10, <6>1, <7>1
            <7>2. CASE j # m
              BY <2>10, <6>1, <7>2
            <7> QED
              BY <7>1, <7>2
          <6> QED
            BY <6>1, <6>2
        <5> QED
          BY <5>1, <5>2
      <4>2. ASSUME NEW j \in Node, NEW s \in DOMAIN Pending(connections', n, j)
            PROVE  s \in DOMAIN calls'[n] /\ Waits(calls'[n][s]) /\ calls'[n][s].to = j
        <5>1. CASE j = m /\ s = seqn
          BY <1>3, <1>6, <1>12, <5>1
        <5>2. CASE ~(j = m /\ s = seqn)
          <6>1. s \in DOMAIN Pending(connections, n, j)
            BY <2>4, <2>10, <4>2, <5>2
          <6> QED
            BY <1>6, <3>1, <3>3, <6>1
        <5> QED
          BY <5>1, <5>2
      <4> QED
        BY <3>3, <4>1, <4>2
    <3> QED
      BY <3>2, <3>3
  <2> QED
    BY <1>8, <1>9, <1>10, <2>2, <2>9, <2>11
<1> QED
  BY <1>11, <1>12
-----------------------------------------------------------------------------
(* The invariant is inductive.                                             *)

LEMMA InitInv == Init => SocketInv
<1> SUFFICES ASSUME Init
             PROVE  SocketInv
  OBVIOUS
<1> USE DEF Init
<1>1. CallsInv
  <2>1. 0 \in Seqn
    BY BoundAssumption DEF Seqn
  <2> QED
    BY <2>1 DEF CallsInv, CallsOK
<1>2. NetworkInv /\ FlagsInv
  BY DEF NetworkInv, FlagsInv
<1>3. ConnectionsInv
  BY DEF ConnectionsInv
<1>4. QueuesInv
  BY DEF QueuesInv
<1>5. WaitInv
  BY DEF WaitInv, WaitOK, Pending
<1> QED
  BY <1>1, <1>2, <1>3, <1>4, <1>5 DEF SocketInv

LEMMA StutterStep ==
  ASSUME SocketInv, UNCHANGED vars
  PROVE  SocketInv'
<1> USE DEF vars, SocketInv
<1>1. CallsInv' /\ Grows(calls, next_seqn, calls', next_seqn')
  BY GrowsSame
<1>2. NetworkInv' /\ ConnectionsInv' /\ QueuesInv'
  BY <1>1, NetworkSame, ConnectionsSame, QueuesSame
<1>3. WaitInv' /\ FlagsInv'
  BY DEF WaitInv, FlagsInv
<1> QED
  BY <1>1, <1>2, <1>3

LEMMA NextStep ==
  ASSUME SocketInv, Next
  PROVE  SocketInv'
<1>1. PICK n \in Node : Application(n) \/ Handler(n) \/ Bumper(n)
  BY DEF Next
<1>2. CASE Application(n)
  BY <1>2, SendReqStep, ServeStep, FlagStep, ClearStep DEF Application
<1>3. CASE Handler(n)
  BY <1>3, HandleReqStep, HandleRespStep, HandOverStep DEF Handler
<1>4. CASE Bumper(n)
  BY <1>4, BumpStep, FlagStep, HandOverStep DEF Bumper
<1> QED
  BY <1>1, <1>2, <1>3, <1>4

LEMMA InvCorrect == Spec => []SocketInv
<1>1. Init => SocketInv
  BY InitInv
<1>2. SocketInv /\ [Next]_vars => SocketInv'
  BY NextStep, StutterStep
<1> QED
  BY <1>1, <1>2, PTL DEF Spec

(* The sockets keep their types: what a node holds of a connection, and    *)
(* every datagram, request and number, is one the code can make.           *)
THEOREM TypeCorrect == Spec => []TypeOK
BY InvCorrect, InvType, PTL

(* A thread in receive_resp is never forgotten by an erased connection, and*)
(* no request is resent for nobody.                                        *)
THEOREM WaitingIsPendingCorrect == Spec => []WaitingIsPending
BY InvCorrect, InvWaiting, PTL

-----------------------------------------------------------------------------
(* A request taken twice on one connection would have to be missing from   *)
(* received_seqn_set, which never loses what was handed over.              *)

LEMMA TakenOnce ==
  ASSUME SocketInv, Next, NEW k \in Node,
         handler[k] = Idle, handler'[k] \notin {Idle, Dead},
         Connected(k, handler'[k].src)
  PROVE  handler'[k].seqn \notin connections[k][handler'[k].src].handed_over
<1>1. PICK n \in Node : \E d \in network : HandleReq(n, d) /\ HandleConnected(n, d)
  <2>1. CASE UNCHANGED handler
    BY <2>1
  <2>2. PICK n \in Node : Application(n) \/ Handler(n) \/ Bumper(n)
    BY DEF Next
  <2>3. CASE HandOver(n)
    <3>1. handler'[n] \in {Idle, Dead} /\ handler' = [handler EXCEPT ![n] = handler'[n]]
      BY <2>3 DEF HandOver, SocketInv, QueuesInv
    <3> QED
      BY <3>1 DEF SocketInv, QueuesInv
  <2> QED
    BY <2>1, <2>2, <2>3
    DEF Application, Handler, Bumper, SendReq, Serve, CloseChannel, ClearConnections,
        HandleReq, HandlePing, HandleUnconnected, HandleResp, Bump, BumperExit, PassFakeReq
<1>2. PICK d \in network : HandleReq(n, d) /\ HandleConnected(n, d)
  BY <1>1
<1> DEFINE conn == [ConnectionTo(n, d.src) EXCEPT !.disconnect_counter = 0]
<1>3. /\ FirstTime(conn, d.seqn)
      /\ handler' = [handler EXCEPT ![n] =
           [src |-> d.src, type |-> d.type, seqn |-> d.seqn, fake |-> FALSE]]
  BY <1>2 DEF HandleConnected
<1>4. k = n /\ handler'[k].src = d.src /\ handler'[k].seqn = d.seqn
  BY <1>3 DEF SocketInv, QueuesInv
<1>5. ConnectionOK(calls, n, d.src, connections[n][d.src])
      /\ conn.received = connections[n][d.src].received
  <2>1. ConnectionOK(calls, n, d.src, connections[n][d.src])
        /\ ConnectionTo(n, d.src) = connections[n][d.src]
    BY <1>4 DEF ConnectionTo, Connected, SocketInv, ConnectionsInv
  <2> QED
    BY <2>1 DEF ConnectionOK, IsConnection
<1> QED
  BY <1>3, <1>4, <1>5 DEF FirstTime, ConnectionOK

(* However often a request is resent or duplicated, and whatever eviction  *)
(* erases, a connection gives it to the application once.                  *)
THEOREM AtMostOnceCorrect == Spec => AtMostOnce
<1>1. SocketInv /\ [Next]_vars =>
        [\A n \in Node : handler[n] = Idle /\ handler'[n] \notin {Idle, Dead} =>
           LET req == handler'[n] IN
           Connected(n, req.src) => req.seqn \notin connections[n][req.src].handed_over]_vars
  BY TakenOnce
<1> QED
  BY <1>1, InvCorrect, PTL DEF Spec, AtMostOnce
-----------------------------------------------------------------------------
(* The sockets implement module Calls.                                     *)

LEMMA RepliesSame ==
  ASSUME NEW new, network' = network \cup new,
         \A d \in new : d.step = "RESP" => d.type = "PING"
  PROVE  Replies' = Replies
BY DEF Replies

LEMMA RepliesMore ==
  ASSUME NEW m, NEW n, NEW type, NEW s, type # "PING",
         network' = network \cup {Resp(m, n, type, s)}
  PROVE  Replies' = Replies \cup {<<m, n, s, type>>}
<1> DEFINE d == Resp(m, n, type, s)
<1>1. d.step = "RESP" /\ d.type = type /\ d.src = m /\ d.dst = n /\ d.seqn = s
  BY DEF Resp
<1>2. network' = network \cup {d}
  OBVIOUS
<1> HIDE DEF d
<1> QED
  BY <1>1, <1>2 DEF Replies

\* A reply of m to n is one the promise allows.
LEMMA ReplyStep ==
  ASSUME NEW m \in Node, NEW n \in Node, NEW s \in Seqn,
         NEW type \in UserType \cup {"ERROR"},
         Given(calls, n, m, s, type),
         UNCHANGED calls, network' = network \cup {Resp(m, n, type, s)}
  PROVE  Promise!Next
<1>1. Replies' = Replies \cup {<<m, n, s, type>>}
  BY RepliesMore DEF UserType
<1>2. Promise!MayReply(m, n, s, type)
  BY DEF Promise!MayReply, Given, Asked, IsCall
<1>3. Promise!Reply
  BY <1>1, <1>2 DEF Promise!Reply, UserType
<1> QED
  BY <1>3 DEF Promise!Next

LEMMA MakeStep ==
  ASSUME SocketInv, NEW n \in Node, NEW m \in Node, SendReq(n, m)
  PROVE  Promise!Next
<1> DEFINE seqn == next_seqn[n]
           type == Script[n][Cardinality(DOMAIN calls[n]) + 1]
           local == ~Connected(n, m) /\ type # "CONN"
           outcome == CASE ~local -> "waiting"
                        [] local /\ type = "DISCONNECT" -> "DISCONNECT"
                        [] local /\ type # "DISCONNECT" -> "missed"
<1>1. SocketInv' /\ Grows(calls, next_seqn, calls', next_seqn')
  BY SendReqStep
<1>2. calls' = [calls EXCEPT ![n] =
                  With(calls[n], seqn, [to |-> m, type |-> type, outcome |-> outcome])]
  BY DEF SendReq, SocketInv, CallsInv, CallsOK
<1>3. seqn \in Seqn \ DOMAIN calls[n]
  <2>1. seqn \in Seqn /\ \A s \in DOMAIN calls[n] : s \in Nat /\ s < seqn
    BY SeqnNat DEF SocketInv, CallsInv, CallsOK
  <2>2. seqn \in Nat
    BY <2>1, SeqnNat
  <2> HIDE DEF seqn
  <2> QED
    BY <2>1, <2>2
<1>4. type \in UserType
  <2> DEFINE call == [to |-> m, type |-> type, outcome |-> outcome]
  <2> HIDE DEF seqn, type, call
  <2>1. calls'[n] = With(calls[n], seqn, call)
    BY <1>2 DEF SocketInv, CallsInv, CallsOK, call
  <2>2. seqn \in DOMAIN calls'[n] /\ calls'[n][seqn] = call
    BY <2>1 DEF With
  <2>3. call \in Call
    BY <1>1, <2>2 DEF SocketInv, CallsInv, CallsOK
  <2> QED
    BY <2>3 DEF Call, UserType, call
<1>5. outcome \in {"waiting"} \cup Promise!Ended(type)
  BY DEF Promise!Ended
<1>6. UNCHANGED Replies
  <2>1. CASE local
    BY <2>1 DEF SendReq, Replies
  <2>2. CASE ~local
    <3> DEFINE new == {Req(n, m, type, seqn)}
    <3>1. network' = network \cup new
      BY <2>2 DEF SendReq
    <3>2. \A d \in new : d.step = "RESP" => d.type = "PING"
      BY DEF Req
    <3> HIDE DEF new
    <3> QED
      BY <3>1, <3>2, RepliesSame
  <2> QED
    BY <2>1, <2>2
<1>7. Promise!Make(n)
  <2> HIDE DEF seqn, type, outcome
  <2>1. calls' = [calls EXCEPT ![n] = [t \in DOMAIN calls[n] \cup {seqn} |->
          IF t = seqn THEN [to |-> m, type |-> type, outcome |-> outcome] ELSE calls[n][t]]]
    BY <1>2 DEF With
  <2>2. \E s \in Seqn \ DOMAIN calls[n], t \in {"CONN", "DATA", "DISCONNECT"} :
          \E o \in {"waiting"} \cup Promise!Ended(t) :
            calls' = [calls EXCEPT ![n] = [u \in DOMAIN calls[n] \cup {s} |->
              IF u = s THEN [to |-> m, type |-> t, outcome |-> o] ELSE calls[n][u]]]
    BY <1>3, <1>4, <1>5, <2>1 DEF UserType
  <2> QED
    BY <1>6, <2>2 DEF Promise!Make
<1> QED
  BY <1>7 DEF Promise!Next

\* Calls that waited end; their replies, if any, are on the network.
LEMMA EndPromise ==
  ASSUME SocketInv, NEW n \in Node, NEW ended, NEW f, Ends(n, ended, f),
         \A s \in DOMAIN f \cap ended :
           /\ \E m \in Node : s \in DOMAIN Pending(connections, n, m)
           /\ f[s] = [calls[n][s] EXCEPT !.outcome = f[s].outcome]
           /\ \/ f[s].outcome = "missed"
              \/ <<calls[n][s].to, n, s, f[s].outcome>> \in Replies,
         UNCHANGED Replies
  PROVE  Promise!Next
<1>1. calls'[n] = f /\ DOMAIN f = DOMAIN calls[n] /\ \A m \in Node \ {n} : calls'[m] = calls[m]
  BY DEF Ends, SocketInv, CallsInv, CallsOK
<1>2. \A s \in DOMAIN f \ ended : f[s] = calls[n][s]
  BY DEF Ends
<1>3. \A s \in DOMAIN f \cap ended : calls[n][s].outcome = "waiting"
  <2>1. \A m \in Node : \A s \in DOMAIN Pending(connections, n, m) : Waits(calls[n][s])
    BY DEF SocketInv, WaitInv, WaitOK
  <2> QED
    BY <2>1 DEF Waits
<1>4. Promise!End(n)
  BY <1>1, <1>2, <1>3 DEF Promise!End, Promise!MayEnd
<1> QED
  BY <1>4 DEF Promise!Next

LEMMA MissPromise ==
  ASSUME SocketInv, NEW n \in Node, NEW S, MissCalls(n, S),
         \A s \in DOMAIN calls[n] \cap S :
           \E m \in Node : s \in DOMAIN Pending(connections, n, m),
         UNCHANGED Replies
  PROVE  Promise!Next
<1> DEFINE f == [s \in DOMAIN calls[n] |->
                   IF s \in S THEN [calls[n][s] EXCEPT !.outcome = "missed"] ELSE calls[n][s]]
<1>1. PICK g : Ends(n, S, g)
  BY MissOK DEF SocketInv
<1>2. g = f
  BY <1>1 DEF Ends, MissCalls, SocketInv, CallsInv, CallsOK
<1>3. \A s \in DOMAIN f \cap S :
        f[s].outcome = "missed" /\ f[s] = [calls[n][s] EXCEPT !.outcome = f[s].outcome]
  BY DEF SocketInv, CallsInv, CallsOK, Call
<1>4. DOMAIN f = DOMAIN calls[n]
  OBVIOUS
<1> HIDE DEF f
<1> QED
  BY <1>1, <1>2, <1>3, <1>4, EndPromise
LEMMA ServePromise ==
  ASSUME SocketInv, NEW n \in Node, Serve(n)
  PROVE  Promise!Next
<1> DEFINE req == Head(requests[n])
<1>1. RequestOK(calls, n, req)
  BY TailOK DEF Serve, SocketInv, QueuesInv
<1>2. /\ req.src \in Node /\ req.seqn \in Seqn /\ req.type \in UserType
      /\ Asked(calls, req.src, n, req.seqn, req.type)
  BY <1>1 DEF RequestOK, Request, UserType
<1>3. PICK type \in Answers(req.type) :
        network' = network \cup {Resp(n, req.src, type, req.seqn)} /\ UNCHANGED calls
  BY DEF Serve
<1> HIDE DEF req
<1>4. type \in UserType \cup {"ERROR"} /\ Given(calls, req.src, n, req.seqn, type)
  BY <1>2, AnswerGiven
<1> QED
  BY <1>2, <1>3, <1>4, ReplyStep

LEMMA HandleReqPromise ==
  ASSUME SocketInv, NEW n \in Node, NEW d \in network, HandleReq(n, d)
  PROVE  Promise!Next \/ UNCHANGED Promise!callVars
<1> USE DEF SocketInv, Promise!callVars
<1>1. UNCHANGED calls /\ d.step = "REQ" /\ d.dst = n
  BY DEF HandleReq
<1>2. /\ d.src \in Node /\ d.seqn \in Seqn /\ d.type \in UserType \cup {"PING"}
      /\ (d.type # "PING" => Asked(calls, d.src, n, d.seqn, d.type))
  BY <1>1, RequestDatagram
<1>3. CASE HandlePing(n, d)
  <2> DEFINE new == {Resp(n, d.src, "PING", d.seqn)}
  <2>1. network' = network \cup new
    BY <1>3 DEF HandlePing
  <2>2. \A e \in new : e.step = "RESP" => e.type = "PING"
    BY DEF Resp
  <2> HIDE DEF new
  <2> QED
    BY <1>1, <2>1, <2>2, RepliesSame
<1>4. CASE HandleUnconnected(n, d)
  <2> DEFINE type == IF d.type = "DISCONNECT" THEN "DISCONNECT" ELSE "ERROR"
  <2>1. network' = network \cup {Resp(n, d.src, type, d.seqn)}
    BY <1>4 DEF HandleUnconnected
  <2>2. type \in UserType \cup {"ERROR"}
        /\ Given(calls, d.src, n, d.seqn, type)
    BY <1>2, <1>4 DEF HandleUnconnected, Given, Asked, UserType
  <2> HIDE DEF type
  <2> QED
    BY <1>1, <1>2, <2>1, <2>2, ReplyStep
<1>5. CASE HandleConnected(n, d)
  <2> DEFINE old == ConnectionTo(n, d.src)
             conn == [old EXCEPT !.disconnect_counter = 0]
  <2>1. CASE UNCHANGED network
    BY <1>1, <2>1 DEF Replies
  <2>2. CASE d.seqn \in DOMAIN conn.cached
             /\ network' = network \cup {Resp(n, d.src, conn.cached[d.seqn], d.seqn)}
    <3>1. ConnectionOK(calls, n, d.src, old)
      BY <1>2, ConnectionToOK
    <3>2. ConnectionOK(calls, n, d.src, conn)
      <4> HIDE DEF old
      <4> QED
        BY <3>1, CounterReset
    <3> HIDE DEF conn
    <3> DEFINE type == conn.cached[d.seqn]
    <3>3. type \in UserType \cup {"ERROR"} /\ Given(calls, d.src, n, d.seqn, type)
      BY <2>2, <3>2 DEF ConnectionOK, IsConnection, Range, UserType
    <3>4. network' = network \cup {Resp(n, d.src, type, d.seqn)}
      BY <2>2
    <3> HIDE DEF type
    <3> QED
      BY <1>1, <1>2, <3>3, <3>4, ReplyStep
  <2> QED
    BY <1>5, <2>1, <2>2 DEF HandleConnected
<1> QED
  BY <1>3, <1>4, <1>5 DEF HandleReq

LEMMA HandleRespPromise ==
  ASSUME SocketInv, NEW n \in Node, NEW d \in network, HandleResp(n, d)
  PROVE  Promise!Next
<1>1. UNCHANGED Replies
  BY DEF HandleResp, Replies
<1> QED
  BY <1>1, HandleRespEnds, EndPromise

LEMMA ClearPromise ==
  ASSUME SocketInv, NEW n \in Node, ClearConnections(n)
  PROVE  Promise!Next
<1> DEFINE remotes == DOMAIN connections[n]
           ended == UNION {PendingTo(n, m) : m \in remotes}
<1>1. MissCalls(n, ended)
  BY DEF ClearConnections
<1>2. \A s \in ended : \E m \in Node : s \in DOMAIN Pending(connections, n, m)
  BY DEF PendingTo, Connected, Pending, SocketInv, ConnectionsInv
<1>3. UNCHANGED Replies
  <2>1. PICK seqn \in Numberings(n, 0, remotes) :
          network' = network \cup {Req(n, m, "DISCONNECT", seqn[m]) :
                        m \in {r \in remotes : ~connections[n][r].disconnecting}}
    BY DEF ClearConnections
  <2> DEFINE new == {Req(n, m, "DISCONNECT", seqn[m]) :
                        m \in {r \in remotes : ~connections[n][r].disconnecting}}
  <2>2. \A d \in new : d.step = "RESP" => d.type = "PING"
    BY DEF Req
  <2>3. network' = network \cup new
    BY <2>1
  <2> HIDE DEF new
  <2> QED
    BY <2>2, <2>3, RepliesSame
<1> HIDE DEF ended
<1> QED
  BY <1>1, <1>2, <1>3, MissPromise

LEMMA BumpPromise ==
  ASSUME SocketInv, NEW n \in Node, Bump(n)
  PROVE  Promise!Next
<1> DEFINE conns == connections[n]
           lost == {m \in DOMAIN conns : GivenUp(conns[m])}
           pinged == {m \in DOMAIN conns : PingDue(conns[m].disconnect_counter + 1)}
           Those(P(_), m) == {s \in DOMAIN conns[m].pending : P(conns[m].pending[s])}
           resent == UNION {{Req(n, m, conns[m].pending[s].type, s) : s \in Those(Resent, m)} :
                              m \in DOMAIN conns}
           expired == UNION {Those(Exhausted, m) : m \in DOMAIN conns}
           dropped == UNION {DOMAIN conns[m].pending : m \in lost}
           ended == expired \cup dropped
<1>1. MissCalls(n, ended)
  BY DEF Bump
<1>2. \A s \in ended : \E m \in Node : s \in DOMAIN Pending(connections, n, m)
  BY DEF Pending, SocketInv, ConnectionsInv
<1>3. UNCHANGED Replies
  <2>1. PICK ping \in Numberings(n, 0, pinged) :
          network' = network \cup resent \cup {Req(n, m, "PING", ping[m]) : m \in pinged}
    BY DEF Bump
  <2> DEFINE new == resent \cup {Req(n, m, "PING", ping[m]) : m \in pinged}
  <2>2. \A d \in new : d.step = "RESP" => d.type = "PING"
    BY DEF Req
  <2>3. network' = network \cup new
    BY <2>1
  <2> HIDE DEF new
  <2> QED
    BY <2>2, <2>3, RepliesSame
<1> HIDE DEF ended
<1> QED
  BY <1>1, <1>2, <1>3, MissPromise

LEMMA PromiseStep ==
  ASSUME SocketInv, Next
  PROVE  Promise!Next \/ UNCHANGED Promise!callVars
<1>1. PICK n \in Node : Application(n) \/ Handler(n) \/ Bumper(n)
  BY DEF Next
<1>2. CASE UNCHANGED <<calls, network>>
  BY <1>2 DEF Replies, Promise!callVars
<1>3. CASE Application(n)
  BY <1>2, <1>3, MakeStep, ServePromise, ClearPromise DEF Application, CloseChannel
<1>4. CASE Handler(n)
  BY <1>2, <1>4, HandleReqPromise, HandleRespPromise DEF Handler, HandOver
<1>5. CASE Bumper(n)
  BY <1>2, <1>5, BumpPromise DEF Bumper, BumperExit, PassFakeReq
<1> QED
  BY <1>1, <1>3, <1>4, <1>5

(* Resending, duplicates, caches, evictions and giving up stay within what *)
(* send_req promises: a call ends once, in a MissedResponse or with a reply*)
(* the other side gave to it, or with a DISCONNECT.                        *)
THEOREM CallsImplementedCorrect == Spec => CallsImplemented
<1>1. Init => Promise!Init
  BY DEF Init, Promise!Init, Replies
<1>2. SocketInv /\ [Next]_vars => [Promise!Next]_(Promise!callVars)
  <2>1. CASE Next
    BY <2>1, PromiseStep
  <2>2. CASE UNCHANGED vars
    BY <2>2 DEF vars, Replies, Promise!callVars
  <2> QED
    BY <2>1, <2>2
<1> QED
  BY <1>1, <1>2, InvCorrect, PTL DEF Spec, CallsImplemented, Promise!CallsSpec
=============================================================================
