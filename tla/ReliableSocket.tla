--------------------------- MODULE ReliableSocket ---------------------------
(***************************************************************************)
(* The reliable sockets of shared/socket.cpp, talking over UDP.  A socket  *)
(* has three threads: `input' and `handler' take datagrams, `bumper'       *)
(* counts silence and resends; the application calls send_req, receive_req *)
(* and disconnect from threads of its own.  What runs under                *)
(* net_control_mutex is one action; what a thread does after it releases   *)
(* the mutex (the pushes to the application's channel) is another.         *)
(*                                                                         *)
(* The network loses, duplicates, delays and reorders: a datagram once     *)
(* sent may be handled any number of times or never.  A datagram waiting   *)
(* in the channel from `input' to `handler' is one not yet handled.        *)
(*                                                                         *)
(* An operator named Mutant... is a wrong version of the definition below  *)
(* it, no part of the specification.                                       *)
(***************************************************************************)
EXTENDS SocketTimers, Sequences, FiniteSets, Functions

CONSTANTS Node,               \* processes, each with one socket and one address
          Script,             \* Script[n]: types of the requests n's users send, in order
          Disconnects,        \* nodes whose users call disconnect() in this instance
          Refusable,          \* types of request that users refuse in this instance
          MaxSeqn,            \* bound: sequence numbers modelled per process
          MaxWaiting,         \* bound: calls of one process that wait at once
          MaxQueue,           \* bound: a request is taken while fewer wait to be served
          Idle, Dead          \* control states of a handler thread

ASSUME NodeAssumption == IsFiniteSet(Node)
ASSUME ScriptAssumption ==
  \A n \in Node : Script[n] \in Seq({"CONN", "DATA", "DISCONNECT"})
\* Nobody refuses a DISCONNECT.
ASSUME RefusableAssumption == Refusable \subseteq {"CONN", "DATA"}
ASSUME BoundAssumption == {MaxSeqn, MaxWaiting, MaxQueue} \subseteq Nat \ {0}

VARIABLES
  next_seqn,     \* the process-wide counter of fill_req
  connections,   \* connections[n]: remote address -> Connection
  network,       \* every datagram ever sent
  handler,       \* Idle, Dead, or the request being passed to the application
  bumper_alive,  \* the bumper thread is in its loop
  fake_reqs,     \* fake_reqs[n]: what `bump' returned, not yet passed on
  requests,      \* the channel to receive_req
  open,          \* that channel has not been disconnected
  clearing,      \* a disconnect() has closed the channel, not yet the connections
  calls          \* calls[n]: seqn -> the SentReq of a request made with send_req

vars == <<next_seqn, connections, network, handler, bumper_alive, fake_reqs,
          requests, open, clearing, calls>>

-----------------------------------------------------------------------------
Seqn == 0..MaxSeqn     \* MaxSeqn itself stands for every number beyond the bound

Datagram == [src : Node, dst : Node, step : {"REQ", "RESP"},
             type : {"CONN", "DATA", "DISCONNECT", "PING", "ERROR"}, seqn : Seqn]

Request == [src : Node, type : {"CONN", "DATA", "DISCONNECT"}, seqn : Seqn, fake : BOOLEAN]

PendingResponse ==
  [type : {"CONN", "DATA", "DISCONNECT"}, cooldown_attempt : Nat,
   cooldown_counter : Int, remaining_attempts : 0..MaxReqAttempts]

\* received: received_seqn_set; cached: the types of cached_sent_resps.
\* handed_over is history: the requests of this connection the handler took.
IsConnection(c) ==
  /\ DOMAIN c = {"pending", "received", "cached", "disconnecting",
                 "disconnect_counter", "handed_over"}
  /\ DOMAIN c.pending \subseteq Seqn /\ Range(c.pending) \subseteq PendingResponse
  /\ c.received \subseteq Seqn /\ c.handed_over \subseteq Seqn
  /\ DOMAIN c.cached \subseteq Seqn
  /\ Range(c.cached) \subseteq {"CONN", "DATA", "DISCONNECT", "ERROR"}
  /\ c.disconnecting \in BOOLEAN
  /\ c.disconnect_counter \in 0..MaxDisconnectCount

NewConnection ==
  [pending |-> <<>>, received |-> {}, cached |-> <<>>, disconnecting |-> FALSE,
   disconnect_counter |-> 0, handed_over |-> {}]

\* outcome: "waiting", "missed" (MissedResponse), or the type of the response.
Call == [to : Node, type : {"CONN", "DATA", "DISCONNECT"},
         outcome : {"waiting", "missed", "CONN", "DATA", "DISCONNECT", "ERROR"}]

TypeOK ==
  /\ next_seqn \in [Node -> Seqn]
  /\ DOMAIN connections = Node
  /\ \A n \in Node : /\ DOMAIN connections[n] \subseteq Node
                     /\ \A m \in DOMAIN connections[n] : IsConnection(connections[n][m])
  /\ network \subseteq Datagram
  /\ handler \in [Node -> Request \cup {Idle, Dead}]
  /\ bumper_alive \in [Node -> BOOLEAN]
  /\ fake_reqs \in [Node -> SUBSET Request]
  /\ requests \in [Node -> Seq(Request)]
  /\ open \in [Node -> BOOLEAN]
  /\ clearing \in [Node -> BOOLEAN]
  /\ DOMAIN calls = Node
  /\ \A n \in Node : DOMAIN calls[n] \subseteq Seqn /\ Range(calls[n]) \subseteq Call

Init ==
  /\ next_seqn = [n \in Node |-> 0]
  /\ connections = [n \in Node |-> <<>>]
  /\ network = {}
  /\ handler = [n \in Node |-> Idle]
  /\ bumper_alive = [n \in Node |-> TRUE]
  /\ fake_reqs = [n \in Node |-> {}]
  /\ requests = [n \in Node |-> <<>>]
  /\ open = [n \in Node |-> TRUE]
  /\ clearing = [n \in Node |-> FALSE]
  /\ calls = [n \in Node |-> <<>>]

-----------------------------------------------------------------------------
(* Maps, and the parts the operations share.                               *)

With(f, x, v) == [y \in DOMAIN f \cup {x} |-> IF y = x THEN v ELSE f[y]]
Without(f, xs) == Restrict(f, DOMAIN f \ xs)

Connected(n, m) == m \in DOMAIN connections[n]

\* connections[n][m], made on the spot when there is none.
ConnectionTo(n, m) == IF Connected(n, m) THEN connections[n][m] ELSE NewConnection

Req(n, m, type, seqn) == [src |-> n, dst |-> m, step |-> "REQ", type |-> type, seqn |-> seqn]
Resp(n, m, type, seqn) == [src |-> n, dst |-> m, step |-> "RESP", type |-> type, seqn |-> seqn]

\* The counter after k more calls of fill_req.
SeqnAfter(n, k) == IF next_seqn[n] + k < MaxSeqn THEN next_seqn[n] + k ELSE MaxSeqn

\* The ways to draw one number for each of these addresses, after `first' others.
Numberings(n, first, addresses) ==
  {[m \in addresses |-> SeqnAfter(n, first + order[m] - 1)] :
     order \in Bijection(addresses, 1..Cardinality(addresses))}

\* The callbacks of these requests are destroyed: receive_resp throws.
MutantMissCalls(n, seqns) == seqns \subseteq Seqn /\ UNCHANGED calls  \* nobody is told
MissCalls(n, seqns) ==
  calls' = [calls EXCEPT ![n] = [s \in DOMAIN @ |->
              IF s \in seqns THEN [@[s] EXCEPT !.outcome = "missed"] ELSE @[s]]]

\* The requests that wait for a response of m.
PendingTo(n, m) == IF Connected(n, m) THEN DOMAIN connections[n][m].pending ELSE {}

-----------------------------------------------------------------------------
(* The application.                                                        *)

\* unsafe_send_req with a callback.
SendReq(n, m) ==
  LET seqn == next_seqn[n]
      made == Cardinality(DOMAIN calls[n])
      type == Script[n][made + 1]
      local == ~Connected(n, m) /\ type # "CONN"  \* answered or dropped on the spot
      conn == ConnectionTo(n, m)
      outcome == CASE ~local -> "waiting"
                   [] local /\ type = "DISCONNECT" -> "DISCONNECT"
                   [] local /\ type # "DISCONNECT" -> "missed"
  IN
  /\ made < Len(Script[n]) /\ seqn < MaxSeqn
  /\ Cardinality({s \in DOMAIN calls[n] : calls[n][s].outcome = "waiting"}) < MaxWaiting
  /\ next_seqn' = [next_seqn EXCEPT ![n] = SeqnAfter(n, 1)]
  /\ calls' = [calls EXCEPT ![n] =
                 With(@, seqn, [to |-> m, type |-> type, outcome |-> outcome])]
  /\ IF local
       THEN UNCHANGED <<connections, network>>
       ELSE /\ connections' = [connections EXCEPT ![n] = With(@, m,
                 [conn EXCEPT !.pending = With(@, seqn, NewPending(type)),
                              !.disconnecting = @ \/ type = "DISCONNECT"])]
            /\ network' = network \cup {Req(n, m, type, seqn)}
  /\ UNCHANGED <<handler, bumper_alive, fake_reqs, requests, open, clearing>>

\* A user answers a request with a response of its type, or refuses it.
Answers(type) == {type} \cup (IF type \in Refusable THEN {"ERROR"} ELSE {})

\* receive_req and the response of the thread that called it.  The queue of
\* cached responses is always found shorter than its maximum, and so empty:
\* what front() reads from it is whatever lies in memory, and erasing that key
\* may erase any one of the cached responses.
Serve(n) ==
  /\ requests[n] # <<>>
  /\ requests' = [requests EXCEPT ![n] = Tail(@)]
  /\ LET req == Head(requests[n])
         conn == ConnectionTo(n, req.src)
     IN \E type \in Answers(req.type) :
        /\ \E erased \in {{}} \cup {{s} : s \in DOMAIN conn.cached} :
             LET kept == Without(conn.cached, erased) IN
             connections' = [connections EXCEPT ![n] = With(@, req.src,
               [conn EXCEPT !.cached =
                  IF req.seqn \in DOMAIN kept THEN kept ELSE With(kept, req.seqn, type)])]
        /\ network' = network \cup {Resp(n, req.src, type, req.seqn)}
  /\ UNCHANGED <<next_seqn, handler, bumper_alive, fake_reqs, open, clearing, calls>>

\* disconnect(), before it takes the mutex: the channel loses its receivers
\* and its senders.
CloseChannel(n) ==
  /\ ~clearing[n]
  /\ open' = [open EXCEPT ![n] = FALSE]
  /\ clearing' = [clearing EXCEPT ![n] = TRUE]
  /\ UNCHANGED <<next_seqn, connections, network, handler, bumper_alive, fake_reqs,
                 requests, calls>>

\* disconnect(), with the mutex.  The requests it sends have no callback and
\* their pending entries are gone with the connections.
ClearConnections(n) ==
  LET remotes == DOMAIN connections[n] IN
  /\ clearing[n]
  /\ clearing' = [clearing EXCEPT ![n] = FALSE]
  /\ \E seqn \in Numberings(n, 0, remotes) :
       network' = network \cup {Req(n, m, "DISCONNECT", seqn[m]) :
                      m \in {r \in remotes : ~connections[n][r].disconnecting}}
  /\ next_seqn' = [next_seqn EXCEPT ![n] = SeqnAfter(n, Cardinality(remotes))]
  /\ MissCalls(n, UNION {PendingTo(n, m) : m \in remotes})
  /\ connections' = [connections EXCEPT ![n] = <<>>]
  /\ UNCHANGED <<handler, bumper_alive, fake_reqs, requests, open>>

-----------------------------------------------------------------------------
(* The handler thread.                                                     *)

\* `handle' resets the counter of silence before it looks at the datagram.
Heard(n, m) ==
  IF Connected(n, m)
    THEN [connections[n] EXCEPT ![m].disconnect_counter = 0]
    ELSE connections[n]

HandlePing(n, d) ==
  /\ d.type = "PING"
  /\ connections' = [connections EXCEPT ![n] = Heard(n, d.src)]
  /\ network' = network \cup {Resp(n, d.src, "PING", d.seqn)}
  /\ UNCHANGED handler

\* A request from an address without a connection that does not open one.
HandleUnconnected(n, d) ==
  /\ d.type \in {"DATA", "DISCONNECT"}
  /\ ~Connected(n, d.src)
  /\ network' = network \cup
       {Resp(n, d.src, IF d.type = "DISCONNECT" THEN "DISCONNECT" ELSE "ERROR", d.seqn)}
  /\ UNCHANGED <<connections, handler>>

\* The application has not been given this request on this connection.
MutantFirstTime(conn, seqn) == seqn \notin DOMAIN conn.cached   \* trusts the cache alone
FirstTime(conn, seqn) == seqn \notin DOMAIN conn.cached /\ seqn \notin conn.received

\* A request on a connection, which a CONN makes if there is none: it is
\* answered from the cache, or taken for the application the first time.
HandleConnected(n, d) ==
  LET conn == [ConnectionTo(n, d.src) EXCEPT !.disconnect_counter = 0] IN
  /\ d.type # "PING"
  /\ Connected(n, d.src) \/ d.type = "CONN"
  /\ \/ /\ d.seqn \in DOMAIN conn.cached
        /\ network' = network \cup {Resp(n, d.src, conn.cached[d.seqn], d.seqn)}
        /\ connections' = [connections EXCEPT ![n] = With(@, d.src, conn)]
        /\ UNCHANGED handler
     \/ /\ FirstTime(conn, d.seqn)
        /\ Len(requests[n]) < MaxQueue
        /\ connections' = [connections EXCEPT ![n] = With(@, d.src,
             [conn EXCEPT !.received = @ \cup {d.seqn}, !.handed_over = @ \cup {d.seqn}])]
        /\ handler' = [handler EXCEPT ![n] =
             [src |-> d.src, type |-> d.type, seqn |-> d.seqn, fake |-> FALSE]]
        /\ UNCHANGED network
     \/ /\ d.seqn \notin DOMAIN conn.cached
        /\ ~FirstTime(conn, d.seqn)
        /\ connections' = [connections EXCEPT ![n] = With(@, d.src, conn)]
        /\ UNCHANGED <<network, handler>>

HandleReq(n, d) ==
  /\ handler[n] = Idle
  /\ d.dst = n /\ d.step = "REQ"
  /\ HandlePing(n, d) \/ HandleUnconnected(n, d) \/ HandleConnected(n, d)
  /\ UNCHANGED <<next_seqn, bumper_alive, fake_reqs, requests, open, clearing, calls>>

\* The pending request that a response answers.
MutantAnswered(n, d) == PendingTo(n, d.src)   \* any that waits
Answered(n, d) == PendingTo(n, d.src) \cap {d.seqn}

\* The pending request is found by its sequence number alone; a DISCONNECT
\* takes the connection with it, and the other calls that wait on it.
HandleResp(n, d) ==
  LET answered == Answered(n, d)
      heard == Heard(n, d.src)
      dropped == IF d.type = "DISCONNECT" THEN PendingTo(n, d.src) \ answered ELSE {}
  IN
  /\ handler[n] = Idle
  /\ d.dst = n /\ d.step = "RESP"
  /\ connections' = [connections EXCEPT ![n] =
       IF d.type = "DISCONNECT" \/ ~Connected(n, d.src)
         THEN Without(heard, {d.src})
         ELSE [heard EXCEPT ![d.src].pending = Without(@, answered)]]
  /\ calls' = [calls EXCEPT ![n] = [s \in DOMAIN @ |->
       CASE s \in answered -> [@[s] EXCEPT !.outcome = d.type]
         [] s \in dropped -> [@[s] EXCEPT !.outcome = "missed"]
         [] OTHER -> @[s]]]
  /\ UNCHANGED <<next_seqn, network, handler, bumper_alive, fake_reqs, requests,
                 open, clearing>>

\* The mutex is free again when the request is pushed to the application's
\* channel; without a receiver the push throws and the thread ends.
HandOver(n) ==
  /\ handler[n] \notin {Idle, Dead}
  /\ IF open[n]
       THEN /\ requests' = [requests EXCEPT ![n] = Append(@, handler[n])]
            /\ handler' = [handler EXCEPT ![n] = Idle]
       ELSE /\ handler' = [handler EXCEPT ![n] = Dead]
            /\ UNCHANGED requests
  /\ UNCHANGED <<next_seqn, connections, network, bumper_alive, fake_reqs, open,
                 clearing, calls>>

-----------------------------------------------------------------------------
(* The bumper thread.                                                      *)

Bump(n) ==
  LET conns == connections[n]
      lost == {m \in DOMAIN conns : GivenUp(conns[m])}
      pinged == {m \in DOMAIN conns : PingDue(conns[m].disconnect_counter + 1)}
      Those(P(_), m) == {s \in DOMAIN conns[m].pending : P(conns[m].pending[s])}
      resent == UNION {{Req(n, m, conns[m].pending[s].type, s) : s \in Those(Resent, m)} :
                         m \in DOMAIN conns}
      expired == UNION {Those(Exhausted, m) : m \in DOMAIN conns}
      dropped == UNION {DOMAIN conns[m].pending : m \in lost}
  IN
  /\ bumper_alive[n]
  /\ fake_reqs[n] = {}
  /\ connections' = [connections EXCEPT ![n] =
                       [m \in DOMAIN conns \ lost |-> BumpConnection(conns[m])]]
  /\ MissCalls(n, expired \cup dropped)
  /\ \E ping \in Numberings(n, 0, pinged) :
       network' = network \cup resent \cup {Req(n, m, "PING", ping[m]) : m \in pinged}
  /\ \E fake \in Numberings(n, Cardinality(pinged), lost) :
       fake_reqs' = [fake_reqs EXCEPT ![n] =
         {[src |-> m, type |-> "DISCONNECT", seqn |-> fake[m], fake |-> TRUE] : m \in lost}]
  /\ next_seqn' = [next_seqn EXCEPT ![n] =
                     SeqnAfter(n, Cardinality(pinged) + Cardinality(lost))]
  \* a bump that slept through disconnect() is the last one
  /\ bumper_alive' = [bumper_alive EXCEPT ![n] = open[n]]
  /\ UNCHANGED <<handler, requests, open, clearing>>

\* The loop ends at its test instead.
BumperExit(n) ==
  /\ bumper_alive[n] /\ fake_reqs[n] = {} /\ ~open[n]
  /\ bumper_alive' = [bumper_alive EXCEPT ![n] = FALSE]
  /\ UNCHANGED <<next_seqn, connections, network, handler, fake_reqs, requests,
                 open, clearing, calls>>

\* After `bump' has released the mutex, its fake requests go to the application.
PassFakeReq(n) ==
  \E req \in fake_reqs[n] :
    /\ IF open[n]
         THEN /\ requests' = [requests EXCEPT ![n] = Append(@, req)]
              /\ fake_reqs' = [fake_reqs EXCEPT ![n] = @ \ {req}]
              /\ UNCHANGED bumper_alive
         ELSE /\ fake_reqs' = [fake_reqs EXCEPT ![n] = {}]
              /\ bumper_alive' = [bumper_alive EXCEPT ![n] = FALSE]
              /\ UNCHANGED requests
    /\ UNCHANGED <<next_seqn, connections, network, handler, open, clearing,
                   calls>>

-----------------------------------------------------------------------------
Application(n) ==
  \/ \E m \in Node \ {n} : SendReq(n, m)
  \/ Serve(n)
  \/ n \in Disconnects /\ CloseChannel(n)
  \/ ClearConnections(n)

Handler(n) ==
  \/ \E d \in network : HandleReq(n, d) \/ HandleResp(n, d)
  \/ HandOver(n)

Bumper(n) == Bump(n) \/ BumperExit(n) \/ PassFakeReq(n)

Next == \E n \in Node : Application(n) \/ Handler(n) \/ Bumper(n)

Spec == Init /\ [][Next]_vars

\* The bumper runs every bump_interval_nanos, a thread inside disconnect()
\* finishes it, and the handler passes on what it has taken.  Nothing makes
\* the network deliver a datagram or the application do anything.
Fairness ==
  \A n \in Node : /\ WF_vars(Bumper(n))
                  /\ WF_vars(ClearConnections(n))
                  /\ WF_vars(HandOver(n))
FairSpec == Spec /\ Fairness

-----------------------------------------------------------------------------
(* Properties.                                                             *)

IsWaiting(n, s) == s \in DOMAIN calls[n] /\ calls[n][s].outcome = "waiting"

(* A call waits for its response exactly as long as its request is pending *)
(* on the connection it was sent on: the thread in receive_resp is never   *)
(* forgotten by an erased connection, and no request is resent for nobody. *)
WaitingIsPending ==
  \A n \in Node :
    /\ \A s \in DOMAIN calls[n] :
         IsWaiting(n, s) => /\ s \in PendingTo(n, calls[n][s].to)
                            /\ connections[n][calls[n][s].to].pending[s].type = calls[n][s].type
    /\ \A m \in DOMAIN connections[n] : \A s \in PendingTo(n, m) :
         IsWaiting(n, s) /\ calls[n][s].to = m

(* No request is taken for the application twice on one connection,        *)
(* however often it is resent or duplicated and whatever the eviction of   *)
(* cached responses erases.                                                *)
AtMostOnce ==
  [][\A n \in Node : handler[n] = Idle /\ handler'[n] \notin {Idle, Dead} =>
       LET req == handler'[n] IN
       Connected(n, req.src) => req.seqn \notin connections[n][req.src].handed_over]_vars

(* Every call ends, with a response or a MissedResponse, as long as the    *)
(* bumper runs: however the network behaves, nobody waits forever.  (The   *)
(* users of a node make finitely many calls, so all of them end if again   *)
(* and again none waits.)                                                  *)
CallsComplete ==
  \A n \in Node : []<>(\A s \in DOMAIN calls[n] : ~IsWaiting(n, s))

(* While the bumper runs, a connection does not outlive its peer's         *)
(* silence: unless datagrams of the peer are handled again and again, it   *)
(* is gone again and again (answering the DISCONNECT that is made up for   *)
(* the silent peer makes it anew).                                         *)
Hear(n, m) == \E d \in network : d.src = m /\ (HandleReq(n, d) \/ HandleResp(n, d))

SilenceEnds ==
  \A n \in Node : \A m \in Node \ {n} :
    []<><<Hear(n, m)>>_vars \/ []<>(bumper_alive[n] => ~Connected(n, m))

(* The sockets implement the calls of module Calls: its replies are the    *)
(* responses on the network, other than those to pings.                    *)
Replies == {<<d.src, d.dst, d.seqn, d.type>> :
              d \in {r \in network : r.step = "RESP" /\ r.type # "PING"}}

Promise == INSTANCE Calls WITH replies <- Replies

CallsImplemented == Promise!CallsSpec
=============================================================================
