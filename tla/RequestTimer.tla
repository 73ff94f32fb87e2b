---------------------------- MODULE RequestTimer ----------------------------
(***************************************************************************)
(* One request pending on one connection of a ReliableSocket, from         *)
(* send_req until it is given up, against what the socket's configuration  *)
(* reports of its timeouts.  The request is never answered; the peer may   *)
(* or may not be heard from in other datagrams.                            *)
(***************************************************************************)
EXTENDS SocketTimers

VARIABLES conn,     \* the connection, with the request pending as number 0
          age,      \* bumps since send_req
          silence,  \* bumps since a datagram of the peer was handled
          sends,    \* datagrams sent for the request
          outcome   \* "pending", "expired" or "disconnected"

vars == <<conn, age, silence, sends, outcome>>

Request == conn.pending[0]

Init ==
  /\ \E type \in {"CONN", "DATA"} :
       conn = [pending |-> [s \in {0} |-> NewPending(type)], disconnect_counter |-> 0]
  /\ age = 0 /\ silence = 0
  /\ sends = 1
  /\ outcome = "pending"

\* One round of bump() for this connection.
Bump ==
  /\ outcome = "pending"
  /\ age' = age + 1
  /\ silence' = silence + 1
  /\ sends' = IF Resent(Request) THEN sends + 1 ELSE sends
  /\ conn' = BumpConnection(conn)
  /\ outcome' = CASE GivenUp(conn) -> "disconnected"
                  [] ~GivenUp(conn) /\ Exhausted(Request) -> "expired"
                  [] OTHER -> "pending"

\* handle() resets the counter, whatever the datagram.
Hear ==
  /\ outcome = "pending"
  /\ conn' = [conn EXCEPT !.disconnect_counter = 0]
  /\ silence' = 0
  /\ UNCHANGED <<age, sends, outcome>>

Next == Bump \/ Hear
Spec == Init /\ [][Next]_vars

-----------------------------------------------------------------------------
(* While the peer is heard from, a request is given up only after the      *)
(* reported minimum timeout, one bump later per attempt, having been sent  *)
(* once more than max_req_attempts: the nested counters of bump() and the  *)
(* closed formula of min_response_timeout_ns() agree.                      *)
ExpiresOnTime ==
  LET onTime == age = MinResponseTimeout + MaxReqAttempts + 1
                /\ sends = MaxReqAttempts + 1
  IN /\ outcome = "expired" => onTime
     /\ outcome = "disconnected" /\ silence <= MaxDisconnectCount => onTime
=============================================================================
