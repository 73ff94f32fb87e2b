-------------------------------- MODULE Calls --------------------------------
(***************************************************************************)
(* What a user of ReliableSocket is promised: send_req makes a call, which *)
(* ends at most once and for good, either in a MissedResponse or with a    *)
(* reply that the other side gave to it.  How requests travel, are resent, *)
(* duplicated, cached or given up does not appear.                         *)
(*                                                                         *)
(* A DISCONNECT ends more than the call it answers: a node may give one of *)
(* its own accord, and it also ends the calls it happens to reach.         *)
(***************************************************************************)
CONSTANTS Node, Seqn

VARIABLES calls,    \* calls[n]: number -> [to, type, outcome]
          replies   \* replies given: <<from, to, number, type>>

callVars == <<calls, replies>>

Init ==
  /\ calls = [n \in Node |-> <<>>]
  /\ replies = {}

Ended(type) == {"missed"} \cup (IF type = "DISCONNECT" THEN {type} ELSE {})

\* A call may end on the spot, when there is no connection to send it on.
Make(n) ==
  /\ UNCHANGED replies
  /\ \E m \in Node, s \in Seqn \ DOMAIN calls[n], type \in {"CONN", "DATA", "DISCONNECT"} :
       \E outcome \in {"waiting"} \cup Ended(type) :
         calls' = [calls EXCEPT ![n] = [t \in DOMAIN @ \cup {s} |->
           IF t = s THEN [to |-> m, type |-> type, outcome |-> outcome] ELSE @[t]]]

\* The other side replies to a call with its type, or refuses it with an error,
\* whatever it asks for but the end of the connection.
MayReply(m, n, s, type) ==
  \/ type = "DISCONNECT"
  \/ /\ s \in DOMAIN calls[n]
     /\ calls[n][s].to = m
     /\ \/ type = calls[n][s].type
        \/ type = "ERROR" /\ calls[n][s].type # "DISCONNECT"

Reply ==
  /\ UNCHANGED calls
  /\ \E m, n \in Node, s \in Seqn, type \in {"CONN", "DATA", "DISCONNECT", "ERROR"} :
       /\ MayReply(m, n, s, type)
       /\ replies' = replies \cup {<<m, n, s, type>>}

\* Some calls end together: with a connection all the calls that wait on it.
MayEnd(n, s, outcome) ==
  /\ calls[n][s].outcome = "waiting"
  /\ outcome = "missed" \/ <<calls[n][s].to, n, s, outcome>> \in replies

End(n) ==
  /\ UNCHANGED replies
  /\ DOMAIN calls'[n] = DOMAIN calls[n]
  /\ \A s \in DOMAIN calls[n] :
       LET call == calls[n][s] IN
       \/ calls'[n][s] = call
       \/ /\ MayEnd(n, s, calls'[n][s].outcome)
          /\ calls'[n][s] = [call EXCEPT !.outcome = calls'[n][s].outcome]
  /\ \A m \in Node \ {n} : calls'[m] = calls[m]

Next == (\E n \in Node : End(n) \/ Make(n)) \/ Reply

CallsSpec == Init /\ [][Next]_callVars
=============================================================================
