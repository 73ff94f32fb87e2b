--------------------------- MODULE ServerProcess ---------------------------
(***************************************************************************)
(* The server program around its table: the two threads of the             *)
(* communication manager (server/comm_manager.cpp), the profile manager    *)
(* (prof_manager.cpp), the notification manager (notif_manager.cpp), the   *)
(* channels that join them, and the main thread, which starts and stops    *)
(* them (main.cpp).  What they do to the table are the actions of          *)
(* ServerProfileTable; ThreadTracker is the tracker.  Saving is left to    *)
(* that module's own runs: here the persister only waits for `shutdown'.   *)
(*                                                                         *)
(* The socket is ReliableSocket as module Calls promises it, and each      *)
(* client a script of requests, the next sent when the last is answered.   *)
(*                                                                         *)
(* A thread takes a message in the step that uses it, or leaves it at the  *)
(* head of the channel while it works on it, and signals in the step that  *)
(* ends it: nobody else can tell.                                          *)
(*                                                                         *)
(* An operator named Mutant... is a wrong version of the definition below  *)
(* it, no part of the specification.                                       *)
(***************************************************************************)
EXTENDS ServerProfileTable, ThreadTracker

CONSTANTS Script,     \* Script[a]: the requests of the client at address a
          Lossy,      \* clients whose datagrams are lost or late in this instance
          MaxSilences \* bound: how often a client falls silent, or gives the server up

RequestBody == [type : {"CLIENT_CONN", "FOLLOW"}, username : Username]
                 \cup [type : {"NOTIFY", "DISCONNECT"}, username : {NoUser}]

ASSUME ScriptAssumption == Script \in [Address -> Seq(RequestBody)]
ASSUME LossyAssumption == Lossy \subseteq Address
ASSUME SilenceAssumption == MaxSilences \in Nat
ASSUME TaskAssumption == Task = {"comm_notif", "comm_req", "prof", "persister", "notif"}

VARIABLES
  main, comm_notif, prof,   \* control states (notif_manager is the other)
  asked,            \* signal_graceful_shutdown or a signal handler was called
  comm_to_prof, comm_to_prof_open,   \* channel of received requests to the profile manager
  to_send,          \* what the notification manager has consumed and not passed on
  notif_to_comm,    \* channel of requests to send to clients
  requests, open,   \* the socket's channel of received requests, not disconnected
  connected,        \* the addresses the socket has connections to
  sent,             \* sent[a]: how many requests the client has sent
  silences,         \* how often a client fell silent, or gave the server up
  awaiting,         \* the clients that wait for a response
  handler_ended,    \* the socket's handler thread has ended
  attempted         \* history: attempted[a]: the notifications sent to the address

commVars == <<comm_to_prof, comm_to_prof_open, to_send, notif_to_comm>>
socketVars == <<requests, open, connected, handler_ended>>
clientVars == <<sent, silences, awaiting, attempted>>
processVars == <<main, comm_notif, prof, asked>>
serverVars == <<vars, trackerVars, processVars, commVars, socketVars, clientVars>>

\* made_up: by the bumper, not sent by the client.
ReceivedReq == [client : Address, body : RequestBody, made_up : BOOLEAN]
DeliverReq == Address \X Username \X Nat   \* to whom, of whom, its number

ServerTypeOK ==
  /\ TypeOK /\ TrackerTypeOK
  /\ main \in {"starting", "waiting", "cutting", "cutting_notif", "disconnecting",
               "joining", "joined", "returned"}
  /\ comm_notif \in {"receiving", "waiting"}
  /\ prof \in {"receiving", "answering"}
  /\ prof = "answering" => comm_to_prof # <<>>
  /\ comm_notif = "waiting" => notif_to_comm # <<>> /\ Head(notif_to_comm)[1] \in connected
  /\ asked \in BOOLEAN /\ open \in BOOLEAN /\ comm_to_prof_open \in BOOLEAN
  /\ comm_to_prof \in Seq(ReceivedReq) /\ requests \in Seq(ReceivedReq)
  /\ to_send \subseteq DeliverReq /\ notif_to_comm \in Seq(DeliverReq)
  /\ connected \subseteq Address /\ awaiting \subseteq Address
  /\ sent \in [Address -> Nat] /\ silences \in 0..MaxSilences
  /\ attempted \in [Address -> Seq(Username \X Nat)]
  /\ handler_ended \in BOOLEAN

ServerInit ==
  /\ Init /\ TrackerInit
  /\ main = "starting"
  /\ comm_notif = "receiving" /\ prof = "receiving"
  /\ asked = FALSE
  /\ comm_to_prof = <<>> /\ comm_to_prof_open = TRUE
  /\ to_send = {} /\ notif_to_comm = <<>>
  /\ requests = <<>> /\ open = TRUE /\ connected = {} /\ handler_ended = FALSE
  /\ sent = [a \in Address |-> 0] /\ silences = 0 /\ awaiting = {}
  /\ attempted = [a \in Address |-> <<>>]

Running(t) == task[t] = "running"
SignalAndFinish(t) == asked' = TRUE /\ Finish(t)

-----------------------------------------------------------------------------
(* Parts of the socket's operations.                                       *)

\* The call of the communication manager ends: whatever comes out of it is
\* logged at most, and the next request is received.
CallEnded ==
  /\ comm_notif' = "receiving"
  /\ notif_to_comm' = Tail(notif_to_comm)

\* A call that waits on a connection is missed with it.
MutantCallMissed(gone) ==    \* its callback is forgotten: it waits for nothing
  /\ comm_notif' = IF comm_notif = "waiting" /\ Head(notif_to_comm)[1] \in gone
                     THEN "forgotten" ELSE comm_notif
  /\ UNCHANGED notif_to_comm
CallMissed(gone) ==
  IF comm_notif = "waiting" /\ Head(notif_to_comm)[1] \in gone
    THEN CallEnded ELSE UNCHANGED <<comm_notif, notif_to_comm>>

\* disconnect(), which ReliableSocket takes apart.
DisconnectSocket ==
  /\ open' = FALSE
  /\ connected' = {}
  /\ UNCHANGED <<requests, handler_ended>>

\* send_resp makes a connection when there is none any more.
SendResp(req) ==
  /\ connected' = connected \cup {req.client}
  /\ awaiting' = IF req.made_up THEN awaiting ELSE awaiting \ {req.client}
  /\ UNCHANGED <<requests, open, handler_ended>>

-----------------------------------------------------------------------------
(* The communication manager's thread for notifications.                   *)

CommNotifStep ==
  /\ Running("comm_notif") /\ comm_notif = "receiving"
  /\ UNCHANGED <<vars, main, prof, comm_to_prof, comm_to_prof_open, to_send, sent,
                 silences, awaiting>>

\* A request to an address without a connection is missed at once.
SendDeliver ==
  /\ CommNotifStep
  /\ notif_to_comm # <<>>
  /\ LET req == Head(notif_to_comm) IN
       /\ attempted' = [attempted EXCEPT ![req[1]] = Append(@, <<req[2], req[3]>>)]
       /\ IF req[1] \in connected
            THEN comm_notif' = "waiting" /\ UNCHANGED notif_to_comm
            ELSE CallEnded
  /\ UNCHANGED <<trackerVars, asked, socketVars>>

\* The channel is cut, or its sender gone; then its guard.
EndCommNotif ==
  /\ CommNotifStep
  /\ notif_to_comm = <<>>
  /\ ~deliveries_open \/ task["notif"] = "ended"
  /\ DisconnectSocket
  /\ SignalAndFinish("comm_notif")
  /\ UNCHANGED <<comm_notif, notif_to_comm, attempted>>

CommNotif == SendDeliver \/ EndCommNotif

-----------------------------------------------------------------------------
(* The communication manager's thread for requests.                        *)

CommReqStep ==
  /\ Running("comm_req")
  /\ UNCHANGED <<vars, main, prof, comm_to_prof_open, to_send, clientVars>>

PassOn ==
  /\ CommReqStep
  /\ requests # <<>>
  /\ comm_to_prof_open
  /\ comm_to_prof' = Append(comm_to_prof, Head(requests))
  /\ requests' = Tail(requests)
  /\ UNCHANGED <<trackerVars, asked, comm_notif, notif_to_comm, open, connected,
                 handler_ended>>

\* The socket was disconnected, or main has cut the channel, which it keeps a
\* receiver of; then its guard.
MutantEndCommReq ==   \* notices a socket that was disconnected by a last request only
  /\ CommReqStep
  /\ requests # <<>> /\ (~open \/ ~comm_to_prof_open)
  /\ DisconnectSocket /\ CallMissed(connected)
  /\ SignalAndFinish("comm_req")
  /\ UNCHANGED comm_to_prof
EndCommReq ==
  /\ CommReqStep
  /\ IF requests = <<>> THEN ~open ELSE ~comm_to_prof_open
  /\ DisconnectSocket /\ CallMissed(connected)
  /\ SignalAndFinish("comm_req")
  /\ UNCHANGED comm_to_prof

CommReq == PassOn \/ EndCommReq

-----------------------------------------------------------------------------
(* The profile manager.                                                    *)

ProfStep ==
  /\ Running("prof")
  /\ UNCHANGED <<main, comm_notif, comm_to_prof_open, to_send, notif_to_comm, sent,
                 silences, attempted>>

\* What the table does for a request; a ThrowableMessageError changes nothing.
Serve(client, body) ==
  CASE body.type = "CLIENT_CONN" ->
         IF HasRoom(body.username) THEN Connect(client, body.username) ELSE UNCHANGED vars
    [] body.type = "DISCONNECT" -> Disconnect(client)
    [] body.type = "FOLLOW" ->
         IF MayFollow(client, body.username) THEN Follow(client, body.username)
                                             ELSE UNCHANGED vars
    [] body.type = "NOTIFY" ->
         IF sessions[client] # NoUser THEN Notify(client) ELSE UNCHANGED vars

ServeReq ==
  /\ ProfStep
  /\ prof = "receiving" /\ comm_to_prof # <<>>
  /\ Serve(Head(comm_to_prof).client, Head(comm_to_prof).body)
  /\ prof' = "answering"
  /\ UNCHANGED <<trackerVars, asked, comm_to_prof, socketVars, awaiting>>

MutantAnswer ==   \* no response to a client whose connection is gone
  /\ ProfStep
  /\ prof = "answering"
  /\ IF Head(comm_to_prof).client \in connected
       THEN SendResp(Head(comm_to_prof)) ELSE UNCHANGED <<socketVars, awaiting>>
  /\ comm_to_prof' = Tail(comm_to_prof)
  /\ prof' = "receiving"
  /\ UNCHANGED <<vars, trackerVars, asked>>
Answer ==
  /\ ProfStep
  /\ prof = "answering"
  /\ SendResp(Head(comm_to_prof))
  /\ comm_to_prof' = Tail(comm_to_prof)
  /\ prof' = "receiving"
  /\ UNCHANGED <<vars, trackerVars, asked>>

\* The wake-ups are cut under a `notify': the thread ends without an answer.
InterruptedServe ==
  /\ ProfStep
  /\ prof = "receiving" /\ comm_to_prof # <<>>
  /\ Head(comm_to_prof).body.type = "NOTIFY"
  /\ \E reached \in SUBSET Username : NotifyInterrupted(Head(comm_to_prof).client, reached)
  /\ comm_to_prof' = Tail(comm_to_prof)
  /\ SignalAndFinish("prof")
  /\ UNCHANGED <<prof, socketVars, awaiting>>

\* Its guard shuts the table down.
EndProf ==
  /\ ProfStep
  /\ prof = "receiving" /\ comm_to_prof = <<>>
  /\ ~comm_to_prof_open \/ task["comm_req"] = "ended"
  /\ Shutdown
  /\ SignalAndFinish("prof")
  /\ UNCHANGED <<prof, comm_to_prof, socketVars, awaiting>>

Prof == ServeReq \/ Answer \/ InterruptedServe \/ EndProf

\* persist_on_dirty returns FALSE.
EndPersister ==
  /\ Running("persister") /\ ~active
  /\ Finish("persister")
  /\ UNCHANGED <<vars, processVars, commVars, socketVars, clientVars>>

-----------------------------------------------------------------------------
(* The notification manager.                                               *)

NotifStep ==
  /\ Running("notif")
  /\ UNCHANGED <<main, comm_notif, prof, comm_to_prof, comm_to_prof_open,
                 socketVars, clientVars>>

ReceiveWakeup ==
  /\ NotifStep
  /\ \E u \in Username : TakeWakeup(u)
  /\ UNCHANGED <<trackerVars, asked, to_send, notif_to_comm>>

\* consume_one_notif returns a copy of the addresses logged in as the follower.
Consume ==
  /\ NotifStep
  /\ to_be_notif # NoUser
  /\ ConsumeOneNotif(to_be_notif)
  /\ to_send' = IF pending_notifs[to_be_notif] = <<>> THEN {}
                  ELSE {<<a, Head(pending_notifs[to_be_notif])[1],
                              Head(pending_notifs[to_be_notif])[2]>> :
                          a \in prof_sessions[to_be_notif]}
  /\ UNCHANGED <<trackerVars, asked, notif_to_comm>>

\* One request to each of them, in the order of the set; the last one is
\* Deliver, and so is the one that finds no receiver.
MutantEnqueued(req) == <<req>> \o notif_to_comm   \* the last first
Enqueued(req) == Append(notif_to_comm, req)
PassDelivery ==
  /\ NotifStep
  /\ \E req \in to_send :
       IF deliveries_open
         THEN /\ notif_to_comm' = Enqueued(req)
              /\ to_send' = to_send \ {req}
              /\ IF to_send = {req} THEN Deliver
                                    ELSE notif_manager = "delivering" /\ UNCHANGED vars
              /\ UNCHANGED <<trackerVars, asked>>
         ELSE /\ to_send' = {}
              /\ Deliver
              /\ SignalAndFinish("notif")
              /\ UNCHANGED notif_to_comm

EndNotif ==
  /\ NotifStep
  /\ notif_manager = "receiving"
  /\ \A u \in Username : wakeups[u] = 0
  /\ ~wakeups_open \/ task["prof"] = "ended"
  /\ SignalAndFinish("notif")
  /\ UNCHANGED <<vars, to_send, notif_to_comm>>

Notif == ReceiveWakeup \/ Consume \/ PassDelivery \/ EndNotif

-----------------------------------------------------------------------------
(* The main thread.                                                        *)

Start ==
  /\ main = "starting" /\ main' = "waiting"
  /\ Spawn
  /\ UNCHANGED <<vars, comm_notif, prof, asked, commVars, socketVars, clientVars>>

MainStep(from, to) ==
  /\ main = from /\ main' = to
  /\ UNCHANGED <<prof, asked, comm_to_prof, to_send, clientVars>>

\* Module Shutdown says how the wait ends, and that a server whose input was
\* typed into may never leave it.
StopWaiting ==
  /\ asked
  /\ MainStep("waiting", "cutting")
  /\ UNCHANGED <<vars, trackerVars, comm_notif, comm_to_prof_open, notif_to_comm, socketVars>>

\* The channels to the profile manager and to the communication manager: who
\* finds the first one cut has no use for the second.
MainCuts ==
  /\ MainStep("cutting", "cutting_notif")
  /\ comm_to_prof_open' = FALSE
  /\ DisconnectDeliveries
  /\ UNCHANGED <<trackerVars, comm_notif, notif_to_comm, socketVars>>

\* A `notify' that was interrupted has seen it already.
MainCutsNotif ==
  /\ MainStep("cutting_notif", "disconnecting")
  /\ IF wakeups_open THEN DisconnectWakeups ELSE UNCHANGED vars
  /\ UNCHANGED <<trackerVars, comm_notif, comm_to_prof_open, notif_to_comm, socketVars>>

\* disconnect_timeout: when the others have disconnected, or after a while.
MainDisconnects ==
  /\ MainStep("disconnecting", "joining")
  /\ DisconnectSocket /\ CallMissed(connected)
  /\ UNCHANGED <<vars, trackerVars, comm_to_prof_open>>

\* join_all, and again in the destructor of the tracker.
MainJoins ==
  /\ MainStep("joining", "joined")
  /\ JoinAll
  /\ UNCHANGED <<vars, comm_notif, comm_to_prof_open, notif_to_comm, socketVars>>

Return ==
  /\ AllJoined
  /\ MainStep("joined", "returned")
  /\ JoinAll
  /\ UNCHANGED <<vars, comm_notif, comm_to_prof_open, notif_to_comm, socketVars>>

MainGoesOn ==
  \/ Start \/ MainCuts \/ MainCutsNotif \/ MainDisconnects \/ MainJoins \/ Return

Main == StopWaiting \/ MainGoesOn

-----------------------------------------------------------------------------
(* The clients, the signal, and the socket's own threads.                  *)

\* With main the whole process ends.
EnvironmentStep ==
  /\ main # "returned"
  /\ UNCHANGED <<vars, trackerVars, main, prof, comm_to_prof, comm_to_prof_open,
                 to_send, attempted>>

\* Ctrl-C or the end of standard input.  (Before main waits a Ctrl-C ends the
\* process or is overwritten, and no thread ends that could signal.)
Interrupt ==
  /\ main = "waiting" /\ ~asked
  /\ asked' = TRUE
  /\ EnvironmentStep
  /\ UNCHANGED <<comm_notif, notif_to_comm, socketVars, sent, silences, awaiting>>

MaySend(a) == a \notin awaiting /\ sent[a] < Len(Script[a])

\* A request arrives.  Without a connection only a CONN gets past the handler.
ClientSends(a) ==
  /\ open /\ MaySend(a)
  /\ LET body == Script[a][sent[a] + 1]
         req == [client |-> a, body |-> body, made_up |-> FALSE]
         accepted == a \in connected \/ body.type = "CLIENT_CONN"
     IN
     /\ connected' = IF accepted THEN connected \cup {a} ELSE connected
     /\ requests' = IF accepted THEN Append(requests, req) ELSE requests
     /\ awaiting' = IF accepted THEN awaiting \cup {a} ELSE awaiting
  /\ sent' = [sent EXCEPT ![a] = @ + 1]
  /\ EnvironmentStep
  /\ UNCHANGED <<asked, comm_notif, notif_to_comm, open, handler_ended, silences>>

\* The requests that may reach the socket from a: new ones, and again old ones.
OnTheWay(a) ==
  {Script[a][i] : i \in 1..(IF MaySend(a) THEN sent[a] + 1 ELSE sent[a])}

\* Such a request reaches the handler after disconnect(): a CONN makes a
\* connection still, and the push to the channel that was cut ends the thread.
LateRequest(a) ==
  /\ ~open /\ ~handler_ended
  /\ \E body \in OnTheWay(a) : a \in connected \/ body.type = "CLIENT_CONN"
  /\ connected' = connected \cup {a}
  /\ handler_ended' = TRUE
  /\ EnvironmentStep
  /\ UNCHANGED <<asked, comm_notif, notif_to_comm, requests, open, sent, silences, awaiting>>

\* The call is answered, or given up by the bumper.
CallEnds ==
  /\ comm_notif = "waiting" /\ Head(notif_to_comm)[1] \in connected
  /\ CallEnded
  /\ EnvironmentStep
  /\ UNCHANGED <<asked, socketVars, sent, silences, awaiting>>

\* A DISCONNECT response, whatever its number, takes the connection along.  A
\* client gives one to the DISCONNECT it has made up for a silent server, and
\* to those that disconnect() sends.
StrayDisconnect(a) ==
  /\ a \in connected /\ ~handler_ended
  /\ open => silences < MaxSilences
  /\ silences' = IF open THEN silences + 1 ELSE silences
  /\ connected' = connected \ {a}
  /\ CallMissed({a})
  /\ EnvironmentStep
  /\ UNCHANGED <<asked, requests, open, handler_ended, sent, awaiting>>

\* The bumper gives up a silent client: its connection goes, and a DISCONNECT
\* is made up for it.
GiveUpClient(a) ==
  /\ a \in connected /\ silences < MaxSilences
  /\ silences' = silences + 1
  /\ connected' = connected \ {a}
  /\ requests' = IF open
                   THEN Append(requests, [client |-> a,
                                body |-> [type |-> "DISCONNECT", username |-> NoUser],
                                made_up |-> TRUE])
                   ELSE requests
  /\ CallMissed({a})
  /\ EnvironmentStep
  /\ UNCHANGED <<asked, open, handler_ended, sent, awaiting>>

Environment ==
  \/ Interrupt \/ CallEnds
  \/ \E a \in Address : ClientSends(a)
  \/ \E a \in Lossy : LateRequest(a) \/ StrayDisconnect(a) \/ GiveUpClient(a)

-----------------------------------------------------------------------------
ServerNext == CommNotif \/ CommReq \/ Prof \/ EndPersister \/ Notif \/ Main \/ Environment

ServerSpec == ServerInit /\ [][ServerNext]_serverVars

\* Threads run, except that main need not leave its wait, and while the socket
\* is not disconnected its bumper ends each call.  Clients need not do anything.
ServerFairSpec ==
  /\ ServerSpec
  /\ WF_serverVars(CommNotif) /\ WF_serverVars(CommReq) /\ WF_serverVars(Prof)
  /\ WF_serverVars(EndPersister) /\ WF_serverVars(Notif) /\ WF_serverVars(MainGoesOn)
  /\ WF_serverVars(open /\ CallEnds)

-----------------------------------------------------------------------------
(* Properties.                                                             *)

\* The communication manager waits for a call that nobody will end, on a
\* connection that a response or a CONN made after the last disconnect().
Stranded ==
  /\ comm_notif = "waiting" /\ ~open
  /\ main \in {"joining", "joined"} /\ task["comm_req"] = "ended"

(* Once main has left its wait, every thread ends and main returns, in     *)
(* whatever order the channels are cut and the threads notice, except when *)
(* a response was sent or a CONN handled after disconnect() and a          *)
(* notification to the same client was still queued.                       *)
ServerEnds == main = "cutting" ~> main = "returned" \/ Stranded

(* join_all waits for each thread exactly once, and its second call, in    *)
(* the tracker's destructor, finds nothing left that would end the process.*)
JoinedOnce ==
  /\ ~terminated
  /\ main = "returned" => \A t \in Task : task[t] = "ended" /\ threads[t] = "nothing"

(* A client that waits gets a response, an error included, also when its   *)
(* connection was given up meanwhile, until main leaves its wait to take   *)
(* the server down: as scripts end, each does if again and again nobody    *)
(* waits.                                                                  *)
RequestAnswered == []<>(awaiting = {} \/ main \notin {"starting", "waiting"})

(* A client that does not answer only delays the others: what is queued    *)
(* for followers is consumed, passed on and sent, again and again, until   *)
(* the notification manager ends.                                          *)
NotifsDrain ==
  []<>(\/ task["notif"] = "ended"
       \/ /\ \A u \in Username : pending_notifs[u] = <<>>
          /\ to_send = {} /\ notif_to_comm = <<>>)

(* The notifications of one sender are sent to a client in the order in    *)
(* which the sender was told that they were accepted, and none twice.  (The*)
(* scripts connect once: who connects over his own session under a second  *)
(* name is listed under both, and is sent what either of them follows.)    *)
SentInOrder ==
  \A a \in Address : \A i, j \in 1..Len(attempted[a]) :
    i < j /\ attempted[a][i][1] = attempted[a][j][1] => attempted[a][i][2] < attempted[a][j][2]
=============================================================================
