--------------------------- MODULE ClientProcess ---------------------------
(***************************************************************************)
(* The client program: the interface's two threads (client/interface.cpp), *)
(* the session manager's two (client/session_manager.cpp), the channels    *)
(* between them, and the main thread, which starts them, waits until       *)
(* somebody asks it to stop, and then takes everything down                *)
(* (client/main.cpp).  ThreadTracker is its tracker.                       *)
(*                                                                         *)
(* The socket below is ReliableSocket as module Calls promises it, for one *)
(* connection to the server: a call ends with a response, with an error,   *)
(* with a response that belongs to another request, or is missed.          *)
(* disconnect() is one step here: ReliableSocket takes it apart.           *)
(*                                                                         *)
(* A step takes with it what only its own thread can see: a message is     *)
(* taken from a channel in the step that uses it, a thread signals in the  *)
(* step that ends it, and two channels disconnected one after the other    *)
(* are disconnected in one step: nobody who saw only the first looks at    *)
(* the second before it follows.                                           *)
(*                                                                         *)
(* An operator named Mutant... is a wrong version of the definition below  *)
(* it, no part of the specification.                                       *)
(***************************************************************************)
EXTENDS ThreadTracker, Naturals, Sequences

CONSTANTS MaxCommands,   \* bound: commands the user types
          MaxNotifs      \* bound: notifications the server delivers

ASSUME BoundAssumption == MaxCommands \in Nat /\ MaxNotifs \in Nat
ASSUME TaskAssumption == Task = {"input", "output", "session", "receiver"}

VARIABLES
  main, input, session, receiver,  \* control states of the threads
  asked,            \* signal_graceful_shutdown or a signal handler was called
  commands, commands_cut,  \* interface_to_session_man: how many, disconnected
  notices, notices_cut,    \* session_man_to_interface: the queue, disconnected
  requests,         \* the socket's channel of received requests
  open,             \* that channel is not disconnected
  connected,        \* the socket has a connection to the server
  disconnecting,    \* of that connection
  outcome,          \* of the session's call: "none", "waiting", or how it ended
  eof,              \* standard input has ended before main waited
  typed, delivered, server_left,   \* what the user and the server have done
  acked, shown,     \* history: notifications answered with a response, printed
  accepted,         \* history: the server has accepted the CONN
  goodbye,          \* history: a DISCONNECT was sent to the server
  lost              \* history: the connection was lost, or ended by the server

channelVars == <<commands, commands_cut, notices, notices_cut>>
socketVars == <<requests, open, connected, disconnecting, outcome, goodbye, lost>>
peerVars == <<typed, eof, delivered, server_left>>
historyVars == <<acked, shown, accepted>>
threadVars == <<main, input, session, receiver>>
vars == <<trackerVars, threadVars, asked, channelVars, socketVars, peerVars, historyVars>>

Notif == 1..MaxNotifs
ErrorNotice == 0
Notice == Notif \cup {ErrorNotice}
Request == [type : {"DELIVER"}, notif : Notif] \cup [type : {"DISCONNECT"}]

TypeOK ==
  /\ TrackerTypeOK
  /\ main \in {"starting", "installing", "waiting", "cutting", "disconnecting",
               "joining", "joined", "returned"}
  /\ input \in {"looking", "sending"}
  /\ session \in {"starting", "connecting", "receiving", "commanding", "leaving",
                  "parting", "disconnecting", "cutting", "unwinding"}
  /\ receiver \in {"receiving", "answering", "disconnecting"}
  /\ asked \in BOOLEAN
  /\ commands \in 0..MaxCommands /\ commands_cut \in BOOLEAN
  /\ notices \in Seq(Notice) /\ notices_cut \in BOOLEAN
  /\ requests \in Seq(Request) /\ open \in BOOLEAN
  /\ connected \in BOOLEAN /\ disconnecting \in BOOLEAN
  /\ outcome \in {"none", "waiting", "answered", "ERROR", "wrong", "missed"}
  /\ outcome = "waiting" => connected     \* its request is pending there
  /\ typed \in 0..MaxCommands /\ eof \in BOOLEAN
  /\ delivered \in 0..MaxNotifs /\ server_left \in BOOLEAN
  /\ acked \subseteq Notif /\ shown \subseteq Notif
  /\ accepted \in BOOLEAN /\ goodbye \in BOOLEAN /\ lost \in BOOLEAN

Init ==
  /\ TrackerInit
  /\ main = "starting" /\ input = "looking"
  /\ session = "starting" /\ receiver = "receiving"
  /\ asked = FALSE
  /\ commands = 0 /\ commands_cut = FALSE
  /\ notices = <<>> /\ notices_cut = FALSE
  /\ requests = <<>> /\ open = TRUE
  /\ connected = FALSE /\ disconnecting = FALSE /\ outcome = "none"
  /\ typed = 0 /\ eof = FALSE /\ delivered = 0 /\ server_left = FALSE
  /\ acked = {} /\ shown = {}
  /\ accepted = FALSE /\ goodbye = FALSE /\ lost = FALSE

\* Nothing follows std::terminate.
Running(t) == task[t] = "running" /\ ~terminated

\* The last step of a thread.
SignalAndFinish(t) == asked' = TRUE /\ Finish(t)

-----------------------------------------------------------------------------
(* Parts of the socket's operations.                                       *)

\* send_req.  Without a connection only a CONN is sent: a DISCONNECT is
\* answered on the spot, and the callback of another request destroyed.
SendReq(type) ==
  LET sent == connected \/ type = "CONN" IN
  /\ connected' = sent
  /\ disconnecting' = (connected /\ (disconnecting \/ type = "DISCONNECT"))
  /\ goodbye' = (goodbye \/ (connected /\ type = "DISCONNECT"))
  /\ outcome' = CASE sent -> "waiting"
                  [] ~sent /\ type = "DISCONNECT" -> "answered"
                  [] ~sent /\ type # "DISCONNECT" -> "missed"
  /\ UNCHANGED <<requests, open, lost>>

\* send_resp makes a connection when there is none any more.
SendResp ==
  /\ connected' = TRUE
  /\ disconnecting' = (connected /\ disconnecting)
  /\ UNCHANGED <<open, outcome, goodbye, lost>>

\* disconnect(): the channel of requests is cut, a server that was not told
\* yet is sent a DISCONNECT, and a call that is pending is missed.
MutantDisconnect ==   \* drops the connection without a word to the server
  /\ connected' = FALSE
  /\ outcome' = IF outcome = "waiting" THEN "missed" ELSE outcome
  /\ open' = FALSE /\ disconnecting' = FALSE
  /\ UNCHANGED <<requests, goodbye, lost>>
MutantForgetful ==        \* forgets the callbacks of the requests that are pending
  /\ connected' = FALSE
  /\ goodbye' = (goodbye \/ (connected /\ ~disconnecting))
  /\ open' = FALSE /\ disconnecting' = FALSE
  /\ UNCHANGED <<requests, outcome, lost>>
DisconnectSocket ==
  /\ connected' = FALSE
  /\ outcome' = IF outcome = "waiting" THEN "missed" ELSE outcome
  /\ goodbye' = (goodbye \/ (connected /\ ~disconnecting))
  /\ open' = FALSE /\ disconnecting' = FALSE
  /\ UNCHANGED <<requests, lost>>

-----------------------------------------------------------------------------
(* The interface.                                                          *)

\* A line is there when the loops test whether the channel is cut.
ReadLine ==
  /\ Running("input") /\ input = "looking"
  /\ ~commands_cut
  /\ typed < MaxCommands
  /\ typed' = typed + 1
  /\ input' = "sending"
  /\ UNCHANGED <<trackerVars, main, session, receiver, asked, channelVars, socketVars,
                 eof, delivered, server_left, historyVars>>

\* The send is in no handler for ChannelDisconnected: it leaves the thread
\* when the channel was cut since the loop looked.
SendCommand ==
  /\ Running("input") /\ input = "sending"
  /\ IF commands_cut
       THEN Terminate /\ UNCHANGED <<input, commands>>
       ELSE /\ commands' = commands + 1
            /\ input' = "looking"
            /\ UNCHANGED trackerVars
  /\ UNCHANGED <<main, session, receiver, asked, commands_cut, notices, notices_cut,
                 socketVars, peerVars, historyVars>>

\* The loops end: standard input is at its end, or the channel is cut.
EndInput ==
  /\ Running("input") /\ input = "looking"
  /\ eof' = (main = "installing") \/ (commands_cut /\ UNCHANGED eof)
  /\ SignalAndFinish("input")
  /\ UNCHANGED <<threadVars, channelVars, socketVars, typed, delivered, server_left,
                 historyVars>>

Input == ReadLine \/ SendCommand \/ EndInput

PrintNotice ==
  /\ Running("output") /\ notices # <<>>
  /\ notices' = Tail(notices)
  /\ shown' = shown \cup ({Head(notices)} \ {ErrorNotice})
  /\ UNCHANGED <<trackerVars, threadVars, asked, commands, commands_cut, notices_cut,
                 socketVars, peerVars, acked, accepted>>

EndOutput ==
  /\ Running("output") /\ notices = <<>> /\ notices_cut
  /\ Finish("output")
  /\ UNCHANGED <<threadVars, asked, channelVars, socketVars, peerVars, historyVars>>

Output == PrintNotice \/ EndOutput

-----------------------------------------------------------------------------
(* The session thread.  Its first guard disconnects the socket at its end; *)
(* its second, once the server has accepted it, says goodbye first.        *)

SendConn ==
  /\ Running("session") /\ session = "starting"
  /\ SendReq("CONN")
  /\ session' = "connecting"
  /\ UNCHANGED <<trackerVars, main, input, receiver, asked, channelVars, peerVars,
                 historyVars>>

\* A notice of an error, in a handler that ignores a channel that is cut.
MutantTryNotice ==   \* without that handler
  IF notices_cut THEN Terminate /\ UNCHANGED notices
                 ELSE notices' = Append(notices, ErrorNotice) /\ UNCHANGED trackerVars
TryNotice ==
  /\ notices' = IF notices_cut THEN notices ELSE Append(notices, ErrorNotice)
  /\ UNCHANGED trackerVars

\* The cast of a body that is neither the response nor an error throws what
\* nobody catches.
ConnAnswered ==
  /\ Running("session") /\ session = "connecting" /\ outcome # "waiting"
  /\ CASE outcome = "answered" ->
            /\ session' = "receiving"
            /\ outcome' = "none"
            /\ UNCHANGED <<trackerVars, notices>>
       [] outcome \in {"ERROR", "missed"} ->
            /\ TryNotice
            /\ session' = "cutting"
            /\ outcome' = "none"
       [] outcome = "wrong" ->
            /\ Terminate
            /\ UNCHANGED <<session, outcome, notices>>
  /\ UNCHANGED <<main, input, receiver, asked, commands, commands_cut, notices_cut,
                 requests, open, connected, disconnecting,
                 goodbye, lost, peerVars, historyVars>>

\* FOLLOW or SEND: what the command is makes no difference here.
TakeCommand ==
  /\ Running("session") /\ session = "receiving"
  /\ commands > 0
  /\ commands' = commands - 1
  /\ SendReq("FOLLOW")
  /\ session' = "commanding"
  /\ UNCHANGED <<trackerVars, main, input, receiver, asked, commands_cut, notices,
                 notices_cut, peerVars, historyVars>>

\* The notice of an error is sent by a handler inside the loop: a channel that
\* is cut ends the loop.
CommandAnswered ==
  /\ Running("session") /\ session = "commanding" /\ outcome # "waiting"
  /\ CASE outcome = "answered" ->
            /\ session' = "receiving"
            /\ outcome' = "none"
            /\ UNCHANGED <<trackerVars, notices>>
       [] outcome \in {"ERROR", "missed"} ->
            /\ notices' = IF notices_cut THEN notices ELSE Append(notices, ErrorNotice)
            /\ session' = IF notices_cut THEN "leaving" ELSE "receiving"
            /\ outcome' = "none"
            /\ UNCHANGED trackerVars
       [] outcome = "wrong" ->
            /\ Terminate
            /\ UNCHANGED <<session, outcome, notices>>
  /\ UNCHANGED <<main, input, receiver, asked, commands, commands_cut, notices_cut,
                 requests, open, connected, disconnecting,
                 goodbye, lost, peerVars, historyVars>>

\* from_interface.receive() throws: the channel is cut, or its sender gone.
EndCommands ==
  /\ Running("session") /\ session = "receiving"
  /\ commands = 0 /\ (commands_cut \/ task["input"] = "ended")
  /\ session' = "leaving"
  /\ UNCHANGED <<trackerVars, main, input, receiver, asked, channelVars, socketVars,
                 peerVars, historyVars>>

\* The second guard's destructor: a DISCONNECT, its response or none, and
\* disconnect().
SayGoodbye ==
  /\ Running("session") /\ session = "leaving"
  /\ SendReq("DISCONNECT")
  /\ session' = "parting"
  /\ UNCHANGED <<trackerVars, main, input, receiver, asked, channelVars, peerVars,
                 historyVars>>

GoodbyeAnswered ==
  /\ Running("session") /\ session = "parting" /\ outcome # "waiting"
  /\ outcome' = "none"
  /\ session' = "disconnecting"
  /\ UNCHANGED <<trackerVars, main, input, receiver, asked, channelVars, requests, open,
                 connected, disconnecting, goodbye, lost,
                 peerVars, historyVars>>

SessionDisconnects ==
  /\ Running("session") /\ session = "disconnecting"
  /\ DisconnectSocket
  /\ session' = "cutting"
  /\ UNCHANGED <<trackerVars, main, input, receiver, asked, channelVars, peerVars,
                 historyVars>>

SessionCuts ==
  /\ Running("session") /\ session = "cutting"
  /\ commands_cut' = TRUE /\ notices_cut' = TRUE
  /\ asked' = TRUE
  /\ session' = "unwinding"
  /\ UNCHANGED <<trackerVars, main, input, receiver, commands, notices, socketVars, peerVars,
                 historyVars>>

\* The first guard's destructor.
EndSession ==
  /\ Running("session") /\ session = "unwinding"
  /\ DisconnectSocket
  /\ Finish("session")
  /\ UNCHANGED <<threadVars, asked, channelVars, peerVars, historyVars>>

Session ==
  \/ SendConn \/ ConnAnswered \/ TakeCommand \/ CommandAnswered \/ EndCommands
  \/ SayGoodbye \/ GoodbyeAnswered
  \/ SessionDisconnects \/ SessionCuts \/ EndSession

-----------------------------------------------------------------------------
(* The receiver thread.                                                    *)

Received(type) == Running("receiver") /\ receiver = "receiving"
                    /\ requests # <<>> /\ Head(requests).type = type

\* A notification is passed to the interface and then answered; when the
\* interface is cut off the thread ends without an answer.
MutantShow ==   \* answers what it could not pass on
  /\ Received("DELIVER")
  /\ notices' = IF notices_cut THEN notices ELSE Append(notices, Head(requests).notif)
  /\ receiver' = "answering"
  /\ UNCHANGED <<trackerVars, asked, requests>>
  /\ UNCHANGED <<main, input, session, commands, commands_cut, notices_cut, open,
                 connected, disconnecting, outcome, goodbye, lost,
                 peerVars, historyVars>>
Show ==
  /\ Received("DELIVER")
  /\ IF notices_cut
       THEN /\ SignalAndFinish("receiver")
            /\ requests' = Tail(requests)
            /\ UNCHANGED <<notices, receiver>>
       ELSE /\ notices' = Append(notices, Head(requests).notif)
            /\ receiver' = "answering"
            /\ UNCHANGED <<trackerVars, asked, requests>>
  /\ UNCHANGED <<main, input, session, commands, commands_cut, notices_cut, open,
                 connected, disconnecting, outcome, goodbye, lost,
                 peerVars, historyVars>>

AnswerDeliver ==
  /\ Running("receiver") /\ receiver = "answering"
  /\ SendResp
  /\ acked' = acked \cup {Head(requests).notif}
  /\ requests' = Tail(requests)
  /\ receiver' = "receiving"
  /\ UNCHANGED <<trackerVars, main, input, session, asked, channelVars, peerVars,
                 shown, accepted>>

\* The server's DISCONNECT, or the one made up for a server that is silent.
AnswerDisconnect ==
  /\ Received("DISCONNECT")
  /\ SendResp
  /\ requests' = Tail(requests)
  /\ receiver' = "disconnecting"
  /\ UNCHANGED <<trackerVars, main, input, session, asked, channelVars, peerVars,
                 historyVars>>

ReceiverDisconnects ==
  /\ Running("receiver") /\ receiver = "disconnecting"
  /\ DisconnectSocket
  /\ SignalAndFinish("receiver")
  /\ UNCHANGED <<threadVars, channelVars, peerVars, historyVars>>

EndReceiver ==
  /\ Running("receiver") /\ receiver = "receiving"
  /\ requests = <<>> /\ ~open
  /\ SignalAndFinish("receiver")
  /\ UNCHANGED <<threadVars, channelVars, socketVars, peerVars, historyVars>>

Receiver ==
  \/ Show \/ AnswerDeliver
  \/ AnswerDisconnect \/ ReceiverDisconnects
  \/ EndReceiver

-----------------------------------------------------------------------------
(* The main thread.                                                        *)

Start ==
  /\ main = "starting" /\ main' = "installing"
  /\ Spawn
  /\ UNCHANGED <<input, session, receiver, asked, channelVars, socketVars, peerVars, historyVars>>

\* The wait installs the signal handler and stores STATE_SET, unless it finds
\* itself asked to stop: who asks between that look and the store is lost.
\* (A Ctrl-C there is lost as well, and one before it ends the process.)  Not
\* lost is the end of standard input, which the wait looks for itself.
BeginWait ==
  /\ ~terminated
  /\ main = "installing" /\ main' = "waiting"
  /\ asked' \in {asked, eof}
  /\ eof' = FALSE
  /\ UNCHANGED <<trackerVars, input, session, receiver, channelVars, socketVars,
                 typed, delivered, server_left, historyVars>>

MainStep(from, to) ==
  /\ ~terminated
  /\ main = from /\ main' = to
  /\ UNCHANGED <<input, session, receiver, asked, peerVars, historyVars>>

StopWaiting ==
  /\ asked
  /\ MainStep("waiting", "cutting")
  /\ UNCHANGED <<trackerVars, channelVars, socketVars>>

MainCuts ==
  /\ MainStep("cutting", "disconnecting")
  /\ commands_cut' = TRUE /\ notices_cut' = TRUE
  /\ UNCHANGED <<trackerVars, commands, notices, socketVars>>

\* disconnect_timeout: when the others have disconnected, or after a while.
MainDisconnects ==
  /\ MainStep("disconnecting", "joining")
  /\ DisconnectSocket
  /\ UNCHANGED <<trackerVars, channelVars>>

\* The destructor of the tracker.
MainJoins ==
  /\ MainStep("joining", "joined")
  /\ JoinAll
  /\ UNCHANGED <<channelVars, socketVars>>

Return ==
  /\ AllJoined
  /\ MainStep("joined", "returned")
  /\ UNCHANGED <<trackerVars, channelVars, socketVars>>

Main ==
  \/ Start \/ BeginWait \/ StopWaiting \/ MainCuts
  \/ MainDisconnects \/ MainJoins \/ Return

\* Ctrl-C.
Interrupt ==
  /\ main = "waiting" /\ ~asked /\ ~terminated
  /\ asked' = TRUE
  /\ UNCHANGED <<trackerVars, threadVars, channelVars, socketVars, peerVars, historyVars>>

-----------------------------------------------------------------------------
(* The socket's own threads, and the server behind them.                   *)

SocketStep ==
  /\ ~terminated
  /\ UNCHANGED <<trackerVars, threadVars, asked, channelVars, typed, eof, historyVars>>

\* The response to the session's request, an error, or a DISCONNECT response
\* to a request of another number space, which takes the connection along.
Respond ==
  /\ outcome = "waiting" /\ ~terminated
  /\ \/ /\ outcome' = "answered"
        /\ connected' = (session # "parting")
        /\ accepted' = (accepted \/ session = "connecting")
        /\ UNCHANGED lost
     \/ /\ session # "parting"
        /\ outcome' = "ERROR"
        /\ UNCHANGED <<connected, accepted, lost>>
     \/ /\ session # "parting"
        /\ outcome' = "wrong"
        /\ connected' = FALSE /\ lost' = TRUE
        /\ UNCHANGED accepted
  /\ UNCHANGED <<trackerVars, threadVars, asked, channelVars, peerVars, acked, shown,
                 requests, open, disconnecting, goodbye>>

\* Such a response that finds no request of its number.
StrayDisconnect ==
  /\ connected
  /\ connected' = FALSE /\ lost' = TRUE
  /\ outcome' = IF outcome = "waiting" THEN "missed" ELSE outcome
  /\ SocketStep
  /\ UNCHANGED <<requests, open, disconnecting, goodbye,
                 delivered, server_left>>

\* A request of the server.
ServerReq(req) ==
  /\ connected /\ open
  /\ requests' = Append(requests, req)
  /\ SocketStep
  /\ UNCHANGED <<open, connected, disconnecting, outcome, goodbye>>

ServerDelivers ==
  /\ delivered < MaxNotifs /\ ~server_left
  /\ delivered' = delivered + 1
  /\ ServerReq([type |-> "DELIVER", notif |-> delivered + 1])
  /\ UNCHANGED <<server_left, lost>>

ServerLeaves ==
  /\ ~server_left
  /\ server_left' = TRUE /\ lost' = TRUE
  /\ ServerReq([type |-> "DISCONNECT"])
  /\ UNCHANGED delivered

\* The bumper, which ends some time after the channel of requests was cut,
\* gives up a request, or a server it has not heard of.
GiveUpCall ==
  /\ outcome = "waiting"
  /\ outcome' = "missed"
  /\ SocketStep
  /\ UNCHANGED <<requests, open, connected, disconnecting, goodbye, lost, delivered,
                 server_left>>

GiveUpServer ==
  /\ connected
  /\ connected' = FALSE /\ lost' = TRUE
  /\ outcome' = IF outcome = "waiting" THEN "missed" ELSE outcome
  /\ requests' = IF open THEN Append(requests, [type |-> "DISCONNECT"]) ELSE requests
  /\ SocketStep
  /\ UNCHANGED <<open, disconnecting, goodbye, delivered, server_left>>

Socket ==
  \/ Respond \/ StrayDisconnect \/ ServerDelivers \/ ServerLeaves
  \/ GiveUpCall \/ GiveUpServer

-----------------------------------------------------------------------------
Next == Input \/ Output \/ Session \/ Receiver \/ Main \/ Interrupt \/ Socket

Spec == Init /\ [][Next]_vars

\* Threads run, a request is given up when it was sent often enough, and a
\* channel that was cut is noticed.  The user need not type, nor the server
\* answer.
FairSpec ==
  /\ Spec
  /\ WF_vars(SendCommand \/ (commands_cut /\ EndInput)) /\ WF_vars(Output)
  /\ WF_vars(Session) /\ WF_vars(Receiver) /\ WF_vars(Main)
  /\ WF_vars(open /\ GiveUpCall)

-----------------------------------------------------------------------------
(* Properties.                                                             *)

\* The session thread waits for a call that nobody will end, made on a
\* connection that came after disconnect() and that nothing clears any more.
Stranded ==
  /\ outcome = "waiting" /\ connected /\ ~open
  /\ main \in {"joining", "joined"} /\ task["receiver"] = "ended"

(* Once the client is asked to stop, or its input at its end, it returns   *)
(* from main: no call, guard or channel keeps a thread for ever, whichever *)
(* of them is first to stop.  There are three exceptions: an exception     *)
(* ends it before that, a CONN or a response was sent so late that it made *)
(* a connection on the disconnected socket, or a thread that ended before  *)
(* main waited had its signal overwritten by the wait's own store.         *)
ClientEnds ==
  eof \/ (asked /\ main # "installing") ~> main = "returned" \/ terminated \/ Stranded

(* No exception ends the client except in the two places where the code    *)
(* lets one go: a command sent on a channel that was cut since it was      *)
(* looked at, and a response to another request.                           *)
TerminatedCause == terminated => (input = "sending" /\ commands_cut) \/ outcome = "wrong"

(* A session that the server accepted is ended by a DISCONNECT to it       *)
(* before main returns, whichever thread was first to stop, unless the     *)
(* connection was lost or ended by the server.                             *)
GoodbyeSent == main = "returned" /\ accepted => goodbye \/ lost

(* A notification whose delivery was acknowledged to the server is printed *)
(* before main returns, however the client is taken down.                  *)
AckedIsShown == main = "returned" => acked \subseteq shown
=============================================================================
