------------------------ MODULE ClientProcess_proofs ------------------------
(***************************************************************************)
(* Theorems about ClientProcess, for any number of commands and            *)
(* notifications.                                                          *)
(***************************************************************************)
EXTENDS ClientProcess, SequenceTheorems, TLAPS

-----------------------------------------------------------------------------
(* Sequences and requests.                                                 *)

LEMMA HeadTailTyped ==
  ASSUME NEW S, NEW s \in Seq(S), s # <<>>
  PROVE  Head(s) \in S /\ Tail(s) \in Seq(S)
OBVIOUS

LEMMA AppendTyped ==
  ASSUME NEW S, NEW s \in Seq(S), NEW e \in S
  PROVE  /\ Append(s, e) \in Seq(S)
         /\ Append(s, e) # <<>>
         /\ s # <<>> => Head(Append(s, e)) = Head(s)
<1>1. s # <<>> => Len(s) \in Nat \ {0}
  BY EmptySeq
<1>2. /\ Append(s, e) \in Seq(S)
      /\ Append(s, e) # <<>>
      /\ \A i \in 1..Len(s) : Append(s, e)[i] = s[i]
  BY AppendProperties
<1> QED
  BY <1>1, <1>2

LEMMA RequestTyped ==
  /\ \A n \in Notif : [type |-> "DELIVER", notif |-> n] \in Request
  /\ [type |-> "DISCONNECT"] \in Request
  /\ \A r \in Request : r.type = "DELIVER" => r.notif \in Notif
BY DEF Request

-----------------------------------------------------------------------------
(* Types.  The threads that wait for a call have made one, the line that   *)
(* is being sent was typed, and the request that is answered is still at   *)
(* the head of the channel.                                                *)

TypeInv ==
  /\ TypeOK
  /\ commands + (IF input = "sending" THEN 1 ELSE 0) <= typed
  /\ session \in {"connecting", "commanding"} => outcome # "none"
  /\ receiver = "answering" => requests # <<>> /\ Head(requests).type = "DELIVER"

LEMMA TrackerFinishTyped ==
  ASSUME TrackerTypeOK, NEW t \in Task, Finish(t)
  PROVE  TrackerTypeOK'
BY DEF TrackerTypeOK, Finish

LEMMA TrackerSameTyped ==
  ASSUME TrackerTypeOK, UNCHANGED trackerVars
  PROVE  TrackerTypeOK'
BY DEF TrackerTypeOK, trackerVars

LEMMA TrackerTerminateTyped ==
  ASSUME TrackerTypeOK, Terminate
  PROVE  TrackerTypeOK'
BY DEF TrackerTypeOK, Terminate

LEMMA TrackerMainTyped ==
  ASSUME TrackerTypeOK, Spawn \/ JoinAll
  PROVE  TrackerTypeOK'
BY DEF TrackerTypeOK, Spawn, JoinAll

\* The socket but for its channel of requests.
SocketTypeOK ==
  /\ open \in BOOLEAN /\ connected \in BOOLEAN /\ disconnecting \in BOOLEAN
  /\ outcome \in {"none", "waiting", "answered", "ERROR", "wrong", "missed"}
  /\ outcome = "waiting" => connected
  /\ goodbye \in BOOLEAN /\ lost \in BOOLEAN

LEMMA SendReqTyped ==
  ASSUME SocketTypeOK, NEW type \in {"CONN", "FOLLOW", "DISCONNECT"}, SendReq(type)
  PROVE  SocketTypeOK' /\ outcome' \in {"waiting", "answered", "missed"}
<1>1. /\ connected' \in BOOLEAN /\ disconnecting' \in BOOLEAN
      /\ goodbye' \in BOOLEAN
  BY DEF SendReq
<1>2. /\ outcome' \in {"waiting", "answered", "missed"}
      /\ outcome' = "waiting" => connected'
  BY DEF SendReq
<1> QED
  BY <1>1, <1>2 DEF SocketTypeOK, SendReq

LEMMA SendRespTyped ==
  ASSUME SocketTypeOK, SendResp
  PROVE  SocketTypeOK'
<1>1. disconnecting' \in BOOLEAN
  BY DEF SendResp
<1> QED
  BY <1>1 DEF SocketTypeOK, SendResp

LEMMA DisconnectTyped ==
  ASSUME SocketTypeOK, DisconnectSocket
  PROVE  SocketTypeOK' /\ outcome' \in {outcome, "missed"}
<1>1. goodbye' \in BOOLEAN
  BY DEF DisconnectSocket
<1> QED
  BY <1>1 DEF SocketTypeOK, DisconnectSocket

LEMMA InputTyped == TypeInv /\ Input => TypeInv'
<1> SUFFICES ASSUME TypeInv, Input
             PROVE  TypeInv'
  OBVIOUS
<1>0. TypeOK /\ TrackerTypeOK /\ "input" \in Task /\ MaxCommands \in Nat
  BY TaskAssumption, BoundAssumption DEF TypeInv, TypeOK
<1>1. CASE ReadLine
  <2>1. TrackerTypeOK'
    BY <1>0, <1>1, TrackerSameTyped DEF ReadLine
  <2> QED
    BY <1>0, <1>1, <2>1 DEF ReadLine, TypeInv, TypeOK, channelVars, socketVars, historyVars
<1>2. CASE SendCommand
  <2>1. TrackerTypeOK'
    BY <1>0, <1>2, TrackerSameTyped, TrackerTerminateTyped DEF SendCommand
  <2> QED
    BY <1>0, <1>2, <2>1 DEF SendCommand, TypeInv, TypeOK, socketVars, peerVars, historyVars
<1>3. CASE EndInput
  <2>1. TrackerTypeOK'
    BY <1>0, <1>3, TrackerFinishTyped DEF EndInput, SignalAndFinish
  <2>2. eof' \in BOOLEAN
    <3>1. eof' = (main = "installing") => eof' \in BOOLEAN
      OBVIOUS
    <3>2. eof \in BOOLEAN
      BY <1>0 DEF TypeOK
    <3> QED
      BY <1>3, <3>1, <3>2 DEF EndInput
  <2> QED
    BY <1>0, <1>3, <2>1, <2>2 DEF EndInput, SignalAndFinish, TypeInv, TypeOK, threadVars,
       channelVars, socketVars, historyVars
<1> QED
  BY <1>1, <1>2, <1>3 DEF Input

LEMMA OutputTyped == TypeInv /\ Output => TypeInv'
<1> SUFFICES ASSUME TypeInv, Output
             PROVE  TypeInv'
  OBVIOUS
<1>0. TypeOK /\ TrackerTypeOK /\ "output" \in Task
  BY TaskAssumption DEF TypeInv, TypeOK
<1>1. CASE PrintNotice
  <2>1. TrackerTypeOK'
    BY <1>0, <1>1, TrackerSameTyped DEF PrintNotice
  <2>2. notices' \in Seq(Notice) /\ shown' \subseteq Notif
    BY <1>0, <1>1, HeadTailTyped DEF PrintNotice, TypeOK, Notice
  <2> QED
    BY <1>0, <1>1, <2>1, <2>2 DEF PrintNotice, TypeInv, TypeOK, threadVars, socketVars, peerVars
<1>2. CASE EndOutput
  <2>1. TrackerTypeOK'
    BY <1>0, <1>2, TrackerFinishTyped DEF EndOutput
  <2> QED
    BY <1>0, <1>2, <2>1 DEF EndOutput, TypeInv, TypeOK, threadVars, channelVars, socketVars,
       peerVars, historyVars
<1> QED
  BY <1>1, <1>2 DEF Output

\* The response to a call, or none: the two threads' reactions differ only in
\* where they go.
LEMMA SessionTyped == TypeInv /\ Session => TypeInv'
<1> SUFFICES ASSUME TypeInv, Session
             PROVE  TypeInv'
  OBVIOUS
<1>0. TypeOK /\ TrackerTypeOK /\ "session" \in Task /\ ErrorNotice \in Notice
  BY TaskAssumption DEF TypeInv, TypeOK, Notice
<1>1. CASE SendConn
  <2>1. TrackerTypeOK'
    BY <1>0, <1>1, TrackerSameTyped DEF SendConn
  <2>2. SocketTypeOK' /\ outcome' # "none"
    BY <1>0, <1>1, SendReqTyped DEF SendConn, TypeOK, SocketTypeOK
  <2> QED
    BY <1>0, <1>1, <2>1, <2>2 DEF SendConn, SendReq, SocketTypeOK, TypeInv, TypeOK, channelVars,
       peerVars, historyVars
<1>2. CASE ConnAnswered
  <2>1. outcome \in {"answered", "ERROR", "missed", "wrong"}
    BY <1>0, <1>2 DEF ConnAnswered, TypeInv, TypeOK
  <2>2. /\ UNCHANGED trackerVars \/ Terminate
        /\ notices' \in {notices, Append(notices, ErrorNotice)}
        /\ \/ session' \in {"receiving", "cutting"} /\ outcome' = "none"
           \/ UNCHANGED <<session, outcome>>
    BY <1>2, <2>1 DEF ConnAnswered, TryNotice
  <2>3. TrackerTypeOK'
    BY <1>0, <2>2, TrackerSameTyped, TrackerTerminateTyped
  <2>4. notices' \in Seq(Notice)
    BY <1>0, <2>2, AppendTyped, SMTT(30) DEF TypeOK
  <2> QED
    BY <1>0, <1>2, <2>2, <2>3, <2>4 DEF ConnAnswered, TypeInv, TypeOK, peerVars, historyVars
<1>3. CASE TakeCommand
  <2>1. TrackerTypeOK'
    BY <1>0, <1>3, TrackerSameTyped DEF TakeCommand
  <2> QED
    BY <1>0, <1>3, <2>1, BoundAssumption DEF TakeCommand, SendReq, TypeInv, TypeOK, peerVars,
       historyVars
<1>4. CASE CommandAnswered
  <2>1. outcome \in {"answered", "ERROR", "missed", "wrong"}
    BY <1>0, <1>4 DEF CommandAnswered, TypeInv, TypeOK
  <2>2. /\ UNCHANGED trackerVars \/ Terminate
        /\ notices' \in {notices, Append(notices, ErrorNotice)}
        /\ \/ session' \in {"receiving", "leaving"} /\ outcome' = "none"
           \/ UNCHANGED <<session, outcome>>
    BY <1>4, <2>1 DEF CommandAnswered
  <2>3. TrackerTypeOK'
    BY <1>0, <2>2, TrackerSameTyped, TrackerTerminateTyped
  <2>4. notices' \in Seq(Notice)
    BY <1>0, <2>2, AppendTyped, SMTT(30) DEF TypeOK
  <2> QED
    BY <1>0, <1>4, <2>2, <2>3, <2>4 DEF CommandAnswered, TypeInv, TypeOK, peerVars, historyVars
<1>5. CASE EndCommands \/ SayGoodbye \/ GoodbyeAnswered
  <2>1. TrackerTypeOK'
    BY <1>0, <1>5, TrackerSameTyped DEF EndCommands, SayGoodbye, GoodbyeAnswered
  <2> QED
    BY <1>0, <1>5, <2>1 DEF EndCommands, SayGoodbye, GoodbyeAnswered, SendReq, TypeInv, TypeOK,
       channelVars, socketVars, peerVars, historyVars
<1>6. CASE SessionDisconnects \/ SessionCuts
  <2>1. TrackerTypeOK'
    BY <1>0, <1>6, TrackerSameTyped DEF SessionDisconnects, SessionCuts
  <2>2. SocketTypeOK'
    BY <1>0, <1>6, DisconnectTyped DEF SessionDisconnects, SessionCuts, TypeOK, SocketTypeOK,
       socketVars
  <2>3. /\ UNCHANGED <<main, input, receiver, requests, commands, notices, peerVars, historyVars>>
        /\ session' \in {"cutting", "unwinding"}
    BY <1>6 DEF SessionDisconnects, SessionCuts, DisconnectSocket, channelVars, socketVars
  <2>4. asked' \in BOOLEAN /\ commands_cut' \in BOOLEAN /\ notices_cut' \in BOOLEAN
    BY <1>0, <1>6 DEF SessionDisconnects, SessionCuts, channelVars, TypeOK
  <2>5. TypeOK'
    BY <1>0, <2>1, <2>2, <2>3, <2>4 DEF SocketTypeOK, TypeOK, peerVars, historyVars
  <2> QED
    BY <2>3, <2>5 DEF TypeInv, peerVars
<1>7. CASE EndSession
  <2>1. TrackerTypeOK'
    BY <1>0, <1>7, TrackerFinishTyped DEF EndSession
  <2>2. SocketTypeOK' /\ outcome' \in {outcome, "missed"}
    BY <1>0, <1>7, DisconnectTyped DEF EndSession, TypeOK, SocketTypeOK
  <2> QED
    BY <1>0, <1>7, <2>1, <2>2 DEF EndSession, DisconnectSocket, SocketTypeOK, TypeInv, TypeOK,
       threadVars, channelVars, peerVars, historyVars
<1> QED
  BY <1>1, <1>2, <1>3, <1>4, <1>5, <1>6, <1>7 DEF Session

LEMMA ReceiverTyped == TypeInv /\ Receiver => TypeInv'
<1> SUFFICES ASSUME TypeInv, Receiver
             PROVE  TypeInv'
  OBVIOUS
<1>0. TypeOK /\ TrackerTypeOK /\ SocketTypeOK /\ "receiver" \in Task
  BY TaskAssumption DEF TypeInv, TypeOK, SocketTypeOK
<1>1. requests # <<>> => Head(requests) \in Request /\ Tail(requests) \in Seq(Request)
  BY <1>0, HeadTailTyped DEF TypeOK
<1>2. CASE Show
  <2>1. TrackerTypeOK'
    BY <1>0, <1>2, TrackerSameTyped, TrackerFinishTyped DEF Show, SignalAndFinish
  <2>2. Head(requests).notif \in Notice
    BY <1>1, <1>2, RequestTyped DEF Show, Received, Notice
  <2>3. notices' \in Seq(Notice)
    BY <1>0, <1>2, <2>2, AppendTyped DEF Show, TypeOK
  <2>4. receiver' \in {"receiving", "answering"} /\ requests' \in Seq(Request)
    BY <1>0, <1>1, <1>2 DEF Show, Received, TypeOK
  <2>5. receiver' = "answering" => requests' # <<>> /\ Head(requests').type = "DELIVER"
    BY <1>2 DEF Show, Received
  <2>6. asked' \in BOOLEAN
    BY <1>0, <1>2 DEF Show, SignalAndFinish, TypeOK
  <2> QED
    BY <1>0, <1>2, <2>1, <2>3, <2>4, <2>5, <2>6 DEF Show, TypeInv, TypeOK, peerVars, historyVars
<1>3. CASE AnswerDeliver
  <2>1. TrackerTypeOK'
    BY <1>0, <1>3, TrackerSameTyped DEF AnswerDeliver
  <2>2. Head(requests).notif \in Notif
    BY <1>1, <1>3, RequestTyped DEF AnswerDeliver, TypeInv
  <2> QED
    BY <1>0, <1>1, <1>3, <2>1, <2>2 DEF AnswerDeliver, SendResp, TypeInv, TypeOK, channelVars,
       peerVars
<1>4. CASE AnswerDisconnect
  <2>1. TrackerTypeOK'
    BY <1>0, <1>4, TrackerSameTyped DEF AnswerDisconnect
  <2> QED
    BY <1>0, <1>1, <1>4, <2>1 DEF AnswerDisconnect, Received, SendResp, TypeInv, TypeOK,
       channelVars, peerVars, historyVars
<1>5. CASE ReceiverDisconnects \/ EndReceiver
  <2>1. TrackerTypeOK'
    BY <1>0, <1>5, TrackerFinishTyped DEF ReceiverDisconnects, EndReceiver, SignalAndFinish
  <2>2. SocketTypeOK' /\ outcome' \in {outcome, "missed"}
    BY <1>0, <1>5, DisconnectTyped DEF ReceiverDisconnects, EndReceiver, SocketTypeOK, socketVars
  <2>3. UNCHANGED <<requests, threadVars, channelVars, peerVars, historyVars>> /\ asked' = TRUE
    BY <1>5 DEF ReceiverDisconnects, EndReceiver, DisconnectSocket, SignalAndFinish, socketVars
  <2> QED
    BY <1>0, <2>1, <2>2, <2>3 DEF SocketTypeOK, TypeInv, TypeOK, threadVars, channelVars,
       peerVars, historyVars
<1> QED
  BY <1>2, <1>3, <1>4, <1>5 DEF Receiver

LEMMA MainTyped == TypeInv /\ (Main \/ Interrupt) => TypeInv'
<1> SUFFICES ASSUME TypeInv, Main \/ Interrupt
             PROVE  TypeInv'
  OBVIOUS
<1>0. TypeOK /\ TrackerTypeOK
  BY DEF TypeInv, TypeOK
<1>1. CASE Start \/ MainJoins
  <2>1. TrackerTypeOK'
    BY <1>0, <1>1, TrackerMainTyped DEF Start, MainJoins
  <2> QED
    BY <1>0, <1>1, <2>1 DEF Start, MainJoins, MainStep, TypeInv, TypeOK, channelVars,
       socketVars, peerVars, historyVars
<1>2. CASE BeginWait \/ StopWaiting \/ MainCuts \/ MainDisconnects \/ Return \/ Interrupt
  <2>1. TrackerTypeOK'
    BY <1>0, <1>2, TrackerSameTyped DEF BeginWait, StopWaiting, MainCuts, MainDisconnects, Return,
       Interrupt
  <2>2. /\ UNCHANGED <<requests, receiver, input, commands, typed, session>>
        /\ outcome' \in {outcome, "missed"}
    BY <1>2 DEF BeginWait, StopWaiting, MainCuts, MainDisconnects, Return, Interrupt, MainStep,
       DisconnectSocket, threadVars, channelVars, socketVars, peerVars
  <2>3. SocketTypeOK'
    BY <1>0, <1>2, DisconnectTyped DEF BeginWait, StopWaiting, MainCuts, MainDisconnects, Return,
       Interrupt,
       SocketTypeOK, TypeOK, socketVars
  <2>4. /\ UNCHANGED <<notices, delivered, server_left, historyVars>> /\ eof' \in BOOLEAN
        /\ main' \in {main, "waiting", "cutting", "disconnecting", "joining", "returned"}
        /\ commands_cut' \in BOOLEAN /\ notices_cut' \in BOOLEAN /\ asked' \in BOOLEAN
    BY <1>0, <1>2 DEF BeginWait, StopWaiting, MainCuts, MainDisconnects, Return, Interrupt,
       MainStep, TypeOK,
       threadVars, channelVars, peerVars
  <2>5. TypeOK'
    BY <1>0, <2>1, <2>2, <2>3, <2>4 DEF SocketTypeOK, TypeOK, historyVars
  <2> QED
    BY <2>2, <2>5 DEF TypeInv
<1> QED
  BY <1>1, <1>2 DEF Main

LEMMA SocketTyped == TypeInv /\ Socket => TypeInv'
<1> SUFFICES ASSUME TypeInv, Socket
             PROVE  TypeInv'
  OBVIOUS
<1>0. TypeOK /\ TrackerTypeOK /\ MaxNotifs \in Nat
  BY BoundAssumption DEF TypeInv, TypeOK
<1>1. TrackerTypeOK'
  BY <1>0, TrackerSameTyped DEF Socket, Respond, StrayDisconnect, ServerDelivers, ServerLeaves,
     ServerReq, GiveUpCall, GiveUpServer, SocketStep
<1>2. ASSUME NEW req \in Request, requests' = Append(requests, req)
      PROVE  /\ requests' \in Seq(Request)
             /\ receiver = "answering" => requests' # <<>> /\ Head(requests').type = "DELIVER"
  BY <1>0, <1>2, AppendTyped DEF TypeInv, TypeOK
<1>3. CASE Respond
  <2>1. /\ UNCHANGED <<requests, receiver, input, commands, typed, session>>
        /\ outcome' \in {"answered", "ERROR", "wrong"}
        /\ connected' \in BOOLEAN /\ lost' \in BOOLEAN /\ accepted' \in BOOLEAN
    BY <1>0, <1>3 DEF Respond, TypeOK, threadVars, channelVars, peerVars
  <2>2. TypeOK'
    BY <1>0, <1>1, <1>3, <2>1 DEF Respond, TypeOK, threadVars, channelVars, peerVars
  <2> QED
    BY <2>1, <2>2 DEF TypeInv
<1>4. CASE ServerDelivers
  <2>1. delivered + 1 \in Notif /\ delivered' \in 0..MaxNotifs
    BY <1>0, <1>4 DEF ServerDelivers, TypeOK, Notif
  <2> DEFINE req == [type |-> "DELIVER", notif |-> delivered + 1]
  <2>2. req \in Request /\ requests' = Append(requests, req)
    BY <1>4, <2>1, RequestTyped DEF ServerDelivers, ServerReq
  <2>3. /\ requests' \in Seq(Request)
        /\ receiver = "answering" => requests' # <<>> /\ Head(requests').type = "DELIVER"
    BY <1>2, <2>2
  <2> QED
    BY <1>0, <1>1, <1>4, <2>1, <2>3 DEF ServerDelivers, ServerReq, SocketStep, TypeInv, TypeOK,
       threadVars, channelVars, historyVars
<1>5. CASE ServerLeaves
  <2>1. [type |-> "DISCONNECT"] \in Request
        /\ requests' = Append(requests, [type |-> "DISCONNECT"])
    BY <1>5, RequestTyped DEF ServerLeaves, ServerReq
  <2>2. /\ requests' \in Seq(Request)
        /\ receiver = "answering" => requests' # <<>> /\ Head(requests').type = "DELIVER"
    BY <1>2, <2>1
  <2> QED
    BY <1>0, <1>1, <1>5, <2>2 DEF ServerLeaves, ServerReq, SocketStep, TypeInv, TypeOK,
       threadVars, channelVars, historyVars
<1>6. CASE StrayDisconnect \/ GiveUpCall
  <2>1. /\ UNCHANGED <<requests, receiver, input, commands, typed, session>>
        /\ outcome' \in {outcome, "missed"} /\ outcome' # "waiting"
    BY <1>6 DEF StrayDisconnect, GiveUpCall, SocketStep, threadVars, channelVars
  <2>2. connected' \in BOOLEAN /\ lost' \in BOOLEAN
    BY <1>0, <1>6 DEF StrayDisconnect, GiveUpCall, TypeOK
  <2>3. TypeOK'
    BY <1>0, <1>1, <1>6, <2>1, <2>2 DEF StrayDisconnect, GiveUpCall, SocketStep, TypeOK,
       threadVars, channelVars, historyVars
  <2> QED
    BY <2>1, <2>3 DEF TypeInv
<1>7. CASE GiveUpServer
  <2>1. [type |-> "DISCONNECT"] \in Request
        /\ requests' \in {requests, Append(requests, [type |-> "DISCONNECT"])}
    BY <1>7, RequestTyped DEF GiveUpServer
  <2>2. /\ requests' \in Seq(Request)
        /\ receiver = "answering" => requests' # <<>> /\ Head(requests').type = "DELIVER"
    <3>1. CASE requests' = requests
      BY <1>0, <3>1 DEF TypeInv, TypeOK
    <3>2. CASE requests' = Append(requests, [type |-> "DISCONNECT"])
      BY <1>2, <2>1, <3>2
    <3> QED
      BY <2>1, <3>1, <3>2
  <2>3. /\ UNCHANGED <<receiver, input, commands, typed, session>>
        /\ outcome' \in {outcome, "missed"} /\ outcome' # "waiting"
    BY <1>7 DEF GiveUpServer, SocketStep, threadVars, channelVars
  <2>4. /\ UNCHANGED <<main, asked, channelVars, open, disconnecting, goodbye,
                        eof, delivered, server_left, historyVars>>
        /\ connected' = FALSE /\ lost' = TRUE
    BY <1>7 DEF GiveUpServer, SocketStep, threadVars
  <2>5. SocketTypeOK' /\ requests' \in Seq(Request)
    BY <1>0, <2>2, <2>3, <2>4 DEF SocketTypeOK, TypeOK
  <2>6. TypeOK'
    BY <1>0, <1>1, <2>3, <2>4, <2>5 DEF SocketTypeOK, TypeOK, channelVars, historyVars
  <2> QED
    BY <2>2, <2>3, <2>6 DEF TypeInv
<1> QED
  BY <1>3, <1>4, <1>5, <1>6, <1>7 DEF Socket

LEMMA StutterTyped == TypeInv /\ UNCHANGED vars => TypeInv'
<1> SUFFICES ASSUME TypeInv, UNCHANGED vars
             PROVE  TypeInv'
  OBVIOUS
<1>1. TrackerTypeOK'
  BY TrackerSameTyped DEF TypeInv, TypeOK, vars
<1> QED
  BY <1>1 DEF TypeInv, TypeOK, vars, threadVars, channelVars, socketVars, peerVars, historyVars

LEMMA TypeInitially == Init => TypeInv
<1> SUFFICES ASSUME Init
             PROVE  TypeInv
  OBVIOUS
<1>1. TrackerTypeOK
  BY DEF Init, TrackerInit, TrackerTypeOK
<1>2. <<>> \in Seq(Notice) /\ <<>> \in Seq(Request)
  BY EmptySeq
<1>3. 0 \in 0..MaxCommands /\ 0 \in 0..MaxNotifs
  BY BoundAssumption
<1>4. TypeOK
  BY <1>1, <1>2, <1>3 DEF Init, TypeOK
<1> QED
  BY <1>4 DEF Init, TypeInv

LEMMA TypeStep == TypeInv /\ [Next]_vars => TypeInv'
BY InputTyped, OutputTyped, SessionTyped, ReceiverTyped, MainTyped, SocketTyped, StutterTyped
DEF Next

LEMMA AlwaysTyped == Spec => []TypeInv
BY TypeInitially, TypeStep, PTL DEF Spec

(* The threads, the channels between them and the socket are well typed; a *)
(* call only waits on a connection.                                        *)
THEOREM TypeCorrect == Spec => []TypeOK
BY AlwaysTyped, PTL DEF TypeInv

-----------------------------------------------------------------------------
(* Threads and the tracker.  Before join_all the map has exactly the       *)
(* running threads; after it, what is left in it was moved away.           *)

Ended(t) == task[t] = "ended"

ThreadsInv ==
  /\ main = "starting" =>
       ~terminated /\ \A t \in Task : task[t] = "unspawned" /\ threads[t] = "nothing"
  /\ main # "starting" => \A t \in Task : task[t] # "unspawned"
  /\ \A t \in Task : Ended(t) => threads[t] = "nothing"
  /\ closed <=> main \in {"joined", "returned"}
  /\ main \notin {"starting", "joined", "returned"} =>
       \A t \in Task : task[t] = "running" => threads[t] = "thread"
  /\ closed => \A t \in Task : task[t] = "running" => threads[t] = "moved" /\ t \in to_joiner
  /\ main = "returned" => \A t \in Task : Ended(t)

LEMMA ThreadsFinish ==
  ASSUME TypeInv, ThreadsInv, NEW t \in Task, Finish(t), main' = main
  PROVE  ThreadsInv' /\ ~terminated'
<1>1. main \in {"starting", "installing", "waiting", "cutting", "disconnecting", "joining", "joined",
              "returned"}
      /\ task \in [Task -> {"unspawned", "running", "ended"}]
      /\ threads \in [Task -> {"nothing", "thread", "moved"}]
  BY DEF TypeInv, TypeOK, TrackerTypeOK
<1>2. ~(threads[t] = "thread" /\ closed)
  BY DEF ThreadsInv, Finish
<1>3. ~terminated'
  BY <1>2 DEF Finish
<1> QED
  BY <1>1, <1>3 DEF ThreadsInv, Finish, Ended

LEMMA ThreadsSame ==
  ASSUME ThreadsInv, UNCHANGED trackerVars, main' = main
  PROVE  ThreadsInv'
BY DEF ThreadsInv, trackerVars, Ended

LEMMA ThreadsTerminate ==
  ASSUME ThreadsInv, NEW t \in Task, task[t] = "running", Terminate, main' = main
  PROVE  ThreadsInv'
BY DEF ThreadsInv, Terminate, Ended

\* What a step does to the tracker and the main thread.
LEMMA ThreadsOfStep ==
  ASSUME TypeInv, ThreadsInv, Next
  PROVE  /\ ~terminated
         /\ \/ main' = main /\ UNCHANGED trackerVars
            \/ main' = main /\ \E t \in Task : Finish(t)
            \/ main' = main /\ Terminate /\ SendCommand /\ commands_cut
            \/ main' = main /\ Terminate /\ (ConnAnswered \/ CommandAnswered) /\ outcome = "wrong"
            \/ Main /\ main' # main
<1>0. {"input", "output", "session", "receiver"} = Task
  BY TaskAssumption
<1>1. CASE Input
  BY <1>0, <1>1 DEF Input, ReadLine, SendCommand, EndInput, SignalAndFinish, Running, threadVars
<1>2. CASE Output
  BY <1>0, <1>2 DEF Output, PrintNotice, EndOutput, Running, threadVars
<1>3. CASE ConnAnswered \/ CommandAnswered
  <2>1. outcome \in {"answered", "ERROR", "missed", "wrong"}
    BY <1>3 DEF ConnAnswered, CommandAnswered, TypeInv, TypeOK
  <2>2. ~terminated /\ main' = main
    BY <1>3 DEF ConnAnswered, CommandAnswered, Running
  <2>3. UNCHANGED trackerVars \/ (Terminate /\ outcome = "wrong")
    BY <1>3, <2>1 DEF ConnAnswered, CommandAnswered, TryNotice
  <2> QED
    BY <1>3, <2>2, <2>3
<1>4. CASE SendConn \/ TakeCommand \/ EndCommands \/ SayGoodbye \/ GoodbyeAnswered
  BY <1>4 DEF SendConn, TakeCommand, EndCommands, SayGoodbye, GoodbyeAnswered, Running
<1>5. CASE SessionDisconnects \/ SessionCuts \/ EndSession
  BY <1>0, <1>5 DEF SessionDisconnects, SessionCuts, EndSession, Running, threadVars
<1>6. CASE Receiver
  BY <1>0, <1>6 DEF Receiver, Show, AnswerDeliver, AnswerDisconnect, ReceiverDisconnects,
     EndReceiver, Received, SignalAndFinish, Running, threadVars
<1>7. CASE Main
  BY <1>7 DEF Main, Start, BeginWait, StopWaiting, MainCuts, MainDisconnects, MainJoins, Return,
     MainStep,
     ThreadsInv
<1>8. CASE Interrupt
  BY <1>8 DEF Interrupt, threadVars
<1>9. CASE Socket
  BY <1>9 DEF Socket, Respond, StrayDisconnect, ServerDelivers, ServerLeaves, ServerReq,
     GiveUpCall, GiveUpServer, SocketStep, threadVars
<1> QED
  BY <1>1, <1>2, <1>3, <1>4, <1>5, <1>6, <1>7, <1>8, <1>9 DEF Next, Session

LEMMA ThreadsOfMain ==
  ASSUME TypeInv, ThreadsInv, Main
  PROVE  ThreadsInv' /\ terminated' = terminated
<1>0. task \in [Task -> {"unspawned", "running", "ended"}]
      /\ threads \in [Task -> {"nothing", "thread", "moved"}]
  BY DEF TypeInv, TypeOK, TrackerTypeOK
<1>1. CASE Start
  BY <1>0, <1>1 DEF Start, Spawn, ThreadsInv, Ended
<1>2. CASE BeginWait \/ StopWaiting \/ MainCuts \/ MainDisconnects
  BY <1>0, <1>2 DEF BeginWait, StopWaiting, MainCuts, MainDisconnects, MainStep, trackerVars,
     ThreadsInv,
     Ended
<1>3. CASE MainJoins
  BY <1>0, <1>3 DEF MainJoins, MainStep, JoinAll, ThreadsInv, Ended
<1>4. CASE Return
  <2>1. \A t \in Task : Ended(t)
    BY <1>0, <1>4 DEF Return, AllJoined, MainStep, ThreadsInv, Ended
  <2> QED
    BY <1>4, <2>1 DEF Return, MainStep, trackerVars, ThreadsInv, Ended
<1> QED
  BY <1>1, <1>2, <1>3, <1>4 DEF Main

LEMMA ThreadsStep == TypeInv /\ ThreadsInv /\ [Next]_vars => ThreadsInv'
<1> SUFFICES ASSUME TypeInv, ThreadsInv, [Next]_vars
             PROVE  ThreadsInv'
  OBVIOUS
<1>1. CASE UNCHANGED vars
  BY <1>1, ThreadsSame DEF vars, threadVars
<1>2. CASE Main
  BY <1>2, ThreadsOfMain
<1>3. CASE Terminate /\ main' = main /\ (SendCommand \/ ConnAnswered \/ CommandAnswered)
  <2>1. \E t \in Task : task[t] = "running"
    BY <1>3, TaskAssumption DEF SendCommand, ConnAnswered, CommandAnswered, Running
  <2> QED
    BY <1>3, <2>1, ThreadsTerminate
<1> QED
  BY <1>1, <1>2, <1>3, ThreadsOfStep, ThreadsFinish, ThreadsSame

LEMMA ThreadsInitially == Init => ThreadsInv
BY DEF Init, TrackerInit, ThreadsInv, Ended

LEMMA AlwaysThreads == Spec => [](TypeInv /\ ThreadsInv)
<1>1. Init => ThreadsInv
  BY ThreadsInitially
<1> QED
  BY <1>1, AlwaysTyped, ThreadsStep, PTL DEF Spec

LEMMA TerminatedStep == TypeInv /\ ThreadsInv /\ TerminatedCause /\ [Next]_vars => TerminatedCause'
<1> SUFFICES ASSUME TypeInv, ThreadsInv, TerminatedCause, [Next]_vars
             PROVE  TerminatedCause'
  OBVIOUS
<1>1. CASE UNCHANGED vars
  BY <1>1 DEF TerminatedCause, vars, trackerVars, threadVars, channelVars, socketVars
<1>2. CASE Next
  <2>1. ~terminated
    BY <1>2, ThreadsOfStep
  <2>2. CASE UNCHANGED trackerVars
    BY <2>1, <2>2 DEF TerminatedCause, trackerVars
  <2>3. CASE Main
    BY <2>1, <2>3, ThreadsOfMain DEF TerminatedCause
  <2>4. CASE main' = main /\ \E t \in Task : Finish(t)
    BY <2>4, ThreadsFinish DEF TerminatedCause
  <2>5. CASE SendCommand /\ commands_cut
    BY <2>5 DEF SendCommand, TerminatedCause
  <2>6. CASE (ConnAnswered \/ CommandAnswered) /\ outcome = "wrong"
    BY <2>6 DEF ConnAnswered, CommandAnswered, TerminatedCause
  <2> QED
    BY <1>2, <2>2, <2>3, <2>4, <2>5, <2>6, ThreadsOfStep
<1> QED
  BY <1>1, <1>2

(* An exception ends the client in two places only: a command sent on a    *)
(* channel that was cut since the loop looked, and a response to another   *)
(* request.  The tracker never ends it, whenever the threads end.          *)
THEOREM TerminatedCauseCorrect == Spec => []TerminatedCause
<1>1. Init => TerminatedCause
  BY DEF Init, TrackerInit, TerminatedCause
<1> QED
  BY <1>1, AlwaysThreads, TerminatedStep, PTL DEF Spec

-----------------------------------------------------------------------------
(* The goodbye.  A session that was accepted keeps its connection until it *)
(* is lost or a DISCONNECT was sent on it, and the session thread, the     *)
(* only one that can have a session accepted, does not end with one.       *)

GoodbyeInv ==
  /\ disconnecting => goodbye
  /\ accepted => goodbye \/ lost \/ connected
  /\ session = "parting" /\ outcome = "waiting" => goodbye
  /\ Ended("session") => session = "unwinding"
  /\ Ended("session") /\ accepted => goodbye \/ lost

LEMMA GoodbyeDisconnect ==
  ASSUME GoodbyeInv, DisconnectSocket, UNCHANGED <<session, accepted>>,
         Ended("session")' => session = "unwinding"
  PROVE  GoodbyeInv'
BY DEF GoodbyeInv, DisconnectSocket

LEMMA GoodbyeSame ==
  ASSUME GoodbyeInv, UNCHANGED <<session, accepted, connected, disconnecting, outcome, goodbye, lost>>,
         Ended("session")' => Ended("session")
  PROVE  GoodbyeInv'
BY DEF GoodbyeInv

LEMMA GoodbyeSendReq ==
  ASSUME NEW type, SendReq(type), disconnecting => goodbye
  PROVE  /\ disconnecting' => goodbye'
         /\ goodbye => goodbye'
         /\ connected => connected'
         /\ type = "DISCONNECT" /\ outcome' = "waiting" => goodbye'
<1>1. /\ disconnecting' => connected /\ (disconnecting \/ type = "DISCONNECT")
      /\ goodbye \/ (connected /\ type = "DISCONNECT") => goodbye'
      /\ connected => connected'
  BY DEF SendReq
<1>2. type = "DISCONNECT" /\ outcome' = "waiting" => connected
  BY DEF SendReq
<1> QED
  BY <1>1, <1>2

\* The other threads leave the session thread alone.
LEMMA SessionKept ==
  ASSUME TypeInv, Input \/ Output \/ Receiver
  PROVE  session' = session /\ (Ended("session")' => Ended("session"))
<1>0. /\ "session" \in Task /\ "session" \notin {"input", "output", "receiver"}
      /\ DOMAIN task = Task
  BY TaskAssumption DEF TypeInv, TypeOK, TrackerTypeOK
<1>1. \A t \in {"input", "output", "receiver"} : Finish(t) => task'["session"] = task["session"]
  BY <1>0 DEF Finish
<1> QED
  BY <1>1 DEF Input, ReadLine, SendCommand, EndInput, Output, PrintNotice, EndOutput,
     Receiver, Show, AnswerDeliver, AnswerDisconnect, ReceiverDisconnects, EndReceiver,
     SignalAndFinish, Terminate, trackerVars, threadVars, Ended

LEMMA GoodbyeStep == TypeInv /\ ThreadsInv /\ GoodbyeInv /\ [Next]_vars => GoodbyeInv'
<1> SUFFICES ASSUME TypeInv, ThreadsInv, GoodbyeInv, [Next]_vars
             PROVE  GoodbyeInv'
  OBVIOUS
<1>0. /\ outcome \in {"none", "waiting", "answered", "ERROR", "wrong", "missed"}
      /\ outcome = "waiting" => connected
      /\ connected \in BOOLEAN /\ disconnecting \in BOOLEAN
  BY DEF TypeInv, TypeOK
<1>1. CASE Input \/ Output
  BY <1>1, GoodbyeSame, SessionKept DEF Input, ReadLine, SendCommand, EndInput, Output,
     PrintNotice, EndOutput, socketVars, historyVars
<1>2. CASE SendConn \/ TakeCommand
  <2>1. ~Ended("session")
    BY <1>2 DEF SendConn, TakeCommand, Running, Ended
  <2>2. ~Ended("session")'
    BY <1>2, <2>1 DEF SendConn, TakeCommand, trackerVars, Ended
  <2>3. /\ disconnecting' => goodbye'
        /\ goodbye => goodbye'
        /\ connected => connected'
    BY <1>2, GoodbyeSendReq DEF SendConn, TakeCommand, GoodbyeInv
  <2>4. lost' = lost /\ accepted' = accepted /\ session' # "parting"
    BY <1>2 DEF SendConn, TakeCommand, SendReq, historyVars
  <2> QED
    BY <2>2, <2>3, <2>4 DEF GoodbyeInv
<1>3. CASE SayGoodbye
  <2>1. ~Ended("session")'
    BY <1>3 DEF SayGoodbye, Running, trackerVars, Ended
  <2>2. /\ disconnecting' => goodbye'
        /\ goodbye => goodbye'
        /\ connected => connected'
        /\ outcome' = "waiting" => goodbye'
    BY <1>3, GoodbyeSendReq DEF SayGoodbye, GoodbyeInv
  <2>3. lost' = lost /\ accepted' = accepted
    BY <1>3 DEF SayGoodbye, SendReq, historyVars
  <2> QED
    BY <2>1, <2>2, <2>3 DEF GoodbyeInv
<1>4. CASE ConnAnswered \/ CommandAnswered
  <2>1. outcome \in {"answered", "ERROR", "missed", "wrong"}
    BY <1>4 DEF ConnAnswered, CommandAnswered, TypeInv, TypeOK
  <2>2. ~Ended("session")'
    BY <1>4, <2>1 DEF ConnAnswered, CommandAnswered, Running, TryNotice, Terminate, trackerVars,
       Ended
  <2>3. outcome' # "waiting"
    BY <1>4, <2>1 DEF ConnAnswered, CommandAnswered
  <2>4. UNCHANGED <<connected, disconnecting, goodbye, lost, accepted>>
    BY <1>4 DEF ConnAnswered, CommandAnswered, historyVars
  <2> QED
    BY <2>2, <2>3, <2>4 DEF GoodbyeInv
<1>5. CASE EndCommands \/ GoodbyeAnswered \/ SessionCuts
  <2>1. ~Ended("session")'
    BY <1>5 DEF EndCommands, GoodbyeAnswered, SessionCuts, Running, trackerVars, Ended
  <2> QED
    BY <1>5, <2>1 DEF EndCommands, GoodbyeAnswered, SessionCuts, GoodbyeInv, socketVars, historyVars
<1>6. CASE SessionDisconnects
  <2>1. ~Ended("session")'
    BY <1>6 DEF SessionDisconnects, Running, trackerVars, Ended
  <2> QED
    BY <1>6, <2>1 DEF SessionDisconnects, DisconnectSocket, GoodbyeInv, historyVars
<1>7. CASE EndSession
  BY <1>7, GoodbyeDisconnect DEF EndSession, threadVars, historyVars
<1>8. CASE Show \/ EndReceiver
  BY <1>8, GoodbyeSame, SessionKept DEF Receiver, Show, EndReceiver, socketVars, historyVars
<1>9. CASE AnswerDeliver \/ AnswerDisconnect
  <2>1. Ended("session")' => Ended("session")
    BY <1>9 DEF AnswerDeliver, AnswerDisconnect, trackerVars, Ended
  <2>2. connected' /\ (disconnecting' => disconnecting)
    BY <1>9 DEF AnswerDeliver, AnswerDisconnect, SendResp
  <2>3. UNCHANGED <<session, outcome, goodbye, lost, accepted>>
    BY <1>9 DEF AnswerDeliver, AnswerDisconnect, SendResp, historyVars
  <2> QED
    BY <2>1, <2>2, <2>3 DEF GoodbyeInv
<1>10. CASE ReceiverDisconnects
  <2>1. Ended("session")' => Ended("session")
    BY <1>10, SessionKept DEF Receiver
  <2> QED
    BY <1>10, <2>1, GoodbyeDisconnect DEF ReceiverDisconnects, threadVars, historyVars, GoodbyeInv
<1>11. CASE Main \/ Interrupt
  <2>1. Ended("session")' => Ended("session")
    BY <1>11, TaskAssumption DEF Main, Start, BeginWait, StopWaiting, MainCuts, MainDisconnects,
       MainJoins,
       Return, Spawn, JoinAll, Interrupt, trackerVars, Ended
  <2>2. CASE MainDisconnects
    BY <2>1, <2>2, GoodbyeDisconnect DEF MainDisconnects, MainStep, GoodbyeInv, historyVars
  <2>3. CASE ~MainDisconnects
    BY <1>11, <2>1, <2>3, GoodbyeSame DEF Main, Start, BeginWait, StopWaiting, MainCuts,
       MainJoins, Return,
       MainStep, Interrupt, threadVars, socketVars, historyVars
  <2> QED
    BY <2>2, <2>3
<1>12. CASE Socket
  <2>1. Ended("session")' => Ended("session")
    BY <1>12 DEF Socket, Respond, StrayDisconnect, ServerDelivers, ServerLeaves, ServerReq,
       GiveUpCall, GiveUpServer, SocketStep, trackerVars, Ended
  <2>2. CASE Respond
    <3>1. /\ connected /\ outcome' # "waiting"
          /\ UNCHANGED <<session, disconnecting, goodbye>>
      BY <1>0, <2>2 DEF Respond, threadVars
    <3>2. /\ lost => lost'
          /\ accepted' => accepted \/ session = "connecting"
          /\ connected' \/ lost' \/ session = "parting"
      <4>1. CASE outcome' = "answered"
        <5>1. /\ connected' = (session # "parting")
              /\ accepted' = (accepted \/ session = "connecting")
              /\ lost' = lost
          BY <2>2, <4>1 DEF Respond
        <5> QED
          BY <5>1
      <4>2. CASE outcome' = "ERROR"
        <5>1. UNCHANGED <<connected, accepted, lost>>
          BY <2>2, <4>2 DEF Respond
        <5> QED
          BY <3>1, <5>1
      <4>3. CASE outcome' = "wrong"
        <5>1. lost' = TRUE /\ accepted' = accepted
          BY <2>2, <4>3 DEF Respond
        <5> QED
          BY <5>1
      <4> QED
        BY <2>2, <4>1, <4>2, <4>3 DEF Respond
    <3>3. session = "parting" => goodbye
      BY <2>2 DEF Respond, GoodbyeInv
    <3>4. Ended("session")' /\ accepted' => accepted
      BY <2>1, <3>2 DEF GoodbyeInv
    <3> QED
      BY <2>1, <3>1, <3>2, <3>3, <3>4 DEF GoodbyeInv
  <2>3. CASE ServerDelivers \/ ServerLeaves
    BY <2>1, <2>3 DEF ServerDelivers, ServerLeaves, ServerReq, SocketStep, GoodbyeInv, threadVars,
       historyVars
  <2>4. CASE StrayDisconnect \/ GiveUpCall \/ GiveUpServer
    BY <2>1, <2>4 DEF StrayDisconnect, GiveUpCall, GiveUpServer, SocketStep, GoodbyeInv, threadVars,
       historyVars
  <2> QED
    BY <1>12, <2>2, <2>3, <2>4 DEF Socket
<1>13. CASE UNCHANGED vars
  BY <1>13, GoodbyeSame DEF vars, trackerVars, threadVars, socketVars, historyVars, Ended
<1> QED
  BY <1>1, <1>2, <1>3, <1>4, <1>5, <1>6, <1>7, <1>8, <1>9, <1>10, <1>11, <1>12, <1>13
  DEF Next, Session, Receiver

(* Whichever thread stops first, a session that the server accepted is     *)
(* ended by a DISCONNECT to it before main returns, unless the connection  *)
(* was lost or ended by the server.                                        *)
THEOREM GoodbyeSentCorrect == Spec => []GoodbyeSent
<1>1. Init => GoodbyeInv
  BY TaskAssumption DEF Init, TrackerInit, GoodbyeInv, Ended
<1>2. ThreadsInv /\ GoodbyeInv => GoodbyeSent
  BY TaskAssumption DEF ThreadsInv, GoodbyeInv, GoodbyeSent
<1> QED
  BY <1>1, <1>2, AlwaysThreads, GoodbyeStep, PTL DEF Spec

-----------------------------------------------------------------------------
(* Notices.  What was answered has been printed or waits for the output    *)
(* thread, which ends when the channel is cut and empty, and nothing is    *)
(* sent on a channel that is cut.                                          *)

\* The notifications that were printed or wait for it.
Queued == {n \in Notif : \E i \in DOMAIN notices : notices[i] = n}
Passed == shown \cup Queued

AckInv ==
  /\ acked \subseteq Passed
  /\ receiver = "answering" => Head(requests).notif \in Passed
  /\ Ended("output") => notices = <<>> /\ notices_cut

LEMMA QueuedAppend ==
  ASSUME NEW n, notices \in Seq(Notice), n \in Notice, notices' = Append(notices, n)
  PROVE  Queued' = Queued \cup ({n} \cap Notif)
<1>1. /\ DOMAIN notices = 1..Len(notices) /\ DOMAIN notices' = 1..(Len(notices) + 1)
      /\ Len(notices) \in Nat
      /\ \A i \in 1..Len(notices) : notices'[i] = notices[i]
      /\ notices'[Len(notices) + 1] = n
  OBVIOUS
<1> QED
  BY <1>1 DEF Queued, Notif

LEMMA QueuedTail ==
  ASSUME notices \in Seq(Notice), notices # <<>>, notices' = Tail(notices)
  PROVE  Queued \subseteq Queued' \cup ({Head(notices)} \cap Notif)
<1>1. /\ DOMAIN notices = 1..Len(notices) /\ DOMAIN notices' = 1..(Len(notices) - 1)
      /\ Len(notices) \in Nat \ {0}
      /\ \A i \in 1..(Len(notices) - 1) : notices'[i] = notices[i + 1]
      /\ Head(notices) = notices[1]
  BY HeadTailProperties, EmptySeq
<1>2. \A i \in 1..Len(notices) : i # 1 => notices[i] = notices'[i - 1] /\ i - 1 \in DOMAIN notices'
  BY <1>1
<1>3. ASSUME NEW i \in DOMAIN notices, notices[i] \in Notif
      PROVE  notices[i] \in Queued' \cup ({Head(notices)} \cap Notif)
  <2>1. CASE i = 1
    BY <1>1, <1>3, <2>1
  <2>2. CASE i # 1
    BY <1>1, <1>2, <1>3, <2>2 DEF Queued, Notif
  <2> QED
    BY <2>1, <2>2
<1> QED
  BY <1>3 DEF Queued

\* What was passed stays so, and nothing is sent on a channel that was cut.
NoticesKept ==
  /\ Passed \subseteq Passed'
  /\ notices_cut => notices_cut'
  /\ notices = <<>> /\ notices_cut => notices' = <<>>

LEMMA NoticesStep == TypeInv /\ [Next]_vars => NoticesKept
<1> SUFFICES ASSUME TypeInv, [Next]_vars
             PROVE  NoticesKept
  OBVIOUS
<1>0. notices \in Seq(Notice) /\ ErrorNotice \in Notice
  BY DEF TypeInv, TypeOK, Notice
<1>1. ASSUME NEW n \in Notice, notices' = Append(notices, n), ~notices_cut, shown' = shown
      PROVE  NoticesKept
  BY <1>0, <1>1, QueuedAppend DEF NoticesKept, Passed
<1>2. ASSUME UNCHANGED <<notices, shown>>, notices_cut => notices_cut'
      PROVE  NoticesKept
  BY <1>2 DEF NoticesKept, Passed, Queued, Notif
<1>3. CASE PrintNotice
  <2>1. Queued \subseteq Queued' \cup ({Head(notices)} \cap Notif)
    BY <1>0, <1>3, QueuedTail DEF PrintNotice
  <2>2. /\ shown' = shown \cup ({Head(notices)} \ {ErrorNotice})
        /\ notices # <<>> /\ notices_cut' = notices_cut
        /\ ErrorNotice \notin Notif
    BY <1>3 DEF PrintNotice, ErrorNotice, Notif
  <2> QED
    BY <2>1, <2>2 DEF NoticesKept, Passed
<1>4. CASE Show
  <2>1. CASE notices_cut
    BY <1>2, <1>4, <2>1 DEF Show, historyVars
  <2>2. CASE ~notices_cut
    <3>1. Head(requests) \in Request
      BY <1>4, HeadTailTyped DEF Show, Received, TypeInv, TypeOK
    <3>2. Head(requests).notif \in Notice
      BY <1>4, <3>1, RequestTyped DEF Show, Received, Notice
    <3> QED
      BY <1>1, <1>4, <2>2, <3>2 DEF Show, historyVars
  <2> QED
    BY <2>1, <2>2
<1>5. CASE ConnAnswered \/ CommandAnswered
  <2>1. outcome \in {"answered", "ERROR", "missed", "wrong"}
    BY <1>5 DEF ConnAnswered, CommandAnswered, TypeInv, TypeOK
  <2>2. /\ notices' = notices \/ (notices' = Append(notices, ErrorNotice) /\ ~notices_cut)
        /\ UNCHANGED <<shown, notices_cut>>
    BY <1>5, <2>1 DEF ConnAnswered, CommandAnswered, TryNotice, historyVars
  <2> QED
    BY <1>0, <1>1, <1>2, <2>2
<1>6. CASE MainCuts \/ SessionCuts
  BY <1>2, <1>6 DEF MainCuts, SessionCuts, MainStep, historyVars
<1>7. CASE Input \/ EndOutput
  BY <1>2, <1>7 DEF Input, ReadLine, SendCommand, EndInput, EndOutput, channelVars, historyVars
<1>8. CASE SendConn \/ TakeCommand \/ EndCommands \/ SayGoodbye \/ GoodbyeAnswered
             \/ SessionDisconnects \/ EndSession
  BY <1>2, <1>8 DEF SendConn, TakeCommand, EndCommands, SayGoodbye, GoodbyeAnswered,
     SessionDisconnects, EndSession, channelVars, historyVars
<1>9. CASE AnswerDeliver \/ AnswerDisconnect \/ ReceiverDisconnects \/ EndReceiver
  BY <1>2, <1>9 DEF AnswerDeliver, AnswerDisconnect, ReceiverDisconnects, EndReceiver,
     channelVars, historyVars
<1>10. CASE Start \/ BeginWait \/ StopWaiting \/ MainDisconnects \/ MainJoins \/ Return \/ Interrupt
  BY <1>2, <1>10 DEF Start, BeginWait, StopWaiting, MainDisconnects, MainJoins, Return, Interrupt,
     MainStep,
     channelVars, historyVars
<1>11. CASE Socket
  BY <1>2, <1>11 DEF Socket, Respond, StrayDisconnect, ServerDelivers, ServerLeaves, ServerReq,
     GiveUpCall, GiveUpServer, SocketStep, channelVars, historyVars
<1>12. CASE UNCHANGED vars
  BY <1>2, <1>12 DEF vars, channelVars, historyVars
<1> QED
  BY <1>3, <1>4, <1>5, <1>6, <1>7, <1>8, <1>9, <1>10, <1>11, <1>12
  DEF Next, Output, Session, Receiver, Main

\* The request that is being answered stays at the head of the channel.
LEMMA HeadKept ==
  ASSUME TypeInv, [Next]_vars, ~Show, ~AnswerDeliver
  PROVE  /\ receiver' = "answering" =>
              receiver = "answering" /\ Head(requests') = Head(requests)
         /\ acked' = acked
<1>1. ASSUME NEW req \in Request, requests' = Append(requests, req), receiver = "answering"
      PROVE  Head(requests') = Head(requests)
  BY <1>1, AppendTyped DEF TypeInv, TypeOK
<1>2. CASE Receiver
  BY <1>2 DEF Receiver, AnswerDisconnect, ReceiverDisconnects, EndReceiver, Received,
     SendResp, DisconnectSocket, threadVars, historyVars
<1>3. CASE ServerDelivers
  <2>1. delivered + 1 \in Notif
    BY <1>3, BoundAssumption DEF ServerDelivers, TypeInv, TypeOK, Notif
  <2>2. [type |-> "DELIVER", notif |-> delivered + 1] \in Request
    BY <2>1, RequestTyped
  <2> QED
    BY <1>1, <1>3, <2>2 DEF ServerDelivers, ServerReq, SocketStep, threadVars, historyVars
<1>4. CASE ServerLeaves \/ GiveUpServer
  <2>1. [type |-> "DISCONNECT"] \in Request
    BY RequestTyped
  <2>2. \/ requests' = requests
        \/ requests' = Append(requests, [type |-> "DISCONNECT"])
    BY <1>4 DEF ServerLeaves, ServerReq, GiveUpServer
  <2> QED
    BY <1>1, <1>4, <2>1, <2>2 DEF ServerLeaves, ServerReq, GiveUpServer, SocketStep, threadVars,
       historyVars
<1>5. CASE Respond \/ StrayDisconnect \/ GiveUpCall
  BY <1>5 DEF Respond, StrayDisconnect, GiveUpCall, SocketStep, threadVars, historyVars
<1>6. CASE Input \/ Output
  BY <1>6 DEF Input, ReadLine, SendCommand, EndInput, Output, PrintNotice, EndOutput, threadVars,
     socketVars, historyVars
<1>7. CASE ConnAnswered \/ CommandAnswered
  BY <1>7 DEF ConnAnswered, CommandAnswered, historyVars
<1>8. CASE SendConn \/ TakeCommand \/ EndCommands \/ SayGoodbye \/ GoodbyeAnswered
             \/ SessionDisconnects \/ SessionCuts \/ EndSession
  BY <1>8 DEF SendConn, TakeCommand, EndCommands, SayGoodbye, GoodbyeAnswered, SessionDisconnects,
     SessionCuts, EndSession, SendReq, DisconnectSocket, threadVars, socketVars, historyVars
<1>9. CASE Main \/ Interrupt
  BY <1>9 DEF Main, Start, BeginWait, StopWaiting, MainCuts, MainDisconnects, MainJoins, Return,
     MainStep,
     Interrupt, DisconnectSocket, threadVars, socketVars, historyVars
<1>10. CASE UNCHANGED vars
  BY <1>10 DEF vars, threadVars, socketVars, historyVars
<1> QED
  BY <1>2, <1>3, <1>4, <1>5, <1>6, <1>7, <1>8, <1>9, <1>10 DEF Next, Session, Socket

\* Only its last step ends the output thread.
LEMMA OutputKept ==
  ASSUME TypeInv, ThreadsInv, [Next]_vars, ~EndOutput
  PROVE  Ended("output")' => Ended("output")
<1>0. /\ "output" \in Task /\ "output" \notin {"input", "session", "receiver"}
      /\ DOMAIN task = Task
  BY TaskAssumption DEF TypeInv, TypeOK, TrackerTypeOK
<1>1. \A t \in {"input", "session", "receiver"} : Finish(t) => task'["output"] = task["output"]
  BY <1>0 DEF Finish
<1>2. CASE Input \/ PrintNotice \/ Receiver
  BY <1>1, <1>2 DEF Input, ReadLine, SendCommand, EndInput, PrintNotice, Receiver, Show,
     AnswerDeliver, AnswerDisconnect, ReceiverDisconnects, EndReceiver, SignalAndFinish, Terminate,
     trackerVars, Ended
<1>3. CASE ConnAnswered \/ CommandAnswered
  <2>1. outcome \in {"answered", "ERROR", "missed", "wrong"}
    BY <1>3 DEF ConnAnswered, CommandAnswered, TypeInv, TypeOK
  <2> QED
    BY <1>3, <2>1 DEF ConnAnswered, CommandAnswered, TryNotice, Terminate, trackerVars, Ended
<1>4. CASE SendConn \/ TakeCommand \/ EndCommands \/ SayGoodbye \/ GoodbyeAnswered
             \/ SessionDisconnects \/ SessionCuts \/ EndSession
  BY <1>1, <1>4 DEF SendConn, TakeCommand, EndCommands, SayGoodbye, GoodbyeAnswered,
     SessionDisconnects, SessionCuts, EndSession, trackerVars, Ended
<1>5. CASE Main \/ Interrupt
  BY <1>0, <1>5 DEF Main, Start, BeginWait, StopWaiting, MainCuts, MainDisconnects, MainJoins,
     Return, Spawn,
     JoinAll, Interrupt, trackerVars, Ended
<1>6. CASE Socket \/ UNCHANGED vars
  BY <1>6 DEF Socket, Respond, StrayDisconnect, ServerDelivers, ServerLeaves, ServerReq,
     GiveUpCall, GiveUpServer, SocketStep, vars, trackerVars, Ended
<1> QED
  BY <1>2, <1>3, <1>4, <1>5, <1>6 DEF Next, Output, Session

LEMMA AckStep == TypeInv /\ ThreadsInv /\ AckInv /\ [Next]_vars => AckInv'
<1> SUFFICES ASSUME TypeInv, ThreadsInv, AckInv, [Next]_vars
             PROVE  AckInv'
  OBVIOUS
<1>0. NoticesKept
  BY NoticesStep
<1>1. Ended("output")' => notices' = <<>> /\ notices_cut'
  <2>1. CASE EndOutput
    BY <2>1 DEF EndOutput, channelVars
  <2>2. CASE ~EndOutput
    BY <1>0, <2>2, OutputKept DEF AckInv, NoticesKept
  <2> QED
    BY <2>1, <2>2
<1>2. CASE Show
  <2>1. acked' = acked
    BY <1>2 DEF Show, historyVars
  <2>2. CASE notices_cut
    <3>1. receiver' # "answering"
      BY <1>2, <2>2 DEF Show, Received
    <3> QED
      BY <1>0, <1>1, <2>1, <3>1 DEF AckInv, NoticesKept
  <2>3. CASE ~notices_cut
    <3>1. Head(requests) \in Request
      BY <1>2, HeadTailTyped DEF Show, Received, TypeInv, TypeOK
    <3>2. Head(requests).notif \in Notif
      BY <1>2, <3>1, RequestTyped DEF Show, Received
    <3>3. Queued' = Queued \cup ({Head(requests).notif} \cap Notif)
      BY <1>2, <2>3, <3>2, QueuedAppend DEF Show, TypeInv, TypeOK, Notice
    <3>4. Head(requests)' = Head(requests)
      BY <1>2, <2>3 DEF Show
    <3>5. Head(requests)'.notif \in Passed'
      BY <3>2, <3>3, <3>4 DEF Passed
    <3> QED
      BY <1>0, <1>1, <2>1, <3>5 DEF AckInv, NoticesKept
  <2> QED
    BY <2>2, <2>3
<1>3. CASE AnswerDeliver
  <2>1. acked' = acked \cup {Head(requests).notif} /\ receiver' # "answering"
        /\ receiver = "answering"
    BY <1>3 DEF AnswerDeliver
  <2> QED
    BY <1>0, <1>1, <2>1 DEF AckInv, NoticesKept
<1>4. CASE ~Show /\ ~AnswerDeliver
  BY <1>0, <1>1, <1>4, HeadKept DEF AckInv, NoticesKept
<1> QED
  BY <1>2, <1>3, <1>4

(* What was acknowledged to the server has been printed when main returns, *)
(* however the channels are cut and whichever thread ends first.           *)
THEOREM AckedIsShownCorrect == Spec => []AckedIsShown
<1>1. Init => AckInv
  BY TaskAssumption DEF Init, TrackerInit, AckInv, Ended
<1>2. ThreadsInv /\ AckInv => AckedIsShown
  <2> SUFFICES ASSUME ThreadsInv, AckInv, main = "returned"
               PROVE  acked \subseteq shown
    BY DEF AckedIsShown
  <2>1. notices = <<>>
    BY TaskAssumption DEF ThreadsInv, AckInv
  <2>2. Queued = {}
    BY <2>1 DEF Queued
  <2> QED
    BY <2>2 DEF AckInv, Passed
<1> QED
  BY <1>1, <1>2, AlwaysThreads, AckStep, PTL DEF Spec
=============================================================================
