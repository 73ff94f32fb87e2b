------------------------ MODULE ServerProcess_proofs ------------------------
(***************************************************************************)
(* Proofs about ServerProcess, for any users, addresses, scripts and       *)
(* bounds: what its threads do to the table is what ServerProfileTable     *)
(* allows, so that module's theorems hold of the whole server; and the     *)
(* tracker joins each thread once, in whatever order the threads end; its  *)
(* notifications keep their order, and its datagrams can be read.          *)
(***************************************************************************)
EXTENDS MessageText, ServerProfileTable_proofs, SequenceTheorems

-----------------------------------------------------------------------------
(* What is in the channels of requests.                                    *)

RequestsInv ==
  /\ requests \in Seq(ReceivedReq)
  /\ comm_to_prof \in Seq(ReceivedReq)
  /\ prof \in {"receiving", "answering"}
  /\ prof = "answering" => comm_to_prof # <<>>
  /\ sent \in [Address -> Nat]

LEMMA HeadReq ==
  ASSUME NEW q \in Seq(ReceivedReq), q # <<>>
  PROVE  /\ Head(q) \in ReceivedReq /\ Head(q).client \in Address
         /\ Head(q).body \in RequestBody
         /\ Tail(q) \in Seq(ReceivedReq)
<1>1. Head(q) \in ReceivedReq /\ Tail(q) \in Seq(ReceivedReq)
  OBVIOUS
<1>2. \A r \in ReceivedReq : r.client \in Address /\ r.body \in RequestBody
  BY DEF ReceivedReq
<1> QED
  BY <1>1, <1>2

LEMMA RequestsInit == ServerInit => RequestsInv
BY DEF ServerInit, RequestsInv

LEMMA RequestsStep == RequestsInv /\ [ServerNext]_serverVars => RequestsInv'
<1> SUFFICES ASSUME RequestsInv, [ServerNext]_serverVars
             PROVE  RequestsInv'
  OBVIOUS
<1> USE DEF RequestsInv
<1>1. CASE CommNotif
  BY <1>1 DEF CommNotif, SendDeliver, EndCommNotif, CommNotifStep, DisconnectSocket, socketVars
<1>2. CASE PassOn
  <2>1. requests' = Tail(requests) /\ comm_to_prof' = Append(comm_to_prof, Head(requests))
        /\ UNCHANGED <<prof, sent>> /\ requests # <<>>
    BY <1>2 DEF PassOn, CommReqStep, clientVars
  <2> QED
    BY <2>1, HeadReq
<1>3. CASE EndCommReq
  BY <1>3 DEF EndCommReq, CommReqStep, DisconnectSocket, clientVars
<1>4. CASE ServeReq
  BY <1>4 DEF ServeReq, ProfStep, socketVars
<1>5. CASE Answer \/ InterruptedServe
  <2>1. comm_to_prof' = Tail(comm_to_prof) /\ comm_to_prof # <<>> /\ prof' = "receiving"
        /\ UNCHANGED <<requests, sent>>
    BY <1>5 DEF Answer, InterruptedServe, ProfStep, SendResp, socketVars
  <2> QED
    BY <2>1, HeadReq
<1>6. CASE EndProf
  BY <1>6 DEF EndProf, ProfStep, socketVars
<1>7. CASE EndPersister \/ Notif
  BY <1>7 DEF EndPersister, Notif, NotifStep, ReceiveWakeup, Consume, PassDelivery, EndNotif,
     processVars, commVars, socketVars, clientVars
<1>8. CASE Main
  BY <1>8 DEF Main, MainGoesOn, Start, StopWaiting, MainCuts, MainCutsNotif, MainDisconnects,
     MainJoins,
     Return, MainStep, DisconnectSocket, commVars, socketVars, clientVars
<1>9. CASE Interrupt \/ CallEnds \/ \E a \in Address : LateRequest(a) \/ StrayDisconnect(a)
  BY <1>9 DEF Interrupt, CallEnds, LateRequest, StrayDisconnect, EnvironmentStep, socketVars
<1>10. ASSUME NEW a \in Address, ClientSends(a)
       PROVE  RequestsInv'
  <2> DEFINE body == Script[a][sent[a] + 1]
             req == [client |-> a, body |-> body, made_up |-> FALSE]
  <2>1. /\ requests' \in {requests, Append(requests, req)}
        /\ sent' = [sent EXCEPT ![a] = @ + 1] /\ sent[a] < Len(Script[a])
        /\ UNCHANGED <<prof, comm_to_prof>>
    BY <1>10 DEF ClientSends, MaySend, EnvironmentStep
  <2>2. body \in RequestBody
    <3>1. Script[a] \in Seq(RequestBody) /\ sent[a] \in Nat
      BY ScriptAssumption
    <3> DEFINE i == sent[a] + 1
    <3>2. i \in 1..Len(Script[a])
      BY <2>1, <3>1
    <3> HIDE DEF i
    <3>3. Script[a][i] \in RequestBody
      BY <3>1, <3>2
    <3> QED
      BY <3>3 DEF i
  <2>3. req \in ReceivedReq
    BY <2>2 DEF ReceivedReq
  <2> HIDE DEF req
  <2> QED
    BY <2>1, <2>3
<1>11. ASSUME NEW a \in Address, GiveUpClient(a)
       PROVE  RequestsInv'
  <2> DEFINE req == [client |-> a, body |-> [type |-> "DISCONNECT", username |-> NoUser],
                     made_up |-> TRUE]
  <2>1. requests' \in {requests, Append(requests, req)} /\ UNCHANGED <<prof, comm_to_prof, sent>>
    BY <1>11 DEF GiveUpClient, EnvironmentStep
  <2>2. req \in ReceivedReq
    BY DEF ReceivedReq, RequestBody
  <2> HIDE DEF req
  <2>3. Append(requests, req) \in Seq(ReceivedReq)
    BY <2>2
  <2>4. requests' \in Seq(ReceivedReq)
    BY <2>1, <2>3
  <2> QED
    BY <2>1, <2>4
<1>12. CASE UNCHANGED serverVars
  BY <1>12 DEF serverVars, processVars, commVars, socketVars, clientVars
<1> QED
  BY <1>1, <1>2, <1>3, <1>4, <1>5, <1>6, <1>7, <1>8, <1>9, <1>10, <1>11, <1>12, LossyAssumption
  DEF ServerNext, CommReq, Prof, Environment

LEMMA RequestsCorrect == ServerSpec => []RequestsInv
BY RequestsInit, RequestsStep, PTL DEF ServerSpec
-----------------------------------------------------------------------------
(* The server and its table.                                               *)

LEMMA TableAction ==
  ASSUME RequestsInv, TypeOK, [ServerNext]_serverVars
  PROVE  [Next]_vars
<1> USE DEF RequestsInv
<1>1. CASE CommNotif \/ CommReq \/ EndPersister
  BY <1>1 DEF CommNotif, SendDeliver, EndCommNotif, CommNotifStep, CommReq, PassOn,
     EndCommReq, CommReqStep, EndPersister
<1>2. CASE ServeReq
  <2> DEFINE client == Head(comm_to_prof).client
             body == Head(comm_to_prof).body
  <2>1. client \in Address /\ body \in RequestBody /\ Serve(client, body)
    BY <1>2, HeadReq DEF ServeReq
  <2>2. body.type \in {"CLIENT_CONN", "FOLLOW"} => body.username \in Username
    BY <2>1 DEF RequestBody
  <2> HIDE DEF client, body
  <2>3. Request \/ UNCHANGED vars
    BY <2>1, <2>2 DEF Serve, Request, RequestBody
  <2> QED
    BY <2>3 DEF Next
<1>3. CASE Answer
  BY <1>3 DEF Answer
<1>4. CASE InterruptedServe
  BY <1>4, HeadReq DEF InterruptedServe, Next, Request
<1>5. CASE EndProf
  BY <1>5 DEF EndProf, Next
<1>6. CASE ReceiveWakeup
  BY <1>6 DEF ReceiveWakeup, Next, NotifManager
<1>7. CASE Consume
  <2>1. to_be_notif \in Username /\ ConsumeOneNotif(to_be_notif)
    BY <1>7 DEF Consume, TypeOK
  <2> QED
    BY <2>1 DEF Next, NotifManager
<1>8. CASE PassDelivery
  BY <1>8 DEF PassDelivery, Next, NotifManager
<1>9. CASE EndNotif
  BY <1>9 DEF EndNotif
<1>10. CASE Main
  BY <1>10 DEF Main, MainGoesOn, Start, StopWaiting, MainCuts, MainCutsNotif, MainDisconnects,
     MainJoins,
     Return, Next
<1>11. CASE Environment
  BY <1>11 DEF Environment, Interrupt, CallEnds, ClientSends, LateRequest, StrayDisconnect,
     GiveUpClient, EnvironmentStep
<1>12. CASE UNCHANGED serverVars
  BY <1>12 DEF serverVars
<1> QED
  BY <1>1, <1>2, <1>3, <1>4, <1>5, <1>6, <1>7, <1>8, <1>9, <1>10, <1>11, <1>12
  DEF ServerNext, Prof, Notif
LEMMA ServerTableType == ServerSpec => [](RequestsInv /\ TypeOK)
<1>1. ServerInit => RequestsInv /\ TypeOK
  BY RequestsInit, TypeInit DEF ServerInit
<1>2. RequestsInv /\ TypeOK /\ [ServerNext]_serverVars => RequestsInv' /\ TypeOK'
  BY RequestsStep, TableAction, TypeStep
<1> QED
  BY <1>1, <1>2, PTL DEF ServerSpec

(* The threads of the server drive the table only as module                *)
(* ServerProfileTable says its callers do: one request at a time, the      *)
(* channels cut in their order, one shutdown.                              *)
THEOREM TableImplemented == ServerSpec => Spec
<1>1. ServerInit => Init
  BY DEF ServerInit
<1>2. RequestsInv /\ TypeOK /\ [ServerNext]_serverVars => [Next]_vars
  BY TableAction
<1> QED
  BY <1>1, <1>2, ServerTableType, PTL DEF ServerSpec, Spec

(* So the queues of the running server keep each sender's order.           *)
THEOREM ServerQueueInOrderCorrect == ServerSpec => []QueueInOrder
BY TableImplemented, QueueInOrderCorrect

(* And its sessions agree with its profiles and their limit, followers     *)
(* exist, every queued notification has its wake-up, and a stored one      *)
(* counts the queues that hold it, whatever the threads are doing.         *)
THEOREM ServerTableCorrect ==
  ServerSpec => [](SessionsConsistent /\ FollowersKnown /\ WakeupPerNotif /\ PendingCountExact)
<1>1. ServerSpec => []SessionsConsistent /\ []FollowersKnown
  BY TableImplemented, SessionsConsistentCorrect, FollowersKnownCorrect
<1>2. ServerSpec => []WakeupPerNotif /\ []PendingCountExact
  BY TableImplemented, WakeupPerNotifCorrect, PendingCountExactCorrect
<1> QED
  BY <1>1, <1>2, PTL

-----------------------------------------------------------------------------
(* The tracker.  Before join_all the map has exactly the running threads;  *)
(* after it, what is left in it was moved away, and goes as they end.      *)

Ended(t) == task[t] = "ended"

TrackerInv ==
  /\ ~terminated
  /\ main \in {"starting", "waiting", "cutting", "cutting_notif", "disconnecting",
               "joining", "joined", "returned"}
  /\ DOMAIN task = Task /\ DOMAIN threads = Task
  /\ \A t \in Task : task[t] \in {"unspawned", "running", "ended"}
  /\ main = "starting" => \A t \in Task : task[t] = "unspawned" /\ threads[t] = "nothing"
  /\ main # "starting" => \A t \in Task : task[t] # "unspawned"
  /\ \A t \in Task : Ended(t) => threads[t] = "nothing"
  /\ closed <=> main \in {"joined", "returned"}
  /\ main \notin {"starting", "joined", "returned"} =>
       \A t \in Task : task[t] = "running" => threads[t] = "thread"
  /\ closed => \A t \in Task : task[t] = "running" => threads[t] = "moved" /\ t \in to_joiner
  /\ main = "returned" => \A t \in Task : Ended(t)

LEMMA TrackerFinish ==
  ASSUME TrackerInv, NEW t \in Task, Finish(t), main' = main
  PROVE  TrackerInv'
BY DEF TrackerInv, Finish, Ended

LEMMA TrackerSame ==
  ASSUME TrackerInv, UNCHANGED trackerVars, main' = main
  PROVE  TrackerInv'
BY DEF TrackerInv, trackerVars, Ended

LEMMA TrackerStep == TrackerInv /\ [ServerNext]_serverVars => TrackerInv'
<1> SUFFICES ASSUME TrackerInv, [ServerNext]_serverVars
             PROVE  TrackerInv'
  OBVIOUS
<1>0. {"comm_notif", "comm_req", "prof", "persister", "notif"} = Task
  BY TaskAssumption
<1>1. CASE Start
  BY <1>1 DEF Start, Spawn, TrackerInv, Ended
<1>2. CASE StopWaiting \/ MainCuts \/ MainCutsNotif \/ MainDisconnects
  BY <1>2 DEF StopWaiting, MainCuts, MainCutsNotif, MainDisconnects, MainStep, trackerVars,
     TrackerInv, Ended
<1>3. CASE MainJoins
  BY <1>3 DEF MainJoins, MainStep, JoinAll, TrackerInv, Ended
<1>4. CASE Return
  <2>1. \A t \in Task : Ended(t)
    BY <1>4 DEF Return, AllJoined, MainStep, TrackerInv, Ended
  <2> QED
    BY <1>4, <2>1 DEF Return, MainStep, JoinAll, TrackerInv, Ended
<1>5. CASE CommNotif \/ CommReq
  <2>1. main' = main /\ (UNCHANGED trackerVars \/ \E t \in Task : Finish(t))
    BY <1>0, <1>5 DEF CommNotif, SendDeliver, EndCommNotif, CommNotifStep, CommReq, PassOn,
       EndCommReq, CommReqStep, SignalAndFinish
  <2> QED
    BY <2>1, TrackerFinish, TrackerSame
<1>6. CASE Prof \/ EndPersister
  <2>1. main' = main /\ (UNCHANGED trackerVars \/ \E t \in Task : Finish(t))
    BY <1>0, <1>6 DEF Prof, ServeReq, Answer, InterruptedServe, EndProf, ProfStep,
       EndPersister, SignalAndFinish, processVars
  <2> QED
    BY <2>1, TrackerFinish, TrackerSame
<1>7. CASE Notif
  <2>1. main' = main /\ (UNCHANGED trackerVars \/ \E t \in Task : Finish(t))
    BY <1>0, <1>7 DEF Notif, ReceiveWakeup, Consume, PassDelivery, EndNotif, NotifStep,
       SignalAndFinish
  <2> QED
    BY <2>1, TrackerFinish, TrackerSame
<1>8. CASE Environment \/ UNCHANGED serverVars
  <2>1. main' = main /\ UNCHANGED trackerVars
    BY <1>8 DEF Environment, Interrupt, CallEnds, ClientSends, LateRequest, StrayDisconnect,
       GiveUpClient,
       EnvironmentStep, serverVars, processVars
  <2> QED
    BY <2>1, TrackerSame
<1> QED
  BY <1>1, <1>2, <1>3, <1>4, <1>5, <1>6, <1>7, <1>8 DEF ServerNext, Main, MainGoesOn

(* join_all waits for each thread exactly once, and its second call finds  *)
(* nothing left that would end the process, in whatever order the threads  *)
(* end before, while and after it runs.                                    *)
THEOREM JoinedOnceCorrect == ServerSpec => []JoinedOnce
<1>1. ServerInit => TrackerInv
  BY DEF ServerInit, TrackerInit, TrackerInv, Ended
<1>2. TrackerInv => JoinedOnce
  BY DEF TrackerInv, JoinedOnce, Ended
<1> QED
  BY <1>1, <1>2, TrackerStep, PTL DEF ServerSpec

-----------------------------------------------------------------------------
(* Types of the rest: the tracker, the flags, and what is on its way to    *)
(* the clients.  A call that waits is at the head of the channel, and on a *)
(* connection.                                                             *)

FlagsTypeOK ==
  /\ TrackerTypeOK
  /\ main \in {"starting", "waiting", "cutting", "cutting_notif", "disconnecting",
               "joining", "joined", "returned"}
  /\ asked \in BOOLEAN /\ open \in BOOLEAN /\ comm_to_prof_open \in BOOLEAN
  /\ handler_ended \in BOOLEAN
  /\ awaiting \subseteq Address /\ silences \in 0..MaxSilences

DeliveryTypeOK ==
  /\ comm_notif \in {"receiving", "waiting"}
  /\ comm_notif = "waiting" => notif_to_comm # <<>> /\ Head(notif_to_comm)[1] \in connected
  /\ to_send \subseteq DeliverReq /\ notif_to_comm \in Seq(DeliverReq)
  /\ connected \subseteq Address
  /\ attempted \in [Address -> Seq(Username \X Nat)]

LEMMA FinishTyped ==
  ASSUME TrackerTypeOK, NEW t \in Task, Finish(t)
  PROVE  TrackerTypeOK'
BY DEF TrackerTypeOK, Finish

LEMMA TrackerTyped ==
  ASSUME TrackerTypeOK, UNCHANGED trackerVars \/ Spawn \/ JoinAll \/ \E t \in Task : Finish(t)
  PROVE  TrackerTypeOK'
BY FinishTyped DEF TrackerTypeOK, trackerVars, Spawn, JoinAll

LEMMA FlagsStep ==
  ASSUME RequestsInv, FlagsTypeOK, [ServerNext]_serverVars
  PROVE  FlagsTypeOK'
<1>0. /\ {"comm_notif", "comm_req", "prof", "persister", "notif"} = Task
      /\ TrackerTypeOK /\ MaxSilences \in Nat
  BY TaskAssumption, SilenceAssumption DEF FlagsTypeOK
<1>1. CASE CommNotif
  <2>1. TrackerTypeOK'
    BY <1>0, <1>1, TrackerTyped DEF CommNotif, SendDeliver, EndCommNotif, SignalAndFinish
  <2> QED
    BY <1>1, <2>1 DEF CommNotif, SendDeliver, EndCommNotif, CommNotifStep, DisconnectSocket,
       SignalAndFinish, FlagsTypeOK, socketVars
<1>2. CASE CommReq
  <2>1. TrackerTypeOK'
    BY <1>0, <1>2, TrackerTyped DEF CommReq, PassOn, EndCommReq, SignalAndFinish
  <2> QED
    BY <1>2, <2>1 DEF CommReq, PassOn, EndCommReq, CommReqStep, DisconnectSocket,
       SignalAndFinish, FlagsTypeOK, clientVars
<1>3. CASE ServeReq \/ InterruptedServe \/ EndProf
  <2>1. TrackerTypeOK'
    BY <1>0, <1>3, TrackerTyped DEF ServeReq, InterruptedServe, EndProf, SignalAndFinish
  <2> QED
    BY <1>3, <2>1 DEF ServeReq, InterruptedServe, EndProf, ProfStep, SignalAndFinish, FlagsTypeOK,
       socketVars
<1>4. CASE Answer
  <2>1. TrackerTypeOK'
    BY <1>0, <1>4, TrackerTyped DEF Answer
  <2>2. awaiting' \subseteq Address
    BY <1>4 DEF Answer, SendResp, FlagsTypeOK
  <2> QED
    BY <1>4, <2>1, <2>2 DEF Answer, ProfStep, SendResp, FlagsTypeOK
<1>5. CASE EndPersister
  <2>1. TrackerTypeOK'
    BY <1>0, <1>5, TrackerTyped DEF EndPersister
  <2> QED
    BY <1>5, <2>1 DEF EndPersister, FlagsTypeOK, processVars, commVars, socketVars, clientVars
<1>6. CASE Notif
  <2>1. TrackerTypeOK'
    BY <1>0, <1>6, TrackerTyped DEF Notif, ReceiveWakeup, Consume, PassDelivery, EndNotif,
       SignalAndFinish
  <2>2. asked' \in BOOLEAN
    BY <1>6 DEF Notif, ReceiveWakeup, Consume, PassDelivery, EndNotif, SignalAndFinish, FlagsTypeOK
  <2> QED
    BY <1>6, <2>1, <2>2 DEF Notif, NotifStep, ReceiveWakeup, Consume, PassDelivery, EndNotif,
       FlagsTypeOK, socketVars, clientVars
<1>7. CASE Main
  <2>1. TrackerTypeOK'
    BY <1>0, <1>7, TrackerTyped DEF Main, MainGoesOn, Start, StopWaiting, MainCuts, MainCutsNotif,
       MainDisconnects, MainJoins, Return
  <2>2. /\ main' \in {"waiting", "cutting", "cutting_notif", "disconnecting", "joining", "joined",
                     "returned"}
        /\ open' \in BOOLEAN /\ comm_to_prof_open' \in BOOLEAN /\ UNCHANGED <<asked, handler_ended>>
    BY <1>7 DEF Main, MainGoesOn, Start, StopWaiting, MainCuts, MainCutsNotif, MainDisconnects,
       MainJoins,
       Return, MainStep, DisconnectSocket, FlagsTypeOK, commVars, socketVars
  <2>3. UNCHANGED clientVars
    BY <1>7 DEF Main, MainGoesOn, Start, StopWaiting, MainCuts, MainCutsNotif, MainDisconnects,
       MainJoins,
       Return, MainStep
  <2> QED
    BY <2>1, <2>2, <2>3 DEF FlagsTypeOK, clientVars
<1>8. CASE Interrupt \/ CallEnds \/ \E a \in Address : LateRequest(a)
  <2>1. TrackerTypeOK'
    BY <1>0, <1>8, TrackerTyped DEF Interrupt, CallEnds, LateRequest, EnvironmentStep
  <2> QED
    BY <1>8, <2>1 DEF Interrupt, CallEnds, LateRequest, EnvironmentStep, FlagsTypeOK, socketVars
<1>9. ASSUME NEW a \in Address, ClientSends(a)
      PROVE  FlagsTypeOK'
  <2>1. TrackerTypeOK'
    BY <1>0, <1>9, TrackerTyped DEF ClientSends, EnvironmentStep
  <2>2. awaiting' \subseteq Address
    BY <1>9 DEF ClientSends, FlagsTypeOK
  <2> QED
    BY <1>9, <2>1, <2>2 DEF ClientSends, EnvironmentStep, FlagsTypeOK
<1>10. ASSUME NEW a \in Address, StrayDisconnect(a) \/ GiveUpClient(a)
       PROVE  FlagsTypeOK'
  <2>1. TrackerTypeOK'
    BY <1>0, <1>10, TrackerTyped DEF StrayDisconnect, GiveUpClient, EnvironmentStep
  <2>2. silences' \in 0..MaxSilences
    BY <1>0, <1>10 DEF StrayDisconnect, GiveUpClient, FlagsTypeOK
  <2> QED
    BY <1>10, <2>1, <2>2 DEF StrayDisconnect, GiveUpClient, EnvironmentStep, FlagsTypeOK
<1>11. CASE UNCHANGED serverVars
  <2>1. TrackerTypeOK'
    BY <1>0, <1>11, TrackerTyped DEF serverVars
  <2> QED
    BY <1>11, <2>1 DEF FlagsTypeOK, serverVars, processVars, commVars, socketVars, clientVars
<1> QED
  BY <1>1, <1>2, <1>3, <1>4, <1>5, <1>6, <1>7, <1>8, <1>9, <1>10, <1>11,
     LossyAssumption
  DEF ServerNext, Prof, Environment

LEMMA DeliveryCallEnded ==
  ASSUME DeliveryTypeOK, comm_notif = "waiting", CallEnded
  PROVE  /\ comm_notif' = "receiving"
         /\ notif_to_comm' = Tail(notif_to_comm) /\ notif_to_comm' \in Seq(DeliverReq)
BY HeadTailProperties DEF DeliveryTypeOK, CallEnded

\* The connections in `gone' go, and the call that waits on one of them ends.
LEMMA DeliveryCallMissed ==
  ASSUME DeliveryTypeOK, NEW gone, CallMissed(gone), connected' \subseteq connected,
         connected \subseteq connected' \cup gone, UNCHANGED <<to_send, attempted>>
  PROVE  DeliveryTypeOK'
<1>1. CASE comm_notif = "waiting" /\ Head(notif_to_comm)[1] \in gone
  BY <1>1, DeliveryCallEnded DEF CallMissed, DeliveryTypeOK
<1>2. CASE ~(comm_notif = "waiting" /\ Head(notif_to_comm)[1] \in gone)
  <2>1. UNCHANGED <<comm_notif, notif_to_comm>>
    BY <1>2 DEF CallMissed
  <2> QED
    BY <1>2, <2>1 DEF DeliveryTypeOK
<1> QED
  BY <1>1, <1>2

LEMMA DeliverySame ==
  ASSUME DeliveryTypeOK, UNCHANGED <<comm_notif, notif_to_comm, to_send, attempted>>,
         connected \subseteq connected', connected' \subseteq Address
  PROVE  DeliveryTypeOK'
BY DEF DeliveryTypeOK

\* What consume_one_notif hands to the notification manager.
LEMMA ConsumedTyped ==
  ASSUME TypeOK, Consume
  PROVE  to_send' \subseteq DeliverReq
<1>1. to_be_notif \in Username
  BY DEF Consume, TypeOK
<1>2. pending_notifs[to_be_notif] \in Seq(Username \X Nat)
      /\ prof_sessions[to_be_notif] \subseteq Address
  BY <1>1 DEF TypeOK
<1>3. CASE pending_notifs[to_be_notif] = <<>>
  BY <1>3 DEF Consume
<1>4. CASE pending_notifs[to_be_notif] # <<>>
  <2>1. Head(pending_notifs[to_be_notif]) \in Username \X Nat
    BY <1>2, <1>4, HeadTailProperties
  <2>2. Head(pending_notifs[to_be_notif])[1] \in Username
        /\ Head(pending_notifs[to_be_notif])[2] \in Nat
    BY <2>1
  <2>3. to_send' = {<<a, Head(pending_notifs[to_be_notif])[1], Head(pending_notifs[to_be_notif])[2]>> :
                      a \in prof_sessions[to_be_notif]}
    BY <1>4 DEF Consume
  <2> QED
    BY <1>2, <2>2, <2>3 DEF DeliverReq
<1> QED
  BY <1>3, <1>4

LEMMA DeliveryStep ==
  ASSUME RequestsInv, TypeOK, DeliveryTypeOK, [ServerNext]_serverVars
  PROVE  DeliveryTypeOK'
<1>0. connected \subseteq Address
  BY DEF DeliveryTypeOK
<1>1. CASE SendDeliver
  <2> DEFINE req == Head(notif_to_comm)
  <2>1. req \in DeliverReq /\ Tail(notif_to_comm) \in Seq(DeliverReq)
    BY <1>1, HeadTailProperties DEF SendDeliver, DeliveryTypeOK
  <2>2. req[1] \in Address /\ <<req[2], req[3]>> \in Username \X Nat
    BY <2>1 DEF DeliverReq
  <2>3. attempted' = [attempted EXCEPT ![req[1]] = Append(@, <<req[2], req[3]>>)]
        /\ notif_to_comm # <<>> /\ UNCHANGED <<to_send, connected>>
    BY <1>1 DEF SendDeliver, CommNotifStep, socketVars
  <2>4. \/ req[1] \in connected /\ comm_notif' = "waiting" /\ notif_to_comm' = notif_to_comm
        \/ comm_notif' = "receiving" /\ notif_to_comm' = Tail(notif_to_comm)
    BY <1>1 DEF SendDeliver, CallEnded
  <2> HIDE DEF req
  <2>5. attempted' \in [Address -> Seq(Username \X Nat)]
    BY <2>2, <2>3, AppendProperties DEF DeliveryTypeOK
  <2> QED
    BY <2>1, <2>3, <2>4, <2>5 DEF DeliveryTypeOK, req
<1>2. CASE EndCommNotif
  BY <1>2 DEF EndCommNotif, CommNotifStep, DisconnectSocket, DeliveryTypeOK
<1>3. CASE PassOn
  BY <1>0, <1>3, DeliverySame DEF PassOn, CommReqStep, clientVars
<1>4. CASE EndCommReq
  BY <1>4, DeliveryCallMissed DEF EndCommReq, CommReqStep, DisconnectSocket, clientVars
<1>5. CASE ServeReq \/ InterruptedServe \/ EndProf
  BY <1>0, <1>5, DeliverySame DEF ServeReq, InterruptedServe, EndProf, ProfStep, socketVars
<1>6. CASE Answer
  <2>1. Head(comm_to_prof).client \in Address
    BY <1>6, HeadReq DEF Answer, RequestsInv
  <2> QED
    BY <1>0, <1>6, <2>1, DeliverySame DEF Answer, ProfStep, SendResp
<1>7. CASE EndPersister \/ ReceiveWakeup \/ EndNotif
  BY <1>0, <1>7, DeliverySame DEF EndPersister, ReceiveWakeup, EndNotif, NotifStep, processVars,
     commVars, socketVars, clientVars
<1>8. CASE Consume
  BY <1>8, ConsumedTyped DEF Consume, NotifStep, DeliveryTypeOK, socketVars, clientVars
<1>9. CASE PassDelivery
  <2>1. UNCHANGED <<comm_notif, connected, attempted>>
    BY <1>9 DEF PassDelivery, NotifStep, socketVars, clientVars
  <2>2. \/ to_send' = {} /\ notif_to_comm' = notif_to_comm
        \/ \E req \in to_send : to_send' = to_send \ {req} /\ notif_to_comm' = Append(notif_to_comm, req)
    BY <1>9 DEF PassDelivery, Enqueued
  <2>3. CASE to_send' = {} /\ notif_to_comm' = notif_to_comm
    BY <2>1, <2>3 DEF DeliveryTypeOK
  <2>4. ASSUME NEW req \in to_send, to_send' = to_send \ {req},
               notif_to_comm' = Append(notif_to_comm, req)
        PROVE  DeliveryTypeOK'
    <3>1. req \in DeliverReq
      BY DEF DeliveryTypeOK
    <3>2. notif_to_comm' \in Seq(DeliverReq) /\ notif_to_comm' # <<>>
      BY <2>4, <3>1, AppendProperties DEF DeliveryTypeOK
    <3>3. comm_notif = "waiting" => Head(notif_to_comm') = Head(notif_to_comm)
      BY <2>4, <3>1, AppendProperties, EmptySeq DEF DeliveryTypeOK
    <3> QED
      BY <2>1, <2>4, <3>2, <3>3 DEF DeliveryTypeOK
  <2> QED
    BY <2>2, <2>3, <2>4
<1>10. CASE Start \/ StopWaiting \/ MainCuts \/ MainCutsNotif \/ MainJoins \/ Return
  BY <1>0, <1>10, DeliverySame DEF Start, StopWaiting, MainCuts, MainCutsNotif, MainJoins, Return,
     MainStep, commVars, socketVars, clientVars
<1>11. CASE MainDisconnects
  BY <1>11, DeliveryCallMissed DEF MainDisconnects, MainStep, DisconnectSocket, clientVars
<1>12. CASE Interrupt
  BY <1>0, <1>12, DeliverySame DEF Interrupt, EnvironmentStep, socketVars
<1>13. CASE CallEnds
  BY <1>13, DeliveryCallEnded DEF CallEnds, EnvironmentStep, DeliveryTypeOK, socketVars
<1>14. ASSUME NEW a \in Address, ClientSends(a)
       PROVE  DeliveryTypeOK'
  <2>1. connected' \in {connected, connected \cup {a}}
    BY <1>14 DEF ClientSends
  <2> QED
    BY <1>0, <1>14, <2>1, DeliverySame DEF ClientSends, EnvironmentStep
<1>15. ASSUME NEW a \in Address, StrayDisconnect(a) \/ GiveUpClient(a)
       PROVE  DeliveryTypeOK'
  BY <1>15, DeliveryCallMissed DEF StrayDisconnect, GiveUpClient, EnvironmentStep
<1>16. ASSUME NEW a \in Address, LateRequest(a)
       PROVE  DeliveryTypeOK'
  BY <1>0, <1>16, DeliverySame DEF LateRequest, EnvironmentStep
<1>17. CASE UNCHANGED serverVars
  BY <1>0, <1>17, DeliverySame DEF serverVars, processVars, commVars, socketVars, clientVars
<1> QED
  BY <1>1, <1>2, <1>3, <1>4, <1>5, <1>6, <1>7, <1>8, <1>9, <1>10, <1>11, <1>12, <1>13, <1>14, <1>15,
     <1>16, <1>17, LossyAssumption
  DEF ServerNext, CommNotif, CommReq, Prof, Notif, Main, MainGoesOn, Environment

LEMMA ServerTypeInitially == ServerInit => FlagsTypeOK /\ DeliveryTypeOK
<1> SUFFICES ASSUME ServerInit
             PROVE  FlagsTypeOK /\ DeliveryTypeOK
  OBVIOUS
<1>1. TrackerTypeOK
  BY DEF ServerInit, TrackerInit, TrackerTypeOK
<1>2. <<>> \in Seq(DeliverReq) /\ <<>> \in Seq(Username \X Nat)
  BY EmptySeq
<1>3. 0 \in 0..MaxSilences
  BY SilenceAssumption
<1>4. FlagsTypeOK
  BY <1>1, <1>3 DEF ServerInit, FlagsTypeOK
<1>5. DeliveryTypeOK
  BY <1>2 DEF ServerInit, DeliveryTypeOK
<1> QED
  BY <1>4, <1>5

LEMMA AlwaysTyped == ServerSpec => [](RequestsInv /\ TypeOK /\ FlagsTypeOK /\ DeliveryTypeOK)
<1>1. RequestsInv /\ TypeOK /\ FlagsTypeOK /\ DeliveryTypeOK /\ [ServerNext]_serverVars
        => FlagsTypeOK' /\ DeliveryTypeOK'
  BY FlagsStep, DeliveryStep
<1> QED
  BY <1>1, ServerTypeInitially, ServerTableType, PTL DEF ServerSpec

(* The server's threads, channels and connections are well typed; the call *)
(* that the communication manager waits for is pending on a connection.    *)
THEOREM ServerTypeCorrect == ServerSpec => []ServerTypeOK
<1>1. RequestsInv /\ TypeOK /\ FlagsTypeOK /\ DeliveryTypeOK => ServerTypeOK
  BY DEF RequestsInv, FlagsTypeOK, DeliveryTypeOK, ServerTypeOK
<1> QED
  BY <1>1, AlwaysTyped, PTL
-----------------------------------------------------------------------------
(* Order on the way to a client.  It may connect under one name only, so   *)
(* all that is sent to it comes out of one queue, one notification at a    *)
(* time: what has left the queue is older than what is in it.              *)

MayConnect(a, u) ==
  \E i \in 1..Len(Script[a]) :
    Script[a][i].type = "CLIENT_CONN" /\ Script[a][i].username = u

OneName ==
  \A a \in Address : \A u, v \in Username : MayConnect(a, u) /\ MayConnect(a, v) => u = v

ScriptReq ==
  {r \in ReceivedReq : r.body.type = "CLIENT_CONN" => MayConnect(r.client, r.body.username)}

NamesInv ==
  /\ requests \in Seq(ScriptReq) /\ comm_to_prof \in Seq(ScriptReq)
  /\ \A a \in Address : \A u \in Username : a \in prof_sessions[u] => MayConnect(a, u)

LEMMA ServeNames ==
  ASSUME TypeOK, NamesInv, comm_to_prof # <<>>,
         Serve(Head(comm_to_prof).client, Head(comm_to_prof).body)
  PROVE  \A a \in Address : \A u \in Username : a \in prof_sessions'[u] => MayConnect(a, u)
<1> DEFINE client == Head(comm_to_prof).client
           body == Head(comm_to_prof).body
<1>1. Head(comm_to_prof) \in ScriptReq
  BY HeadTailProperties DEF NamesInv
<1>2. /\ client \in Address /\ body \in RequestBody
      /\ body.type = "CLIENT_CONN" => MayConnect(client, body.username) /\ body.username \in Username
  BY <1>1 DEF ScriptReq, ReceivedReq, RequestBody
<1>3. Serve(client, body)
  OBVIOUS
<1> HIDE DEF client, body
<1>4. CASE body.type = "CLIENT_CONN"
  <2>1. \/ prof_sessions' = prof_sessions
        \/ prof_sessions' = [prof_sessions EXCEPT ![body.username] = @ \cup {client}]
    BY <1>3, <1>4 DEF Serve, Connect, vars, memoryVars
  <2>2. ASSUME NEW a \in Address, NEW u \in Username, a \in prof_sessions'[u]
        PROVE  MayConnect(a, u)
    <3>1. a \in prof_sessions[u] \/ (u = body.username /\ a = client)
      BY <2>1, <2>2 DEF TypeOK
    <3>2. CASE a \in prof_sessions[u]
      BY <3>2 DEF NamesInv
    <3>3. CASE u = body.username /\ a = client
      BY <1>2, <1>4, <3>3
    <3> QED
      BY <3>1, <3>2, <3>3
  <2> QED
    BY <2>2
<1>5. CASE body.type = "DISCONNECT"
  <2>1. \/ prof_sessions' = prof_sessions
        \/ prof_sessions' = [prof_sessions EXCEPT ![sessions[client]] = @ \ {client}]
    BY <1>3, <1>5 DEF Serve, Disconnect
  <2>2. \A u \in Username : prof_sessions'[u] \subseteq prof_sessions[u]
    BY <2>1, ZenonT(40) DEF TypeOK
  <2> QED
    BY <2>2 DEF NamesInv
<1>6. CASE body.type \in {"FOLLOW", "NOTIFY"}
  <2>1. prof_sessions' = prof_sessions
    BY <1>3, <1>6 DEF Serve, Follow, Notify, RecordNotif, vars, memoryVars
  <2> QED
    BY <2>1 DEF NamesInv
<1> QED
  BY <1>2, <1>4, <1>5, <1>6 DEF RequestBody

LEMMA NamesInitially == ServerInit => NamesInv
<1> SUFFICES ASSUME ServerInit
             PROVE  NamesInv
  OBVIOUS
<1>1. <<>> \in Seq(ScriptReq)
  BY EmptySeq
<1> QED
  BY <1>1 DEF ServerInit, Init, NamesInv

LEMMA NamesStep ==
  ASSUME RequestsInv, TypeOK, NamesInv, [ServerNext]_serverVars
  PROVE  NamesInv'
<1> USE DEF NamesInv
<1>1. CASE CommNotif
  BY <1>1 DEF CommNotif, SendDeliver, EndCommNotif, CommNotifStep, DisconnectSocket, socketVars,
     vars, memoryVars
<1>2. CASE PassOn
  <2>1. requests' = Tail(requests) /\ comm_to_prof' = Append(comm_to_prof, Head(requests))
        /\ prof_sessions' = prof_sessions /\ requests # <<>>
    BY <1>2 DEF PassOn, CommReqStep, vars, memoryVars
  <2> QED
    BY <2>1, HeadTailProperties, AppendProperties
<1>3. CASE EndCommReq
  BY <1>3 DEF EndCommReq, CommReqStep, DisconnectSocket, vars, memoryVars
<1>4. CASE ServeReq
  BY <1>4, ServeNames DEF ServeReq, ProfStep, socketVars
<1>5. CASE Answer \/ InterruptedServe
  <2>1. comm_to_prof' = Tail(comm_to_prof) /\ comm_to_prof # <<>>
        /\ UNCHANGED <<requests, prof_sessions>>
    BY <1>5 DEF Answer, InterruptedServe, NotifyInterrupted, RecordNotif, ProfStep, SendResp,
       socketVars, vars, memoryVars, RequestsInv
  <2> QED
    BY <2>1, HeadTailProperties
<1>6. CASE EndProf
  BY <1>6 DEF EndProf, Shutdown, ProfStep, socketVars, memoryVars
<1>7. CASE EndPersister \/ Notif
  <2>1. UNCHANGED <<requests, comm_to_prof>>
    BY <1>7 DEF EndPersister, Notif, NotifStep, ReceiveWakeup, Consume, PassDelivery, EndNotif,
       commVars, socketVars
  <2>2. prof_sessions' = prof_sessions
    BY <1>7 DEF EndPersister, Notif, ReceiveWakeup, Consume, PassDelivery, EndNotif, TakeWakeup,
       Taken, ConsumeOneNotif, Deliver, vars, memoryVars
  <2> QED
    BY <2>1, <2>2
<1>8. CASE Main
  <2>1. UNCHANGED <<requests, comm_to_prof>>
    BY <1>8 DEF Main, MainGoesOn, Start, StopWaiting, MainCuts, MainCutsNotif, MainDisconnects,
       MainJoins,
       Return, MainStep, DisconnectSocket, commVars, socketVars
  <2>2. prof_sessions' = prof_sessions
    BY <1>8 DEF Main, MainGoesOn, Start, StopWaiting, MainCuts, MainCutsNotif, MainDisconnects,
       MainJoins,
       Return, DisconnectDeliveries, DisconnectWakeups, vars, memoryVars
  <2> QED
    BY <2>1, <2>2
<1>9. CASE Interrupt \/ CallEnds \/ \E a \in Address : LateRequest(a) \/ StrayDisconnect(a)
  BY <1>9 DEF Interrupt, CallEnds, LateRequest, StrayDisconnect, EnvironmentStep, socketVars, vars,
     memoryVars
<1>10. ASSUME NEW a \in Address, ClientSends(a)
       PROVE  NamesInv'
  <2> DEFINE i == sent[a] + 1
             req == [client |-> a, body |-> Script[a][i], made_up |-> FALSE]
  <2>1. /\ requests' \in {requests, Append(requests, req)} /\ sent[a] < Len(Script[a])
        /\ UNCHANGED <<comm_to_prof, prof_sessions>>
    BY <1>10 DEF ClientSends, MaySend, EnvironmentStep, vars, memoryVars
  <2>2. Script[a] \in Seq(RequestBody) /\ i \in 1..Len(Script[a])
    BY <2>1, ScriptAssumption DEF RequestsInv
  <2> HIDE DEF i
  <2>3. Script[a][i] \in RequestBody
    BY <2>2
  <2>4. req \in ScriptReq
    BY <2>2, <2>3 DEF ScriptReq, ReceivedReq, MayConnect
  <2> HIDE DEF req
  <2> QED
    BY <2>1, <2>4, AppendProperties
<1>11. ASSUME NEW a \in Address, GiveUpClient(a)
       PROVE  NamesInv'
  <2> DEFINE req == [client |-> a, body |-> [type |-> "DISCONNECT", username |-> NoUser],
                     made_up |-> TRUE]
  <2>1. requests' \in {requests, Append(requests, req)} /\ UNCHANGED <<comm_to_prof, prof_sessions>>
    BY <1>11 DEF GiveUpClient, EnvironmentStep, vars, memoryVars
  <2>2. req \in ScriptReq
    BY DEF ScriptReq, ReceivedReq, RequestBody
  <2> HIDE DEF req
  <2> QED
    BY <2>1, <2>2, AppendProperties
<1>12. CASE UNCHANGED serverVars
  BY <1>12 DEF serverVars, commVars, socketVars, vars, memoryVars
<1> QED
  BY <1>1, <1>2, <1>3, <1>4, <1>5, <1>6, <1>7, <1>8, <1>9, <1>10, <1>11, <1>12, LossyAssumption
  DEF ServerNext, CommReq, Prof, Environment

-----------------------------------------------------------------------------
(* Three stages: sent, in the channel, in the hand of the notification     *)
(* manager.                                                                *)

\* The head of the channel was sent already when its call is waited for.
Unsent == IF comm_notif = "waiting" THEN Tail(notif_to_comm) ELSE notif_to_comm

Ordered ==
  /\ SentInOrder
  /\ \A i, j \in 1..Len(Unsent) :
       i < j /\ Unsent[i][1] = Unsent[j][1] /\ Unsent[i][2] = Unsent[j][2] =>
         Unsent[i][3] < Unsent[j][3]
  /\ \A a \in Address : \A i \in 1..Len(attempted[a]) : \A j \in 1..Len(Unsent) :
       a = Unsent[j][1] /\ attempted[a][i][1] = Unsent[j][2] =>
         attempted[a][i][2] < Unsent[j][3]
  /\ \A req \in to_send :
       /\ \A i \in 1..Len(attempted[req[1]]) :
            attempted[req[1]][i][1] = req[2] => attempted[req[1]][i][2] < req[3]
       /\ \A j \in 1..Len(Unsent) :
            Unsent[j][1] = req[1] /\ Unsent[j][2] = req[2] => Unsent[j][3] < req[3]
       /\ \A other \in to_send : other[1] = req[1] => other = req

LEMMA UnsentTyped ==
  ASSUME DeliveryTypeOK
  PROVE  Unsent \in Seq(DeliverReq)
BY HeadTailProperties DEF DeliveryTypeOK, Unsent

LEMMA OrderSame ==
  ASSUME Ordered, Unsent' = Unsent, attempted' = attempted, to_send' \subseteq to_send
  PROVE  Ordered'
<1>1. SentInOrder'
  BY DEF Ordered, SentInOrder
<1> QED
  BY <1>1 DEF Ordered

\* The communication manager sends the first request that it has not sent.
SendHead ==
  /\ Unsent # <<>> /\ Unsent' = Tail(Unsent) /\ to_send' = to_send
  /\ attempted' = [attempted EXCEPT ![Head(Unsent)[1]] =
                     Append(@, <<Head(Unsent)[2], Head(Unsent)[3]>>)]

LEMMA OrderSend ==
  ASSUME DeliveryTypeOK, Ordered, SendHead
  PROVE  Ordered'
<1> DEFINE c == Head(Unsent)[1]
           s == Head(Unsent)[2]
           id == Head(Unsent)[3]
<1>1. /\ Unsent \in Seq(DeliverReq) /\ Len(Unsent) \in Nat \ {0}
      /\ Unsent[1] = Head(Unsent) /\ Head(Unsent) \in DeliverReq
      /\ Len(Unsent') = Len(Unsent) - 1
      /\ \A j \in 1..Len(Unsent') : Unsent'[j] = Unsent[j + 1] /\ j + 1 \in 1..Len(Unsent)
  BY UnsentTyped, HeadTailProperties DEF SendHead
<1>2. c \in Address /\ s \in Username /\ id \in Nat
  BY <1>1 DEF DeliverReq
<1>3. /\ attempted[c] \in Seq(Username \X Nat) /\ Len(attempted[c]) \in Nat
      /\ attempted'[c] = Append(attempted[c], <<s, id>>)
      /\ \A a \in Address : a # c => attempted'[a] = attempted[a]
  BY <1>2 DEF DeliveryTypeOK, SendHead
<1> DEFINE n == Len(attempted[c])
<1>4. /\ n \in Nat /\ Len(attempted'[c]) = n + 1
      /\ \A i \in 1..n : attempted'[c][i] = attempted[c][i]
      /\ attempted'[c][n + 1] = <<s, id>>
  BY <1>3, AppendProperties
<1>6. Unsent[1][1] = c /\ Unsent[1][2] = s /\ Unsent[1][3] = id /\ 1 \in 1..Len(Unsent)
  BY <1>1
<1>0. /\ \A a \in Address : \A i, j \in 1..Len(attempted[a]) :
           i < j /\ attempted[a][i][1] = attempted[a][j][1] => attempted[a][i][2] < attempted[a][j][2]
      /\ \A a \in Address : \A i \in 1..Len(attempted[a]) : \A j \in 1..Len(Unsent) :
           a = Unsent[j][1] /\ attempted[a][i][1] = Unsent[j][2] =>
             attempted[a][i][2] < Unsent[j][3]
      /\ \A j \in 1..Len(Unsent) :
           1 < j /\ c = Unsent[j][1] /\ s = Unsent[j][2] => id < Unsent[j][3]
  BY <1>6 DEF Ordered, SentInOrder
<1> HIDE DEF c, s, id
<1>11. 1..Len(attempted[c]) = 1..n
  OBVIOUS
<1> HIDE DEF n
<1>5. \A i \in 1..Len(attempted'[c]) : i \in 1..n \/ i = n + 1
  BY <1>4
<1>7. SentInOrder'
  <2> SUFFICES ASSUME NEW a \in Address, NEW i \in 1..Len(attempted'[a]),
                      NEW j \in 1..Len(attempted'[a]),
                      i < j, attempted'[a][i][1] = attempted'[a][j][1]
               PROVE  attempted'[a][i][2] < attempted'[a][j][2]
    BY DEF SentInOrder
  <2>1. CASE a # c
    BY <1>3, <2>1 DEF Ordered, SentInOrder
  <2>2. CASE a = c /\ j \in 1..n
    <3>1. i \in 1..n
      BY <1>4, <2>2
    <3>2. attempted'[a][i] = attempted[c][i] /\ attempted'[a][j] = attempted[c][j]
      BY <1>4, <2>2, <3>1
    <3> QED
      BY <1>0, <1>2, <1>11, <2>2, <3>1, <3>2
  <2>3. CASE a = c /\ j = n + 1
    <3>1. i \in 1..n
      BY <1>5, <2>3
    <3>2. attempted[c][i][1] = s
      BY <1>4, <2>3, <3>1
    <3>3. attempted[c][i][2] < id
      BY <1>2, <1>6, <3>1, <3>2 DEF Ordered, n
    <3> QED
      BY <1>4, <2>3, <3>1, <3>3
  <2> QED
    BY <1>5, <2>1, <2>2, <2>3
<1>8. \A i, j \in 1..Len(Unsent') :
        i < j /\ Unsent'[i][1] = Unsent'[j][1] /\ Unsent'[i][2] = Unsent'[j][2] =>
          Unsent'[i][3] < Unsent'[j][3]
  BY <1>1 DEF Ordered
<1>9. \A a \in Address : \A i \in 1..Len(attempted'[a]) : \A j \in 1..Len(Unsent') :
        a = Unsent'[j][1] /\ attempted'[a][i][1] = Unsent'[j][2] =>
          attempted'[a][i][2] < Unsent'[j][3]
  <2> SUFFICES ASSUME NEW a \in Address, NEW i \in 1..Len(attempted'[a]), NEW j \in 1..Len(Unsent'),
                      a = Unsent'[j][1], attempted'[a][i][1] = Unsent'[j][2]
               PROVE  attempted'[a][i][2] < Unsent'[j][3]
    OBVIOUS
  <2>1. Unsent'[j] = Unsent[j + 1] /\ j + 1 \in 1..Len(Unsent) /\ 1 < j + 1
    BY <1>1
  <2>2. CASE a # c
    <3>1. attempted'[a] = attempted[a]
      BY <1>3, <2>2
    <3> QED
      BY <1>0, <2>1, <3>1
  <2>3. CASE a = c /\ i \in 1..n
    <3>1. attempted'[a][i] = attempted[a][i] /\ i \in 1..Len(attempted[a])
      BY <1>4, <1>11, <2>3
    <3> QED
      BY <1>0, <2>1, <3>1
  <2>4. CASE a = c /\ i = n + 1
    <3>1. attempted'[a][i] = <<s, id>>
      BY <1>4, <2>4
    <3>2. attempted'[a][i][1] = s /\ attempted'[a][i][2] = id
      BY <3>1
    <3> QED
      BY <1>0, <2>1, <2>4, <3>2
  <2> QED
    BY <1>5, <2>2, <2>3, <2>4
<1>10. ASSUME NEW req \in to_send'
       PROVE  /\ \A i \in 1..Len(attempted'[req[1]]) :
                   attempted'[req[1]][i][1] = req[2] => attempted'[req[1]][i][2] < req[3]
              /\ \A j \in 1..Len(Unsent') :
                   Unsent'[j][1] = req[1] /\ Unsent'[j][2] = req[2] => Unsent'[j][3] < req[3]
              /\ \A other \in to_send' : other[1] = req[1] => other = req
  <2>1. req \in to_send /\ req[1] \in Address
    BY DEF DeliveryTypeOK, DeliverReq, SendHead
  <2>2. ASSUME NEW i \in 1..Len(attempted'[req[1]]), attempted'[req[1]][i][1] = req[2]
        PROVE  attempted'[req[1]][i][2] < req[3]
    <3>1. CASE req[1] # c
      BY <1>3, <2>1, <2>2, <3>1 DEF Ordered
    <3>2. CASE req[1] = c /\ i \in 1..n
      BY <1>4, <2>1, <2>2, <3>2 DEF Ordered, n
    <3>3. CASE req[1] = c /\ i = n + 1
      BY <1>4, <1>6, <2>1, <2>2, <3>3 DEF Ordered
    <3> QED
      BY <1>5, <3>1, <3>2, <3>3
  <2>3. to_send' = to_send
    BY DEF SendHead
  <2> QED
    BY <1>1, <2>1, <2>2, <2>3 DEF Ordered
<1> QED
  BY <1>7, <1>8, <1>9, <1>10 DEF Ordered

LEMMA OrderPass ==
  ASSUME DeliveryTypeOK, Ordered, NEW req \in to_send, Unsent' = Append(Unsent, req),
         to_send' = to_send \ {req}, attempted' = attempted
  PROVE  Ordered'
<1> DEFINE n == Len(Unsent)
<1>1. /\ Unsent \in Seq(DeliverReq) /\ n \in Nat /\ req \in DeliverReq
      /\ Len(Unsent') = n + 1 /\ Unsent'[n + 1] = req
      /\ \A j \in 1..n : Unsent'[j] = Unsent[j]
  BY UnsentTyped, AppendProperties DEF DeliveryTypeOK
<1>2. \A j \in 1..Len(Unsent') : j \in 1..n \/ j = n + 1
  BY <1>1
<1>3. SentInOrder'
  BY DEF Ordered, SentInOrder
<1>4. ASSUME NEW i \in 1..Len(Unsent'), NEW j \in 1..Len(Unsent'), i < j,
             Unsent'[i][1] = Unsent'[j][1], Unsent'[i][2] = Unsent'[j][2]
      PROVE  Unsent'[i][3] < Unsent'[j][3]
  <2>1. i \in 1..n
    BY <1>1, <1>4
  <2>2. CASE j \in 1..n
    BY <1>1, <1>4, <2>1, <2>2 DEF Ordered
  <2>3. CASE j = n + 1
    BY <1>1, <1>4, <2>1, <2>3 DEF Ordered
  <2> QED
    BY <1>2, <2>2, <2>3
<1>5. ASSUME NEW a \in Address, NEW i \in 1..Len(attempted[a]), NEW j \in 1..Len(Unsent'),
             a = Unsent'[j][1], attempted[a][i][1] = Unsent'[j][2]
      PROVE  attempted[a][i][2] < Unsent'[j][3]
  BY <1>1, <1>2, <1>5, ZenonT(40) DEF Ordered
<1>6. ASSUME NEW r \in to_send'
      PROVE  /\ \A i \in 1..Len(attempted[r[1]]) :
                  attempted[r[1]][i][1] = r[2] => attempted[r[1]][i][2] < r[3]
             /\ \A j \in 1..Len(Unsent') :
                  Unsent'[j][1] = r[1] /\ Unsent'[j][2] = r[2] => Unsent'[j][3] < r[3]
             /\ \A other \in to_send' : other[1] = r[1] => other = r
  <2>1. r \in to_send /\ r[1] # req[1]
    BY DEF Ordered
  <2> QED
    BY <1>1, <1>2, <2>1 DEF Ordered
<1> HIDE DEF n
<1>7. \A i, j \in 1..Len(Unsent') :
        i < j /\ Unsent'[i][1] = Unsent'[j][1] /\ Unsent'[i][2] = Unsent'[j][2] =>
          Unsent'[i][3] < Unsent'[j][3]
  BY <1>4
<1> QED
  BY <1>3, <1>5, <1>6, <1>7 DEF Ordered

-----------------------------------------------------------------------------
(* What has left the queue of a client's name is older than what is in it, *)
(* and than what `notify' will put there.                                  *)

Gone(a, s, id) ==
  \/ \E i \in 1..Len(attempted[a]) : attempted[a][i] = <<s, id>>
  \/ \E j \in 1..Len(Unsent) : Unsent[j] = <<a, s, id>>
  \/ <<a, s, id>> \in to_send

Ahead ==
  \A a \in Address : \A u, s \in Username : \A id \in Nat :
    MayConnect(a, u) /\ Gone(a, s, id) =>
      /\ id <= notif_counter[s]
      /\ \A k \in 1..Len(pending_notifs[u]) :
           pending_notifs[u][k][1] = s => id < pending_notifs[u][k][2]

LEMMA GoneSame ==
  ASSUME Unsent' = Unsent, attempted' = attempted, to_send' \subseteq to_send
  PROVE  \A a \in Address : \A s, id : Gone(a, s, id)' => Gone(a, s, id)
BY DEF Gone

LEMMA GoneSend ==
  ASSUME DeliveryTypeOK, SendHead
  PROVE  \A a \in Address : \A s, id : Gone(a, s, id)' => Gone(a, s, id)
<1> SUFFICES ASSUME NEW a \in Address, NEW s, NEW id, Gone(a, s, id)'
             PROVE  Gone(a, s, id)
  OBVIOUS
<1> DEFINE h == Head(Unsent)
<1>1. /\ Unsent \in Seq(DeliverReq) /\ Len(Unsent) \in Nat \ {0}
      /\ Unsent[1] = h /\ h \in DeliverReq
      /\ Len(Unsent') = Len(Unsent) - 1
      /\ \A j \in 1..Len(Unsent') : Unsent'[j] = Unsent[j + 1] /\ j + 1 \in 1..Len(Unsent)
  BY UnsentTyped, HeadTailProperties DEF SendHead
<1>2. CASE \E j \in 1..Len(Unsent') : Unsent'[j] = <<a, s, id>>
  BY <1>1, <1>2 DEF Gone
<1>3. CASE <<a, s, id>> \in to_send'
  BY <1>3 DEF Gone, SendHead
<1>4. CASE \E i \in 1..Len(attempted'[a]) : attempted'[a][i] = <<s, id>>
  <2>1. PICK i \in 1..Len(attempted'[a]) : attempted'[a][i] = <<s, id>>
    BY <1>4
  <2>2. CASE a # h[1]
    <3>1. attempted'[a] = attempted[a]
      BY <2>2 DEF DeliveryTypeOK, SendHead
    <3> QED
      BY <2>1, <3>1 DEF Gone
  <2>3. CASE a = h[1]
    <3>1. /\ attempted[a] \in Seq(Username \X Nat)
          /\ attempted'[a] = Append(attempted[a], <<h[2], h[3]>>)
      BY <1>1, <2>3 DEF DeliveryTypeOK, DeliverReq, SendHead
    <3> DEFINE n == Len(attempted[a])
    <3>2. /\ n \in Nat /\ Len(attempted'[a]) = n + 1
          /\ \A k \in 1..n : attempted'[a][k] = attempted[a][k]
          /\ attempted'[a][n + 1] = <<h[2], h[3]>>
      BY <3>1, AppendProperties
    <3>3. CASE i \in 1..n
      BY <2>1, <3>2, <3>3 DEF Gone
    <3>4. CASE i = n + 1
      <4>1. s = h[2] /\ id = h[3]
        BY <2>1, <3>2, <3>4
      <4>2. h = <<a, s, id>>
        BY <1>1, <2>3, <4>1 DEF DeliverReq
      <4> QED
        BY <1>1, <4>2 DEF Gone
    <3> QED
      BY <2>1, <3>2, <3>3, <3>4
  <2> QED
    BY <2>2, <2>3
<1> QED
  BY <1>2, <1>3, <1>4 DEF Gone

LEMMA GonePass ==
  ASSUME DeliveryTypeOK, NEW req \in to_send, Unsent' = Append(Unsent, req),
         to_send' = to_send \ {req}, attempted' = attempted
  PROVE  \A a \in Address : \A s, id : Gone(a, s, id)' => Gone(a, s, id)
<1> SUFFICES ASSUME NEW a \in Address, NEW s, NEW id, Gone(a, s, id)'
             PROVE  Gone(a, s, id)
  OBVIOUS
<1> DEFINE n == Len(Unsent)
<1>1. /\ n \in Nat /\ Len(Unsent') = n + 1 /\ Unsent'[n + 1] = req
      /\ \A j \in 1..n : Unsent'[j] = Unsent[j]
  BY UnsentTyped, AppendProperties DEF DeliveryTypeOK
<1>2. CASE \E j \in 1..Len(Unsent') : Unsent'[j] = <<a, s, id>>
  BY <1>1, <1>2 DEF Gone
<1> QED
  BY <1>2 DEF Gone

LEMMA AheadSame ==
  ASSUME Ahead, UNCHANGED <<pending_notifs, notif_counter>>,
         \A a \in Address : \A s, id : Gone(a, s, id)' => Gone(a, s, id)
  PROVE  Ahead'
BY DEF Ahead

LEMMA AheadRecord ==
  ASSUME TypeOK, Ahead, UNCHANGED <<Unsent, attempted, to_send>>,
         NEW sender \in Username, NEW reached \in SUBSET Username, RecordNotif(sender, reached)
  PROVE  Ahead'
<1> DEFINE next == notif_counter[sender] + 1
<1>1. notif_counter' = [notif_counter EXCEPT ![sender] = next] /\ notif_counter \in [Username -> Nat]
  BY DEF RecordNotif, NextId, TypeOK
<1> SUFFICES ASSUME NEW a \in Address, NEW u \in Username, NEW s \in Username, NEW id \in Nat,
                    MayConnect(a, u), Gone(a, s, id)'
             PROVE  /\ id <= notif_counter'[s]
                    /\ \A k \in 1..Len(pending_notifs'[u]) :
                         pending_notifs'[u][k][1] = s => id < pending_notifs'[u][k][2]
  BY DEF Ahead
<1>2. /\ id <= notif_counter[s]
      /\ \A k \in 1..Len(pending_notifs[u]) :
           pending_notifs[u][k][1] = s => id < pending_notifs[u][k][2]
  BY GoneSame DEF Ahead
<1>3. id <= notif_counter'[s]
  BY <1>1, <1>2
<1>4. ASSUME NEW k \in 1..Len(pending_notifs'[u]), pending_notifs'[u][k][1] = s
      PROVE  id < pending_notifs'[u][k][2]
  <2> DEFINE q == pending_notifs[u]
  <2>1. q \in Seq(Username \X Nat)
    BY DEF TypeOK
  <2>2. CASE u \notin reached
    <3>1. pending_notifs'[u] = q
      BY <2>2 DEF RecordNotif
    <3> QED
      BY <1>2, <1>4, <3>1
  <2>3. CASE u \in reached
    <3>1. pending_notifs'[u] = Append(q, <<sender, next>>)
      BY <2>3 DEF RecordNotif, NextId
    <3> HIDE DEF next
    <3>2. /\ Len(q) \in Nat /\ Len(pending_notifs'[u]) = Len(q) + 1
          /\ \A i \in 1..Len(q) : pending_notifs'[u][i] = q[i]
          /\ pending_notifs'[u][Len(q) + 1] = <<sender, next>>
      BY <2>1, <3>1, AppendProperties
    <3>3. CASE k \in 1..Len(q)
      BY <1>2, <1>4, <3>2, <3>3
    <3>4. CASE k = Len(q) + 1
      <4>1. s = sender /\ pending_notifs'[u][k][2] = next
        BY <1>4, <3>2, <3>4
      <4> QED
        BY <1>1, <1>2, <4>1 DEF next
    <3> QED
      BY <3>2, <3>3, <3>4
  <2> QED
    BY <2>2, <2>3
<1> QED
  BY <1>3, <1>4

\* consume_one_notif of a name whose queue holds something.
LEMMA ConsumedHead ==
  ASSUME TypeOK, QueueInv, Consume, NEW u, u = to_be_notif, pending_notifs[u] # <<>>
  PROVE  \E s \in Username, id \in Nat :
           /\ u \in Username /\ pending_notifs[u][1] = <<s, id>> /\ 1 \in 1..Len(pending_notifs[u])
           /\ id <= notif_counter[s]
           /\ to_send' = {<<a, s, id>> : a \in prof_sessions[u]}
           /\ pending_notifs' = [pending_notifs EXCEPT ![u] = Tail(@)]
           /\ UNCHANGED notif_counter
<1> DEFINE q == pending_notifs[u]
<1>1. u \in Username
  BY DEF Consume, TypeOK
<1>2. q \in Seq(Username \X Nat) /\ q # <<>>
  BY <1>1 DEF TypeOK
<1>3. Head(q) = q[1] /\ 1 \in 1..Len(q) /\ q[1] \in Username \X Nat
  BY <1>2, HeadTailProperties
<1>4. /\ to_send' = {<<a, q[1][1], q[1][2]>> : a \in prof_sessions[u]}
      /\ pending_notifs' = [pending_notifs EXCEPT ![u] = Tail(@)]
      /\ UNCHANGED notif_counter
  BY <1>3 DEF Consume, ConsumeOneNotif
<1>5. q[1][1] \in Username /\ q[1][2] \in Nat /\ q[1] = <<q[1][1], q[1][2]>>
  BY <1>3
<1>6. q[1][2] \in 1..notif_counter[q[1][1]] /\ notif_counter[q[1][1]] \in Nat
  BY <1>1, <1>3, <1>5 DEF QueueInv, TypeOK
<1>7. q[1][2] <= notif_counter[q[1][1]]
  BY <1>6
<1> QED
  BY <1>1, <1>3, <1>4, <1>5, <1>7

LEMMA ConsumedNothing ==
  ASSUME Consume, pending_notifs[to_be_notif] = <<>>
  PROVE  to_send' = {} /\ UNCHANGED <<pending_notifs, notif_counter>>
BY DEF Consume, ConsumeOneNotif

LEMMA OrderConsume ==
  ASSUME TypeOK, QueueInv, DeliveryTypeOK, NamesInv, Ordered, Ahead, Consume, to_send = {},
         UNCHANGED <<Unsent, attempted>>
  PROVE  Ordered'
<1>1. CASE pending_notifs[to_be_notif] = <<>>
  BY <1>1, ConsumedNothing, OrderSame
<1>2. CASE pending_notifs[to_be_notif] # <<>>
  <2> DEFINE u == to_be_notif
  <2>1. PICK s \in Username, id \in Nat :
             /\ u \in Username /\ pending_notifs[u][1] = <<s, id>> /\ 1 \in 1..Len(pending_notifs[u])
             /\ to_send' = {<<a, s, id>> : a \in prof_sessions[u]}
    BY <1>2, ConsumedHead
  <2> HIDE DEF u
  <2>2. ASSUME NEW a \in prof_sessions[u]
        PROVE  /\ a \in Address
               /\ \A old \in Nat : Gone(a, s, old) => old < id
    <3>1. a \in Address /\ MayConnect(a, u)
      BY <2>1 DEF TypeOK, NamesInv
    <3> QED
      BY <2>1, <3>1 DEF Ahead
  <2>3. SentInOrder'
    BY DEF Ordered, SentInOrder
  <2>4. ASSUME NEW req \in to_send'
        PROVE  /\ \A i \in 1..Len(attempted[req[1]]) :
                    attempted[req[1]][i][1] = req[2] => attempted[req[1]][i][2] < req[3]
               /\ \A j \in 1..Len(Unsent) :
                    Unsent[j][1] = req[1] /\ Unsent[j][2] = req[2] => Unsent[j][3] < req[3]
               /\ \A other \in to_send' : other[1] = req[1] => other = req
    <3>1. PICK a \in prof_sessions[u] : req = <<a, s, id>>
      BY <2>1
    <3>2. a \in Address
      BY <2>2
    <3>3. ASSUME NEW i \in 1..Len(attempted[a]), attempted[a][i][1] = s
          PROVE  attempted[a][i][2] < id
      <4>1. attempted[a][i] = <<s, attempted[a][i][2]>> /\ attempted[a][i][2] \in Nat
        BY <3>2, <3>3 DEF DeliveryTypeOK
      <4> QED
        BY <2>2, <4>1 DEF Gone
    <3>4. ASSUME NEW j \in 1..Len(Unsent), Unsent[j][1] = a, Unsent[j][2] = s
          PROVE  Unsent[j][3] < id
      <4>1. Unsent[j] = <<a, s, Unsent[j][3]>> /\ Unsent[j][3] \in Nat
        BY <3>4, UnsentTyped DEF DeliverReq
      <4> QED
        BY <2>2, <4>1 DEF Gone
    <3>5. ASSUME NEW other \in to_send', other[1] = a
          PROVE  other = <<a, s, id>>
      BY <2>1, <3>5
    <3> QED
      BY <3>1, <3>3, <3>4, <3>5
  <2> QED
    BY <2>3, <2>4 DEF Ordered
<1> QED
  BY <1>1, <1>2

LEMMA AheadConsume ==
  ASSUME TypeOK, QueueInv, NamesInv, OneName, Ahead, Consume, UNCHANGED <<Unsent, attempted>>
  PROVE  Ahead'
<1>1. CASE pending_notifs[to_be_notif] = <<>>
  BY <1>1, ConsumedNothing, GoneSame, AheadSame
<1>2. CASE pending_notifs[to_be_notif] # <<>>
  <2> DEFINE u == to_be_notif
  <2>1. PICK s \in Username, id \in Nat :
             /\ u \in Username /\ pending_notifs[u][1] = <<s, id>> /\ 1 \in 1..Len(pending_notifs[u])
             /\ id <= notif_counter[s]
             /\ to_send' = {<<a, s, id>> : a \in prof_sessions[u]}
             /\ pending_notifs' = [pending_notifs EXCEPT ![u] = Tail(@)]
             /\ UNCHANGED notif_counter
    BY <1>2, ConsumedHead
  <2> HIDE DEF u
  <2> DEFINE q == pending_notifs[u]
  <2>2. /\ q \in Seq(Username \X Nat) /\ Len(q) \in Nat \ {0}
        /\ pending_notifs'[u] = Tail(q) /\ Len(Tail(q)) = Len(q) - 1
        /\ \A k \in 1..Len(Tail(q)) : Tail(q)[k] = q[k + 1] /\ k + 1 \in 1..Len(q)
        /\ \A v \in Username : v # u => pending_notifs'[v] = pending_notifs[v]
    BY <1>2, <2>1, HeadTailProperties DEF TypeOK
  <2> SUFFICES ASSUME NEW a \in Address, NEW v \in Username, NEW t \in Username, NEW n \in Nat,
                      MayConnect(a, v), Gone(a, t, n)'
               PROVE  /\ n <= notif_counter'[t]
                      /\ \A k \in 1..Len(pending_notifs'[v]) :
                           pending_notifs'[v][k][1] = t => n < pending_notifs'[v][k][2]
    BY DEF Ahead
  <2>3. Gone(a, t, n) \/ (a \in prof_sessions[u] /\ t = s /\ n = id)
    BY <2>1 DEF Gone
  <2>4. CASE Gone(a, t, n)
    <3>1. /\ n <= notif_counter[t]
          /\ \A k \in 1..Len(pending_notifs[v]) :
               pending_notifs[v][k][1] = t => n < pending_notifs[v][k][2]
      BY <2>4 DEF Ahead
    <3>2. CASE v # u
      BY <2>1, <2>2, <3>1, <3>2
    <3>3. CASE v = u
      BY <2>1, <2>2, <3>1, <3>3
    <3> QED
      BY <3>2, <3>3
  <2>5. CASE a \in prof_sessions[u] /\ t = s /\ n = id
    <3>1. v = u
      BY <2>1, <2>5 DEF NamesInv, OneName
    <3>2. \A k \in 1..Len(Tail(q)) : Tail(q)[k][1] = s => id < Tail(q)[k][2]
      <4> SUFFICES ASSUME NEW k \in 1..Len(Tail(q)), Tail(q)[k][1] = s
                   PROVE  id < Tail(q)[k][2]
        OBVIOUS
      <4>1. Tail(q)[k] = q[k + 1] /\ k + 1 \in 1..Len(q) /\ 1 \in 1..Len(q) /\ 1 < k + 1
        BY <2>1, <2>2
      <4>2. q[1][1] = s /\ q[1][2] = id
        BY <2>1
      <4> QED
        BY <2>1, <4>1, <4>2 DEF QueueInv, QueueInOrder
    <3> QED
      BY <2>1, <2>2, <2>5, <3>1, <3>2
  <2> QED
    BY <2>3, <2>4, <2>5
<1> QED
  BY <1>1, <1>2

-----------------------------------------------------------------------------
(* The notification manager consumes with empty hands only.                *)

HandInv == to_send # {} => notif_manager = "delivering"

LEMMA HandStep ==
  ASSUME TypeOK, RequestsInv, HandInv, [ServerNext]_serverVars
  PROVE  HandInv'
<1> USE DEF HandInv
<1>1. CASE CommNotif \/ CommReq
  BY <1>1 DEF CommNotif, SendDeliver, EndCommNotif, CommNotifStep, CommReq, PassOn, EndCommReq,
     CommReqStep, vars, channelVars, managerVars
<1>2. CASE ServeReq
  <2>1. UNCHANGED notif_manager
    BY <1>2, HeadReq DEF ServeReq, Serve, Connect, Disconnect, Follow, Notify, RecordNotif,
       RequestBody, RequestsInv, vars, channelVars, managerVars
  <2> QED
    BY <1>2, <2>1 DEF ServeReq, ProfStep
<1>3. CASE Answer \/ InterruptedServe \/ EndProf
  BY <1>3 DEF Answer, InterruptedServe, EndProf, ProfStep, NotifyInterrupted, RecordNotif, Shutdown,
     vars, channelVars, managerVars
<1>4. CASE EndPersister
  BY <1>4 DEF EndPersister, commVars, vars, channelVars, managerVars
<1>5. CASE ReceiveWakeup
  BY <1>5 DEF ReceiveWakeup, TakeWakeup, Taken
<1>6. CASE Consume
  <2>1. CASE pending_notifs[to_be_notif] = <<>>
    BY <1>6, <2>1, ConsumedNothing
  <2>2. CASE pending_notifs[to_be_notif] # <<>> /\ prof_sessions[to_be_notif] = {}
    BY <1>6, <2>2 DEF Consume
  <2>3. CASE pending_notifs[to_be_notif] # <<>> /\ prof_sessions[to_be_notif] # {}
    BY <1>6, <2>3 DEF Consume, ConsumeOneNotif
  <2> QED
    BY <2>1, <2>2, <2>3
<1>7. CASE PassDelivery
  BY <1>7 DEF PassDelivery, vars, channelVars, managerVars
<1>8. CASE EndNotif
  BY <1>8 DEF EndNotif, vars, channelVars, managerVars
<1>9. CASE Main
  BY <1>9 DEF Main, MainGoesOn, Start, StopWaiting, MainCuts, MainCutsNotif, MainDisconnects,
     MainJoins, Return,
     MainStep, DisconnectDeliveries, DisconnectWakeups, commVars, vars, channelVars, managerVars
<1>10. CASE Environment \/ UNCHANGED serverVars
  BY <1>10 DEF Environment, Interrupt, CallEnds, ClientSends, LateRequest, StrayDisconnect,
     GiveUpClient, EnvironmentStep,
     serverVars, commVars, vars, channelVars, managerVars
<1> QED
  BY <1>1, <1>2, <1>3, <1>4, <1>5, <1>6, <1>7, <1>8, <1>9, <1>10 DEF ServerNext, Prof, Notif

-----------------------------------------------------------------------------
(* One step of the server.                                                 *)

OrderInv == OneName /\ NamesInv /\ HandInv /\ Ordered /\ Ahead

LEMMA OrderInitially == OneName /\ ServerInit => OrderInv
<1> SUFFICES ASSUME OneName, ServerInit
             PROVE  OrderInv
  OBVIOUS
<1>1. /\ Unsent = <<>> /\ to_send = {}
      /\ \A a \in Address : attempted[a] = <<>>
      /\ \A u \in Username : pending_notifs[u] = <<>>
  BY DEF ServerInit, Init, Unsent
<1>2. Ordered
  BY <1>1 DEF Ordered, SentInOrder
<1>3. Ahead
  BY <1>1 DEF Ahead, Gone
<1> QED
  BY <1>1, <1>2, <1>3, NamesInitially DEF OrderInv, HandInv

LEMMA UnsentEnded ==
  ASSUME DeliveryTypeOK, comm_notif = "waiting", CallEnded
  PROVE  Unsent' = Unsent
BY DeliveryCallEnded DEF Unsent

LEMMA UnsentMissed ==
  ASSUME DeliveryTypeOK, NEW gone, CallMissed(gone)
  PROVE  Unsent' = Unsent
<1>1. CASE comm_notif = "waiting" /\ Head(notif_to_comm)[1] \in gone
  BY <1>1, UnsentEnded DEF CallMissed
<1>2. CASE ~(comm_notif = "waiting" /\ Head(notif_to_comm)[1] \in gone)
  BY <1>2 DEF CallMissed, Unsent
<1> QED
  BY <1>1, <1>2

\* A step that neither sends, passes on nor consumes.
Elsewhere == UNCHANGED <<Unsent, attempted>> /\ to_send' \subseteq to_send

LEMMA OrderElsewhere ==
  ASSUME Ordered, Ahead, Elsewhere, UNCHANGED <<pending_notifs, notif_counter>>
  PROVE  Ordered' /\ Ahead'
BY OrderSame, GoneSame, AheadSame DEF Elsewhere

\* What `notify' does between the two.
LEMMA OrderRecord ==
  ASSUME TypeOK, Ordered, Ahead, UNCHANGED <<Unsent, attempted, to_send>>,
         NEW sender \in Username, NEW reached \in SUBSET Username, RecordNotif(sender, reached)
  PROVE  Ordered' /\ Ahead'
BY OrderSame, AheadRecord

LEMMA OrderServe ==
  ASSUME TypeOK, RequestsInv, Ordered, Ahead, ServeReq \/ InterruptedServe
  PROVE  Ordered' /\ Ahead'
<1>1. UNCHANGED <<Unsent, attempted, to_send>>
  BY DEF ServeReq, InterruptedServe, ProfStep, Unsent
<1>2. CASE \E client \in Address : Notify(client)
  <2>1. PICK client \in Address : Notify(client)
    BY <1>2
  <2>2. sessions[client] \in Username /\ followers[sessions[client]] \in SUBSET Username
        /\ RecordNotif(sessions[client], followers[sessions[client]])
    BY <2>1 DEF Notify, TypeOK
  <2> QED
    BY <1>1, <2>2, OrderRecord
<1>3. CASE \E client \in Address, reached \in SUBSET Username : NotifyInterrupted(client, reached)
  <2>1. PICK client \in Address, reached \in SUBSET Username : NotifyInterrupted(client, reached)
    BY <1>3
  <2>2. sessions[client] \in Username /\ RecordNotif(sessions[client], reached)
    BY <2>1 DEF NotifyInterrupted, TypeOK
  <2> QED
    BY <1>1, <2>2, OrderRecord
<1>4. CASE UNCHANGED <<pending_notifs, notif_counter>>
  BY <1>1, <1>4, OrderElsewhere DEF Elsewhere
<1>5. CASE ServeReq
  <2> DEFINE client == Head(comm_to_prof).client
             body == Head(comm_to_prof).body
  <2>1. client \in Address /\ body \in RequestBody /\ Serve(client, body)
    BY <1>5, HeadReq DEF ServeReq, RequestsInv
  <2> HIDE DEF client, body
  <2>2. Notify(client) \/ UNCHANGED <<pending_notifs, notif_counter>>
    BY <2>1 DEF Serve, RequestBody, Connect, Disconnect, Follow, vars, memoryVars
  <2> QED
    BY <1>2, <1>4, <2>1, <2>2
<1>6. CASE InterruptedServe
  <2>1. Head(comm_to_prof).client \in Address
    BY <1>6, HeadReq DEF InterruptedServe, RequestsInv
  <2> QED
    BY <1>3, <1>6, <2>1 DEF InterruptedServe
<1> QED
  BY <1>5, <1>6

LEMMA OrderSent ==
  ASSUME DeliveryTypeOK, Ordered, Ahead, SendDeliver
  PROVE  Ordered' /\ Ahead'
<1>1. /\ comm_notif = "receiving" /\ notif_to_comm # <<>>
      /\ UNCHANGED <<to_send, pending_notifs, notif_counter>>
      /\ \/ comm_notif' = "waiting" /\ notif_to_comm' = notif_to_comm
         \/ comm_notif' = "receiving" /\ notif_to_comm' = Tail(notif_to_comm)
  BY DEF SendDeliver, CommNotifStep, CallEnded, vars, memoryVars
<1>2. Unsent = notif_to_comm /\ Unsent' = Tail(notif_to_comm)
  BY <1>1 DEF Unsent
<1>3. attempted' = [attempted EXCEPT ![Head(Unsent)[1]] =
                      Append(@, <<Head(Unsent)[2], Head(Unsent)[3]>>)]
  BY <1>2 DEF SendDeliver
<1> QED
  BY <1>1, <1>2, <1>3, OrderSend, GoneSend, AheadSame DEF SendHead

LEMMA OrderPassed ==
  ASSUME DeliveryTypeOK, Ordered, Ahead, PassDelivery
  PROVE  Ordered' /\ Ahead'
<1>1. UNCHANGED <<comm_notif, attempted, pending_notifs, notif_counter>>
  BY DEF PassDelivery, NotifStep, Deliver, clientVars, vars, memoryVars
<1>2. \/ to_send' = {} /\ notif_to_comm' = notif_to_comm
      \/ \E req \in to_send : to_send' = to_send \ {req} /\ notif_to_comm' = Append(notif_to_comm, req)
  BY DEF PassDelivery, Enqueued
<1>3. CASE to_send' = {} /\ notif_to_comm' = notif_to_comm
  BY <1>1, <1>3, OrderElsewhere DEF Elsewhere, Unsent
<1>4. ASSUME NEW req \in to_send, to_send' = to_send \ {req},
             notif_to_comm' = Append(notif_to_comm, req)
      PROVE  Ordered' /\ Ahead'
  <2>1. notif_to_comm \in Seq(DeliverReq) /\ req \in DeliverReq
        /\ (comm_notif = "waiting" => notif_to_comm # <<>>)
    BY DEF DeliveryTypeOK
  <2>2. notif_to_comm # <<>> => Tail(Append(notif_to_comm, req)) = Append(Tail(notif_to_comm), req)
    BY <2>1
  <2>3. Unsent' = Append(Unsent, req)
    BY <1>1, <1>4, <2>1, <2>2 DEF Unsent
  <2> QED
    BY <1>1, <1>4, <2>3, OrderPass, GonePass, AheadSame
<1> QED
  BY <1>2, <1>3, <1>4

LEMMA OrderConsumed ==
  ASSUME TypeOK, QueueInv, DeliveryTypeOK, OrderInv, Consume
  PROVE  Ordered' /\ Ahead'
<1>1. UNCHANGED <<Unsent, attempted>> /\ to_send = {}
  <2>1. notif_manager = "consuming"
    BY DEF Consume, ConsumeOneNotif
  <2> QED
    BY <2>1 DEF Consume, NotifStep, Unsent, OrderInv, HandInv, clientVars
<1> QED
  BY <1>1, OrderConsume, AheadConsume DEF OrderInv

LEMMA OrderAction ==
  ASSUME TypeOK, QueueInv, RequestsInv, DeliveryTypeOK, OrderInv, [ServerNext]_serverVars
  PROVE  Ordered' /\ Ahead'
<1>0. Ordered /\ Ahead
  BY DEF OrderInv
<1>1. CASE SendDeliver
  BY <1>0, <1>1, OrderSent
<1>2. CASE ServeReq \/ InterruptedServe
  BY <1>0, <1>2, OrderServe
<1>3. CASE Consume
  BY <1>3, OrderConsumed
<1>4. CASE PassDelivery
  BY <1>0, <1>4, OrderPassed
<1>5. CASE EndCommNotif \/ PassOn \/ Answer \/ EndProf \/ EndPersister \/ ReceiveWakeup \/ EndNotif
  <2>1. UNCHANGED <<comm_notif, notif_to_comm, attempted, to_send>>
    BY <1>5 DEF EndCommNotif, CommNotifStep, PassOn, CommReqStep, Answer, EndProf, ProfStep,
       EndPersister, ReceiveWakeup, EndNotif, NotifStep, processVars, commVars, clientVars
  <2>2. UNCHANGED <<pending_notifs, notif_counter>>
    BY <1>5 DEF EndCommNotif, CommNotifStep, PassOn, CommReqStep, Answer, EndProf, Shutdown,
       EndPersister, ReceiveWakeup, TakeWakeup, Taken, EndNotif, vars, memoryVars
  <2> QED
    BY <1>0, <2>1, <2>2, OrderElsewhere DEF Elsewhere, Unsent
<1>6. CASE EndCommReq \/ MainDisconnects
  <2>1. UNCHANGED <<attempted, to_send, pending_notifs, notif_counter>>
    BY <1>6 DEF EndCommReq, CommReqStep, MainDisconnects, MainStep, clientVars, vars, memoryVars
  <2>2. Unsent' = Unsent
    BY <1>6, UnsentMissed DEF EndCommReq, MainDisconnects
  <2> QED
    BY <1>0, <2>1, <2>2, OrderElsewhere DEF Elsewhere
<1>7. CASE Start \/ StopWaiting \/ MainCuts \/ MainCutsNotif \/ MainJoins \/ Return
  <2>1. UNCHANGED <<comm_notif, notif_to_comm, attempted, to_send>>
    BY <1>7 DEF Start, StopWaiting, MainCuts, MainCutsNotif, MainJoins, Return, MainStep, commVars,
       clientVars
  <2>2. UNCHANGED <<pending_notifs, notif_counter>>
    BY <1>7 DEF Start, StopWaiting, MainCuts, MainCutsNotif, MainJoins, Return,
       DisconnectDeliveries, DisconnectWakeups, vars, memoryVars
  <2> QED
    BY <1>0, <2>1, <2>2, OrderElsewhere DEF Elsewhere, Unsent
<1>8. CASE Environment
  <2>1. UNCHANGED <<attempted, to_send, pending_notifs, notif_counter>>
    BY <1>8 DEF Environment, Interrupt, CallEnds, ClientSends, LateRequest, StrayDisconnect,
       GiveUpClient, EnvironmentStep, vars,
       memoryVars
  <2>2. Unsent' = Unsent
    <3>1. CASE Interrupt \/ \E a \in Address : ClientSends(a) \/ LateRequest(a)
      BY <3>1 DEF Interrupt, ClientSends, LateRequest, Unsent
    <3>2. CASE CallEnds
      BY <3>2, UnsentEnded DEF CallEnds
    <3>3. CASE \E a \in Address : StrayDisconnect(a) \/ GiveUpClient(a)
      BY <3>3, UnsentMissed DEF StrayDisconnect, GiveUpClient
    <3> QED
      BY <1>8, <3>1, <3>2, <3>3, LossyAssumption DEF Environment
  <2> QED
    BY <1>0, <2>1, <2>2, OrderElsewhere DEF Elsewhere
<1>9. CASE UNCHANGED serverVars
  BY <1>0, <1>9, OrderElsewhere DEF Elsewhere, Unsent, serverVars, processVars, commVars,
     clientVars,
     vars, memoryVars
<1> QED
  BY <1>1, <1>2, <1>3, <1>4, <1>5, <1>6, <1>7, <1>8, <1>9
  DEF ServerNext, CommNotif, CommReq, Prof, Notif, Main, MainGoesOn

LEMMA OrderStep ==
  ASSUME TypeOK, QueueInv, RequestsInv, DeliveryTypeOK, OrderInv, [ServerNext]_serverVars
  PROVE  OrderInv'
<1>1. NamesInv' /\ HandInv'
  BY NamesStep, HandStep DEF OrderInv
<1>2. OneName'
  BY DEF OrderInv, OneName, MayConnect
<1> QED
  BY <1>1, <1>2, OrderAction DEF OrderInv

(* Clients are sent the notifications of one sender in the order in which  *)
(* they were accepted, and none twice, when no client connects under a     *)
(* second name: also when sessions and connections come and go meanwhile,  *)
(* and while the server shuts down.                                        *)
THEOREM SentInOrderCorrect == OneName /\ ServerSpec => []SentInOrder
<1>1. ServerSpec => []QueueInv
  BY TableImplemented, QueueCorrect
<1>2. OrderInv => SentInOrder
  BY DEF OrderInv, Ordered
<1>3. RequestsInv /\ TypeOK /\ DeliveryTypeOK /\ QueueInv /\ OrderInv /\ [ServerNext]_serverVars
        => OrderInv'
  BY OrderStep
<1> QED
  BY <1>1, <1>2, <1>3, OrderInitially, AlwaysTyped, PTL DEF ServerSpec
-----------------------------------------------------------------------------
(* Codes.                                                                  *)

\* A code that both sides have: its position in the enumeration.
Knows(names, known, name) ==
  /\ name \in known /\ \E i \in DOMAIN names : names[i] = name
  /\ DOMAIN names = 1..Len(names) /\ Len(names) \in Nat

LEMMA CodeAsInt ==
  ASSUME NEW names, NEW known, NEW name, Knows(names, known, name)
  PROVE  \E n \in Nat : /\ WriteCode(names, name) = WriteInt(n)
                        /\ names[n + 1] = name /\ n < Len(names)
<1> DEFINE code == CHOOSE i \in DOMAIN names : names[i] = name
<1>1. code \in DOMAIN names /\ names[code] = name
  BY Zenon DEF Knows
<1>2. WriteCode(names, name) = WriteInt(code - 1)
  BY Zenon DEF WriteCode
<1> HIDE DEF code
<1>3. code - 1 \in Nat /\ (code - 1) + 1 = code /\ code - 1 < Len(names)
  <2>1. DOMAIN names = 1..Len(names) /\ Len(names) \in Nat
    BY Zenon DEF Knows
  <2> QED
    BY <1>1, <2>1
<1> QED
  BY <1>1, <1>2, <1>3, Zenon

LEMMA WriteCodeType ==
  ASSUME NEW C, HasOwn(C), NEW names, NEW known, NEW name,
         Knows(names, known, name)
  PROVE  WriteCode(names, name) \in Seq(C)
<1>1. PICK n \in Nat : WriteCode(names, name) = WriteInt(n)
  BY CodeAsInt, Zenon
<1> QED
  BY <1>1, WriteIntType

LEMMA CodeReadBack ==
  ASSUME NEW C, HasOwn(C), NEW names, NEW known, NEW name,
         Knows(names, known, name), NEW text \in Seq(C), NEW at \in Nat \ {0},
         At(text, at, WriteCode(names, name))
  PROVE  /\ ReadCode(names, known, text, at) = Got(name, at + Len(WriteCode(names, name)))
         /\ at + Len(WriteCode(names, name)) \in Nat \ {0}
<1>1. PICK n \in Nat : /\ WriteCode(names, name) = WriteInt(n)
                      /\ names[n + 1] = name /\ n < Len(names)
  BY CodeAsInt
<1>2. At(text, at, WriteInt(n))
  BY <1>1, Zenon
<1>3. ReadInt(text, at) = Got(n, at + Len(WriteInt(n))) /\ at + Len(WriteInt(n)) \in Nat \ {0}
  BY <1>2, IntReadBack
<1> DEFINE read == ReadInt(text, at)
<1>4. ~read.error /\ read.value = n /\ read.next = at + Len(WriteInt(n))
  BY <1>3, GotFields
<1>5. name \in known
  BY DEF Knows
<1>6. ReadCode(names, known, text, at) = Got(name, at + Len(WriteInt(n)))
  BY <1>1, <1>4, <1>5, Zenon DEF ReadCode
<1> QED
  BY <1>1, <1>3, <1>6, Zenon

-----------------------------------------------------------------------------
(* The fields of a body.                                                   *)

\* Of which a datagram is made.
DatagramChars == {";", "\\", "@"} \cup DigitChars \cup Username \cup Character

LEMMA DatagramCharsOwn == HasOwn(DatagramChars)
BY DEF DatagramChars, HasOwn, HasMarks

FieldNames == {"username", "notif_message", "sent_at", "error"}

\* What a field may hold.
FieldValues(field) ==
  CASE field = "username" -> Username
    [] field = "notif_message" -> Seq(Character) \ {<<>>}
    [] field = "sent_at" -> Nat
    [] field = "error" -> KnownErrors

LEMMA ErrorKnown ==
  ASSUME NEW e \in KnownErrors
  PROVE  Knows(Errors, KnownErrors, e)
<1>1. Len(Errors) = 8
  BY DEF Errors
<1>2. DOMAIN Errors = 1..8
  BY DEF Errors
<1>3. \E i \in 1..8 : Errors[i] = e
  BY DEF KnownErrors, Errors
<1>4. 8 \in Nat
  OBVIOUS
<1> QED
  BY <1>1, <1>2, <1>3, <1>4, Zenon DEF Knows

LEMMA FieldReadBack ==
  ASSUME NEW field \in FieldNames, NEW value \in FieldValues(field)
  PROVE  /\ WriteField(field, value) \in Seq(DatagramChars)
         /\ \A text \in Seq(DatagramChars) : \A at \in Nat \ {0} :
              At(text, at, WriteField(field, value)) =>
                /\ ReadField(field, text, at) = Got(value, at + Len(WriteField(field, value)))
                /\ at + Len(WriteField(field, value)) \in Nat \ {0}
<1> DEFINE C == DatagramChars
<1>0. HasOwn(C) /\ HasMarks(C)
  BY DatagramCharsOwn DEF HasOwn
<1> HIDE DEF C
<1>1. CASE field = "username"
  <2>1. value \in Username
    BY <1>1, Zenon DEF FieldValues
  <2>2. /\ WriteField(field, value) = WriteUsername(value)
        /\ \A text, at : ReadField(field, text, at) = ReadUsername(text, at)
    BY <1>1, Zenon DEF WriteField, ReadField
  <2>3. WriteUsername(value) \in Seq(C)
    BY <1>0, <2>1, WriteUsernameType
  <2>4. ASSUME NEW text \in Seq(C), NEW at \in Nat \ {0}, At(text, at, WriteUsername(value))
        PROVE  /\ ReadUsername(text, at) = Got(value, at + Len(WriteUsername(value)))
               /\ at + Len(WriteUsername(value)) \in Nat \ {0}
    BY <1>0, <2>1, <2>4, UsernameReadBack
  <2> QED
    BY <2>2, <2>3, <2>4, Zenon DEF C
<1>2. CASE field = "notif_message"
  <2>1. value \in Seq(Character) \ {<<>>}
    BY <1>2, Zenon DEF FieldValues
  <2>2. /\ WriteField(field, value) = WriteString(value)
        /\ \A text, at : ReadField(field, text, at) =
             IF ReadString(text, at).error THEN Error
             ELSE IF ReadString(text, at).value = <<>> THEN Error ELSE ReadString(text, at)
    BY <1>2, Zenon DEF WriteField, ReadField
  <2>3. value \in Seq(C) /\ value # <<>>
    <3>1. Character \subseteq C
      BY DEF C, DatagramChars
    <3> QED
      BY <2>1, <3>1
  <2>4. WriteString(value) \in Seq(C)
    BY <1>0, <2>3, WriteStringType
  <2>5. ASSUME NEW text \in Seq(C), NEW at \in Nat \ {0}, At(text, at, WriteString(value))
        PROVE  /\ ReadField(field, text, at) = Got(value, at + Len(WriteString(value)))
               /\ at + Len(WriteString(value)) \in Nat \ {0}
    <3>1. /\ ReadString(text, at) = Got(value, at + Len(WriteString(value)))
          /\ at + Len(WriteString(value)) \in Nat \ {0}
      BY <1>0, <2>3, <2>5, StringReadBack
    <3> DEFINE read == ReadString(text, at)
    <3>2. ~read.error /\ read.value = value
      BY <3>1, GotFields
    <3> QED
      BY <2>2, <2>3, <3>1, <3>2, Zenon
  <2> QED
    BY <2>2, <2>4, <2>5, Zenon DEF C
<1>3. CASE field = "sent_at"
  <2>1. value \in Nat
    BY <1>3, Zenon DEF FieldValues
  <2>2. /\ WriteField(field, value) = WriteInt(value)
        /\ \A text, at : ReadField(field, text, at) = ReadInt(text, at)
    BY <1>3, Zenon DEF WriteField, ReadField
  <2>3. WriteInt(value) \in Seq(C)
    BY <1>0, <2>1, WriteIntType
  <2>4. ASSUME NEW text \in Seq(C), NEW at \in Nat \ {0}, At(text, at, WriteInt(value))
        PROVE  /\ ReadInt(text, at) = Got(value, at + Len(WriteInt(value)))
               /\ at + Len(WriteInt(value)) \in Nat \ {0}
    BY <1>0, <2>1, <2>4, IntReadBack
  <2> QED
    BY <2>2, <2>3, <2>4, Zenon DEF C
<1>4. CASE field = "error"
  <2>1. Knows(Errors, KnownErrors, value)
    <3>1. value \in KnownErrors
      BY <1>4, Zenon DEF FieldValues
    <3> QED
      BY <3>1, ErrorKnown
  <2>2. /\ WriteField(field, value) = WriteCode(Errors, value)
        /\ \A text, at : ReadField(field, text, at) = ReadCode(Errors, KnownErrors, text, at)
    BY <1>4, Zenon DEF WriteField, ReadField
  <2>3. WriteCode(Errors, value) \in Seq(C)
    BY <1>0, <2>1, WriteCodeType
  <2>4. ASSUME NEW text \in Seq(C), NEW at \in Nat \ {0}, At(text, at, WriteCode(Errors, value))
        PROVE  /\ ReadCode(Errors, KnownErrors, text, at) =
                    Got(value, at + Len(WriteCode(Errors, value)))
               /\ at + Len(WriteCode(Errors, value)) \in Nat \ {0}
    BY <1>0, <2>1, <2>4, CodeReadBack
  <2> QED
    BY <2>2, <2>3, <2>4, Zenon DEF C
<1> QED
  BY <1>1, <1>2, <1>3, <1>4 DEF FieldNames

-----------------------------------------------------------------------------
(* ReadBody, one field at a time.                                          *)

WithField(read, field, text) ==
  LET got == ReadField(field, text, read.next)
  IN IF read.error \/ got.error THEN Error
     ELSE Got([f \in DOMAIN read.value \cup {field} |->
                 IF f = field THEN got.value ELSE read.value[f]], got.next)

AreBodies(b, n, fields, text, at) ==
  b = [k \in 0..n |-> IF k = 0 THEN Got(<<>>, at) ELSE WithField(b[k - 1], fields[k], text)]

LEMMA BodiesExist ==
  ASSUME NEW size \in Nat, NEW fields, NEW text, NEW at
  PROVE  \E b : AreBodies(b, size, fields, text, at)
<1> DEFINE S == {k \in 0..size : \E b : AreBodies(b, k, fields, text, at)}
<1>1. 0 \in S
  <2> DEFINE b == [n \in 0..0 |-> Got(<<>>, at)]
  <2>1. \A n \in 0..0 : n = 0
    OBVIOUS
  <2>2. AreBodies(b, 0, fields, text, at)
    BY <2>1, Zenon DEF AreBodies
  <2> HIDE DEF b
  <2> QED
    BY <2>2
<1>2. ASSUME NEW k \in 0..size, k \in S, k < size
      PROVE  k + 1 \in S
  <2>1. PICK b : AreBodies(b, k, fields, text, at)
    BY <1>2
  <2> DEFINE c == [n \in 0..(k + 1) |-> IF n = k + 1 THEN WithField(b[k], fields[k + 1], text) ELSE b[n]]
  <2>2. ASSUME NEW n \in 0..(k + 1)
        PROVE  c[n] = IF n = 0 THEN Got(<<>>, at) ELSE WithField(c[n - 1], fields[n], text)
    <3>1. CASE n = k + 1
      <4>1. n # 0 /\ n - 1 = k /\ k \in 0..(k + 1) /\ k # k + 1
        BY <3>1
      <4>2. c[n - 1] = b[k]
        BY <4>1, Zenon
      <4> QED
        BY <3>1, <4>1, <4>2, Zenon
    <3>2. CASE n # k + 1
      <4>1. n \in 0..k /\ (n # 0 => n - 1 \in 0..(k + 1) /\ n - 1 # k + 1)
        BY <3>2
      <4>2. c[n] = b[n] /\ (n # 0 => c[n - 1] = b[n - 1])
        BY <3>2, <4>1, Zenon
      <4>3. b[n] = IF n = 0 THEN Got(<<>>, at) ELSE WithField(b[n - 1], fields[n], text)
        BY <2>1, <4>1, Zenon DEF AreBodies
      <4> QED
        BY <4>2, <4>3, Zenon
    <3> QED
      BY <3>1, <3>2
  <2>3. c = [n \in 0..(k + 1) |-> c[n]]
    OBVIOUS
  <2> HIDE DEF c
  <2>4. AreBodies(c, k + 1, fields, text, at)
    BY <2>2, <2>3, Zenon DEF AreBodies
  <2>5. k + 1 \in 0..size
    BY <1>2
  <2> QED
    BY <2>4, <2>5
<1> HIDE DEF S
<1>3. 0..size \subseteq S
  BY <1>1, <1>2, SetInduction
<1>4. size \in 0..size
  OBVIOUS
<1> QED
  BY <1>3, <1>4 DEF S

\* The body read so far.
BodySoFar(b, fields, text, at) ==
  /\ b[0] = Got(<<>>, at) /\ b[Len(fields)] = ReadBody(fields, text, at)
  /\ \A k \in 1..Len(fields) : b[k] = WithField(b[k - 1], fields[k], text)

LEMMA ReadBodySteps ==
  ASSUME NEW fields, Len(fields) \in Nat, NEW text, NEW at
  PROVE  \E b : BodySoFar(b, fields, text, at)
<1> DEFINE b == CHOOSE b : AreBodies(b, Len(fields), fields, text, at)
<1>1. AreBodies(b, Len(fields), fields, text, at)
  <2> HIDE DEF b
  <2> QED
    BY BodiesExist DEF b
<1>2. ReadBody(fields, text, at) = b[Len(fields)]
  BY Zenon DEF ReadBody, AreBodies, WithField
<1> HIDE DEF b
<1>3. 0 \in 0..Len(fields) /\ \A k \in 1..Len(fields) : k \in 0..Len(fields) /\ k # 0
  OBVIOUS
<1>4. /\ b[0] = Got(<<>>, at)
      /\ \A k \in 1..Len(fields) : b[k] = WithField(b[k - 1], fields[k], text)
  BY <1>1, <1>3, Zenon DEF AreBodies
<1>5. BodySoFar(b, fields, text, at)
  BY <1>2, <1>4, Zenon DEF BodySoFar
<1> QED
  BY <1>5, Zenon

\* The body, as far as these fields go.
Part(body, T) == [f \in T |-> body[f]]

LEMMA PartNone ==
  ASSUME NEW body
  PROVE  Part(body, {}) = <<>>
BY DEF Part

LEMMA WithFieldReadBack ==
  ASSUME NEW body, NEW T, NEW field \in FieldNames, body[field] \in FieldValues(field),
         NEW text \in Seq(DatagramChars), NEW at \in Nat \ {0},
         At(text, at, WriteField(field, body[field])),
         NEW read, read = Got(Part(body, T), at)
  PROVE  WithField(read, field, text) =
           Got(Part(body, T \cup {field}), at + Len(WriteField(field, body[field])))
<1> DEFINE next == at + Len(WriteField(field, body[field]))
           got == ReadField(field, text, at)
<1>1. got = Got(body[field], next)
  BY FieldReadBack
<1>2. ~got.error /\ got.value = body[field] /\ got.next = next
  <2> HIDE DEF got, next
  <2> QED
    BY <1>1, GotFields
<1>3. ~read.error /\ read.value = Part(body, T) /\ read.next = at
  <2> HIDE DEF next
  <2> QED
    BY GotFields
<1>4. DOMAIN Part(body, T) = T
  BY DEF Part
<1>5. \A f \in T : Part(body, T)[f] = body[f]
  BY DEF Part
<1> DEFINE whole == [f \in T \cup {field} |-> IF f = field THEN body[field] ELSE Part(body, T)[f]]
<1>6. whole = Part(body, T \cup {field})
  <2>1. \A f \in T \cup {field} :
          (IF f = field THEN body[field] ELSE Part(body, T)[f]) = body[f]
    BY <1>5, Zenon
  <2> QED
    BY <2>1, Zenon DEF Part
<1>7. WithField(read, field, text) = Got(whole, next)
  <2> HIDE DEF next
  <2> QED
    BY <1>2, <1>3, <1>4, Zenon DEF WithField
<1> HIDE DEF whole
<1> QED
  BY <1>6, <1>7, Zenon

WriteBody(fields, body) ==
  Concat([i \in 1..Len(fields) |-> WriteField(fields[i], body[fields[i]])])

HasFields(body, fields) ==
  /\ Len(fields) \in Nat
  /\ \A i \in 1..Len(fields) :
       fields[i] \in FieldNames /\ body[fields[i]] \in FieldValues(fields[i])

LEMMA WriteBodyType ==
  ASSUME NEW fields, NEW body, HasFields(body, fields)
  PROVE  /\ [i \in 1..Len(fields) |-> WriteField(fields[i], body[fields[i]])]
              \in [1..Len(fields) -> Seq(DatagramChars)]
         /\ WriteBody(fields, body) \in Seq(DatagramChars)
<1> DEFINE parts == [i \in 1..Len(fields) |-> WriteField(fields[i], body[fields[i]])]
           n == Len(fields)
<1>1. n \in Nat
  BY DEF HasFields
<1>2. ASSUME NEW i \in 1..n
      PROVE  WriteField(fields[i], body[fields[i]]) \in Seq(DatagramChars)
  <2>1. fields[i] \in FieldNames /\ body[fields[i]] \in FieldValues(fields[i])
    BY DEF HasFields
  <2> QED
    BY <2>1, FieldReadBack
<1>3. parts \in [1..n -> Seq(DatagramChars)]
  BY <1>2
<1> HIDE DEF parts, n
<1>4. Concat(parts) \in Seq(DatagramChars)
  BY <1>1, <1>3, ConcatType
<1> QED
  BY <1>3, <1>4, Zenon DEF parts, n, WriteBody

LEMMA BodyReadBack ==
  ASSUME NEW fields, NEW body, HasFields(body, fields),
         NEW text \in Seq(DatagramChars), NEW at \in Nat \ {0},
         At(text, at, WriteBody(fields, body))
  PROVE  /\ ReadBody(fields, text, at) =
              Got(Part(body, {fields[i] : i \in 1..Len(fields)}),
                  at + Len(WriteBody(fields, body)))
         /\ at + Len(WriteBody(fields, body)) \in Nat \ {0}
<1> DEFINE n == Len(fields)
           parts == [i \in 1..n |-> WriteField(fields[i], body[fields[i]])]
           end == at + Len(WriteBody(fields, body))
<1>1. n \in Nat
  BY DEF HasFields
<1>2. \A i \in 1..n :
        fields[i] \in FieldNames /\ body[fields[i]] \in FieldValues(fields[i])
  BY Zenon DEF HasFields
<1>3. parts \in [1..n -> Seq(DatagramChars)]
  BY WriteBodyType
<1>4. \A i \in 1..n : parts[i] = WriteField(fields[i], body[fields[i]])
  OBVIOUS
<1>5. WriteBody(fields, body) = Concat(parts)
  BY Zenon DEF WriteBody
<1>6. PICK b : BodySoFar(b, fields, text, at)
  BY <1>1, ReadBodySteps
<1> HIDE DEF parts
<1>7. PICK pos \in [0..n -> Nat \ {0}] : ArePositions(pos, n, parts, text, at)
  <2>1. At(text, at, Concat(parts))
    BY <1>5, Zenon
  <2> HIDE DEF n
  <2> QED
    BY <1>1, <1>3, <2>1, ConcatAt
<1>8. pos[n] = end
  BY <1>5, <1>7, Zenon DEF ArePositions
<1>9. /\ b[0] = Got(<<>>, at) /\ b[n] = ReadBody(fields, text, at)
      /\ \A k \in 1..n : b[k] = WithField(b[k - 1], fields[k], text)
  BY <1>6, Zenon DEF BodySoFar
<1> HIDE DEF n, end
<1> DEFINE Read(k) == {fields[i] : i \in 1..k}
           Good(k) == b[k] = Got(Part(body, Read(k)), pos[k])
           S == {k \in 0..n : Good(k)}
<1>10. Good(0)
  <2>1. Read(0) = {}
    OBVIOUS
  <2>2. pos[0] = at
    BY <1>7, Zenon DEF ArePositions
  <2>3. Part(body, Read(0)) = <<>>
    BY <2>1, PartNone, Zenon
  <2> QED
    BY <1>9, <2>2, <2>3, Zenon
<1>11. ASSUME NEW k \in 0..n, k \in S, k < n
       PROVE  k + 1 \in S
  <2>1. k + 1 \in 1..n /\ k + 1 \in 0..n /\ (k + 1) - 1 = k
    BY <1>1, <1>11
  <2>2. b[k + 1] = WithField(b[k], fields[k + 1], text)
    BY <1>9, <2>1, Zenon
  <2>3. Good(k)
    BY <1>11
  <2> DEFINE field == fields[k + 1]
  <2>4. /\ field \in FieldNames /\ body[field] \in FieldValues(field)
        /\ parts[k + 1] = WriteField(field, body[field])
    BY <1>2, <1>4, <2>1, Zenon
  <2>5. /\ pos[k + 1] = pos[k] + Len(WriteField(field, body[field]))
        /\ At(text, pos[k], WriteField(field, body[field]))
    BY <1>7, <2>1, <2>4, Zenon DEF ArePositions
  <2>6. pos[k] \in Nat \ {0}
    BY <2>1
  <2>7. Read(k + 1) = Read(k) \cup {field}
    <3>1. \A i : i \in 1..(k + 1) <=> i \in 1..k \/ i = k + 1
      OBVIOUS
    <3> QED
      BY <3>1, Zenon
  <2> HIDE DEF field
  <2>8. b[k + 1] = Got(Part(body, Read(k) \cup {field}), pos[k + 1])
    <3>1. b[k] = Got(Part(body, Read(k)), pos[k])
      BY <2>3
    <3>2. WithField(b[k], field, text) =
            Got(Part(body, Read(k) \cup {field}), pos[k] + Len(WriteField(field, body[field])))
      <4> HIDE DEF S, Good, Read
      <4> QED
        BY <2>4, <2>5, <2>6, <3>1, WithFieldReadBack
    <3> HIDE DEF Read
    <3> QED
      BY <2>2, <2>5, <3>2, Zenon DEF field
  <2>9. Good(k + 1)
    BY <2>7, <2>8, Zenon
  <2> HIDE DEF Good
  <2> QED
    BY <2>1, <2>9
<1> HIDE DEF Good
<1>12. 0 \in S
  BY <1>1, <1>10
<1> HIDE DEF S
<1>13. 0..n \subseteq S
  BY <1>1, <1>11, <1>12, SetInduction
<1>14. Good(n)
  <2>1. n \in 0..n
    BY <1>1
  <2> QED
    BY <1>13, <2>1 DEF S
<1>15. end \in Nat \ {0}
  <2>1. n \in 0..n
    BY <1>1
  <2>2. pos[n] \in Nat \ {0}
    BY <2>1
  <2> QED
    BY <1>8, <2>2, Zenon
<1> QED
  BY <1>8, <1>9, <1>14, <1>15, Zenon DEF Good, n, end

-----------------------------------------------------------------------------
(* A whole message.                                                        *)

\* A message that both sides know.
IsMessage(m) ==
  LET fields == Fields(m.step, m.type) IN
  /\ m = [seqn |-> m.seqn, step |-> m.step, type |-> m.type, body |-> m.body]
  /\ m.seqn \in Nat
  /\ m.step \in KnownSteps /\ m.type \in KnownTypes /\ HasBody(m.step, m.type)
  /\ HasFields(m.body, fields)
  /\ m.body = Part(m.body, {fields[i] : i \in 1..Len(fields)})

LEMMA StepKnown ==
  ASSUME NEW step \in KnownSteps
  PROVE  Knows(Steps, KnownSteps, step)
<1>1. Len(Steps) = 3
  BY DEF Steps
<1>2. DOMAIN Steps = 1..3
  BY DEF Steps
<1>3. \E i \in 1..3 : Steps[i] = step
  BY DEF KnownSteps, Steps
<1>4. 3 \in Nat
  OBVIOUS
<1> QED
  BY <1>1, <1>2, <1>3, <1>4, Zenon DEF Knows

LEMMA TypeKnown ==
  ASSUME NEW type \in KnownTypes
  PROVE  Knows(Types, KnownTypes, type)
<1>1. Len(Types) = 10
  BY DEF Types
<1>2. DOMAIN Types = 1..10
  BY DEF Types
<1>3. \E i \in 1..10 : Types[i] = type
  BY DEF KnownTypes, Types
<1>4. 10 \in Nat
  OBVIOUS
<1> QED
  BY <1>1, <1>2, <1>3, <1>4, Zenon DEF Knows

LEMMA NextPart ==
  ASSUME NEW C, NEW s \in Seq(C), NEW t \in Seq(C)
  PROVE  /\ s \o t \in Seq(C)
         /\ \A text \in Seq(C) : \A at \in Nat \ {0} :
              At(text, at, s \o t) =>
                /\ At(text, at, s) /\ At(text, at + Len(s), t)
                /\ at + Len(s) \in Nat \ {0}
<1>1. s \o t \in Seq(C) /\ Len(s) \in Nat
  BY BothType
<1>2. ASSUME NEW text \in Seq(C), NEW at \in Nat \ {0}, At(text, at, s \o t)
      PROVE  At(text, at, s) /\ At(text, at + Len(s), t) /\ at + Len(s) \in Nat \ {0}
  <2>1. At(text, at, s) /\ At(text, at + Len(s), t)
    BY <1>2, AtConcat
  <2> QED
    BY <1>1, <2>1
<1> QED
  BY <1>1, <1>2

LEMMA SevenOf ==
  ASSUME NEW S, NEW a \in S, NEW b \in S, NEW c \in S, NEW d \in S, NEW e \in S, NEW f \in S,
         NEW g \in S
  PROVE  <<a, b, c, d, e, f, g>> \in [1..7 -> S]
OBVIOUS

\* The start of each of seven parts.
StandAt(text, p, a, b, c, d, e, f, g) ==
  /\ p[1] = 1 /\ p[2] = p[1] + Len(a) /\ p[3] = p[2] + Len(b)
  /\ p[4] = p[3] + Len(c) /\ p[5] = p[4] + Len(d)
  /\ p[6] = p[5] + Len(e) /\ p[7] = p[6] + Len(f)
  /\ At(text, p[1], a) /\ At(text, p[2], b) /\ At(text, p[3], c)
  /\ At(text, p[4], d) /\ At(text, p[5], e) /\ At(text, p[6], f)
  /\ At(text, p[7], g)

LEMMA SevenParts ==
  ASSUME NEW C, NEW a \in Seq(C), NEW b \in Seq(C), NEW c \in Seq(C), NEW d \in Seq(C),
         NEW e \in Seq(C), NEW f \in Seq(C), NEW g \in Seq(C),
         NEW text, text = a \o b \o c \o d \o e \o f \o g
  PROVE  /\ text \in Seq(C)
         /\ \E p \in [1..7 -> Nat \ {0}] : StandAt(text, p, a, b, c, d, e, f, g)
<1> DEFINE ab == a \o b
           abc == ab \o c
           abcd == abc \o d
           abcde == abcd \o e
           abcdef == abcde \o f
           Splits(s, t) == At(text, 1, s \o t) => At(text, 1, s) /\ At(text, 1 + Len(s), t)
           Lengths(s, t) == 1 + Len(s \o t) = (1 + Len(s)) + Len(t)
<1>1. 1 \in Nat \ {0}
  OBVIOUS
<1>2. /\ ab \in Seq(C) /\ abc \in Seq(C) /\ abcd \in Seq(C) /\ abcde \in Seq(C)
      /\ abcdef \in Seq(C) /\ text \in Seq(C)
  <2>1. ab \in Seq(C)
    BY BothType
  <2> HIDE DEF ab
  <2>2. abc \in Seq(C)
    BY <2>1, BothType
  <2> HIDE DEF abc
  <2>3. abcd \in Seq(C)
    BY <2>2, BothType
  <2> HIDE DEF abcd
  <2>4. abcde \in Seq(C)
    BY <2>3, BothType
  <2> HIDE DEF abcde
  <2>5. abcdef \in Seq(C)
    BY <2>4, BothType
  <2> HIDE DEF abcdef
  <2>6. abcdef \o g \in Seq(C)
    BY <2>5, BothType
  <2>7. text = abcdef \o g
    BY Zenon DEF ab, abc, abcd, abcde, abcdef
  <2> QED
    BY <2>1, <2>2, <2>3, <2>4, <2>5, <2>6, <2>7, Zenon
<1>3. \A s, t \in Seq(C) : Splits(s, t) /\ Lengths(s, t)
  <2> TAKE s, t \in Seq(C)
  <2>1. Splits(s, t)
    BY <1>1, <1>2, NextPart
  <2>2. Len(s \o t) = Len(s) + Len(t) /\ Len(s) \in Nat /\ Len(t) \in Nat
    BY BothType
  <2> QED
    BY <2>1, <2>2
<1>4. At(text, 1, abcdef \o g)
  <2>1. At(text, 1, text)
    BY <1>2, AtItself
  <2> QED
    BY <2>1, Zenon
<1> HIDE DEF Splits, Lengths
<1>5. At(text, 1, abcde \o f) /\ At(text, 1 + Len(abcdef), g)
  <2>1. Splits(abcdef, g)
    BY <1>2, <1>3, Zenon
  <2> QED
    BY <1>4, <2>1, Zenon DEF Splits
<1>6. At(text, 1, abcd \o e) /\ At(text, 1 + Len(abcde), f)
  <2>1. Splits(abcde, f)
    BY <1>2, <1>3, Zenon
  <2> QED
    BY <1>5, <2>1, Zenon DEF Splits
<1>7. At(text, 1, abc \o d) /\ At(text, 1 + Len(abcd), e)
  <2>1. Splits(abcd, e)
    BY <1>2, <1>3, Zenon
  <2> QED
    BY <1>6, <2>1, Zenon DEF Splits
<1>8. At(text, 1, ab \o c) /\ At(text, 1 + Len(abc), d)
  <2>1. Splits(abc, d)
    BY <1>2, <1>3, Zenon
  <2> QED
    BY <1>7, <2>1, Zenon DEF Splits
<1>9. At(text, 1, a \o b) /\ At(text, 1 + Len(ab), c)
  <2>1. Splits(ab, c)
    BY <1>2, <1>3, Zenon
  <2> QED
    BY <1>8, <2>1, Zenon DEF Splits
<1>10. At(text, 1, a) /\ At(text, 1 + Len(a), b)
  <2>1. Splits(a, b)
    BY <1>2, <1>3, Zenon
  <2> QED
    BY <1>9, <2>1, Zenon DEF Splits
<1>11. /\ 1 + Len(ab) = (1 + Len(a)) + Len(b) /\ 1 + Len(abc) = (1 + Len(ab)) + Len(c)
       /\ 1 + Len(abcd) = (1 + Len(abc)) + Len(d) /\ 1 + Len(abcde) = (1 + Len(abcd)) + Len(e)
       /\ 1 + Len(abcdef) = (1 + Len(abcde)) + Len(f)
  BY <1>2, <1>3, Zenon DEF Lengths
<1> HIDE DEF ab, abc, abcd, abcde, abcdef
<1> DEFINE p == <<1, 1 + Len(a), 1 + Len(ab), 1 + Len(abc), 1 + Len(abcd), 1 + Len(abcde),
                  1 + Len(abcdef)>>
<1>12. /\ p[1] = 1 /\ p[2] = 1 + Len(a) /\ p[3] = 1 + Len(ab) /\ p[4] = 1 + Len(abc)
       /\ p[5] = 1 + Len(abcd) /\ p[6] = 1 + Len(abcde) /\ p[7] = 1 + Len(abcdef)
  OBVIOUS
<1>13. p \in [1..7 -> Nat \ {0}]
  <2>1. \A s \in Seq(C) : 1 + Len(s) \in Nat \ {0}
    OBVIOUS
  <2>2. /\ 1 \in Nat \ {0} /\ 1 + Len(a) \in Nat \ {0} /\ 1 + Len(ab) \in Nat \ {0} /\ 1 + Len(abc) \in Nat \ {0}
        /\ 1 + Len(abcd) \in Nat \ {0} /\ 1 + Len(abcde) \in Nat \ {0}
        /\ 1 + Len(abcdef) \in Nat \ {0}
    BY <1>1, <1>2, <2>1, Zenon
  <2> QED
    BY <2>2, SevenOf, Zenon
<1> HIDE DEF p
<1> QED
  BY <1>2, <1>4, <1>5, <1>6, <1>7, <1>8, <1>9, <1>10, <1>11, <1>12, <1>13, Zenon
  DEF StandAt

(* Every message whose step, type and fields both sides know is read as it *)
(* was written, with any number, any name, any text, any time and any      *)
(* error: Message::deserialize undoes Message::serialize.                  *)
THEOREM MessageReadBack ==
  ASSUME NEW m, IsMessage(m)
  PROVE  ReadMessage(WriteMessage(m)) = m
<1> DEFINE C == DatagramChars
           fields == Fields(m.step, m.type)
           a == WriteInt(MAGIC_NUMBER)
           b == WriteInt(m.seqn)
           c == WriteInt(0)
           e == WriteCode(Steps, m.step)
           f == WriteCode(Types, m.type)
           g == WriteBody(fields, m.body)
           text == WriteMessage(m)
<1>1. HasOwn(C)
  BY DatagramCharsOwn
<1>2. /\ m = [seqn |-> m.seqn, step |-> m.step, type |-> m.type, body |-> m.body]
      /\ m.seqn \in Nat
      /\ m.step \in KnownSteps /\ m.type \in KnownTypes /\ HasBody(m.step, m.type)
      /\ HasFields(m.body, fields)
      /\ m.body = Part(m.body, {fields[i] : i \in 1..Len(fields)})
  BY Zenon DEF IsMessage
<1>3. Knows(Steps, KnownSteps, m.step) /\ Knows(Types, KnownTypes, m.type)
  BY <1>2, StepKnown, TypeKnown, Zenon
<1>4. MAGIC_NUMBER \in Nat /\ 0 \in Nat
  BY DEF MAGIC_NUMBER
<1>5. text = a \o b \o c \o c \o e \o f \o g
  BY Zenon DEF WriteMessage, WriteBody
<1> HIDE DEF C, fields
<1>6. /\ a \in Seq(C) /\ b \in Seq(C) /\ c \in Seq(C) /\ e \in Seq(C) /\ f \in Seq(C)
      /\ g \in Seq(C)
  <2>1. a \in Seq(C) /\ b \in Seq(C) /\ c \in Seq(C)
    BY <1>1, <1>2, <1>4, WriteIntType
  <2>2. e \in Seq(C)
    BY <1>1, <1>3, WriteCodeType
  <2>3. f \in Seq(C)
    BY <1>1, <1>3, WriteCodeType
  <2>4. g \in Seq(C)
    BY <1>2, WriteBodyType DEF C
  <2> QED
    BY <2>1, <2>2, <2>3, <2>4, Zenon
<1> HIDE DEF text
<1>7. text \in Seq(C) /\ \E p \in [1..7 -> Nat \ {0}] : StandAt(text, p, a, b, c, c, e, f, g)
  <2> HIDE DEF a, b, c, e, f, g
  <2> QED
    BY <1>5, <1>6, SevenParts
<1>8. PICK p \in [1..7 -> Nat \ {0}] :
           /\ p[1] = 1 /\ p[2] = p[1] + Len(a) /\ p[3] = p[2] + Len(b)
           /\ p[4] = p[3] + Len(c) /\ p[5] = p[4] + Len(c)
           /\ p[6] = p[5] + Len(e) /\ p[7] = p[6] + Len(f)
           /\ At(text, p[1], a) /\ At(text, p[2], b) /\ At(text, p[3], c)
           /\ At(text, p[4], c) /\ At(text, p[5], e) /\ At(text, p[6], f)
           /\ At(text, p[7], g)
  BY <1>7, Zenon DEF StandAt
<1>9. \A i \in 1..7 : p[i] \in Nat \ {0}
  OBVIOUS
<1>10. \A i \in {1, 2, 3, 4, 5, 6, 7} : p[i] \in Nat \ {0}
  BY <1>9
<1>11. \A n \in Nat, at \in Nat \ {0} :
         At(text, at, WriteInt(n)) => ReadInt(text, at) = Got(n, at + Len(WriteInt(n)))
  <2>1. text \in Seq(C)
    BY <1>7
  <2> QED
    BY <1>1, <2>1, IntReadBack
<1> DEFINE magic == ReadInt(text, 1)
           seqn == ReadInt(text, p[2])
           timestamp == ReadInt(text, p[3])
           election == ReadInt(text, p[4])
           step == ReadCode(Steps, KnownSteps, text, p[5])
           type == ReadCode(Types, KnownTypes, text, p[6])
           body == ReadBody(fields, text, p[7])
<1>12. magic = Got(MAGIC_NUMBER, p[2])
  <2>1. p[1] = 1 /\ At(text, p[1], WriteInt(MAGIC_NUMBER)) /\ p[2] = p[1] + Len(WriteInt(MAGIC_NUMBER))
    BY <1>8, Zenon
  <2> QED
    BY <1>4, <1>10, <1>11, <2>1, Zenon
<1>13. seqn = Got(m.seqn, p[3])
  BY <1>2, <1>8, <1>10, <1>11, Zenon
<1>14. timestamp = Got(0, p[4]) /\ election = Got(0, p[5])
  BY <1>4, <1>8, <1>10, <1>11, Zenon
<1>15. step = Got(m.step, p[6])
  <2>1. p[5] \in Nat \ {0} /\ text \in Seq(C) /\ At(text, p[5], e) /\ p[6] = p[5] + Len(e)
    BY <1>7, <1>8, <1>10, Zenon
  <2>2. ReadCode(Steps, KnownSteps, text, p[5]) = Got(m.step, p[5] + Len(WriteCode(Steps, m.step)))
    BY <1>1, <1>3, <2>1, CodeReadBack
  <2> QED
    BY <2>1, <2>2, Zenon
<1>16. type = Got(m.type, p[7])
  <2>1. p[6] \in Nat \ {0} /\ text \in Seq(C) /\ At(text, p[6], f) /\ p[7] = p[6] + Len(f)
    BY <1>7, <1>8, <1>10, Zenon
  <2>2. ReadCode(Types, KnownTypes, text, p[6]) = Got(m.type, p[6] + Len(WriteCode(Types, m.type)))
    BY <1>1, <1>3, <2>1, CodeReadBack
  <2> QED
    BY <2>1, <2>2, Zenon
<1>17. body = Got(m.body, p[7] + Len(g))
  <2>1. p[7] \in Nat \ {0} /\ At(text, p[7], g) /\ text \in Seq(DatagramChars)
    BY <1>7, <1>8, <1>10, Zenon DEF C
  <2> DEFINE all == {fields[i] : i \in 1..Len(fields)}
             end == p[7] + Len(g)
  <2>2. ReadBody(fields, text, p[7]) = Got(Part(m.body, all), end)
    BY <1>2, <2>1, BodyReadBack
  <2>3. m.body = Part(m.body, all)
    BY <1>2
  <2> HIDE DEF all, end
  <2>4. ReadBody(fields, text, p[7]) = Got(m.body, end)
    BY <2>2, <2>3, Zenon
  <2> QED
    BY <2>4 DEF end
<1> HIDE DEF magic, seqn, timestamp, election, step, type, body, g
<1>18. /\ ~magic.error /\ magic.value = MAGIC_NUMBER /\ magic.next = p[2]
       /\ ~seqn.error /\ seqn.value = m.seqn /\ seqn.next = p[3]
       /\ ~timestamp.error /\ timestamp.next = p[4]
       /\ ~election.error /\ election.next = p[5]
       /\ ~step.error /\ step.value = m.step /\ step.next = p[6]
       /\ ~type.error /\ type.value = m.type /\ type.next = p[7]
       /\ ~body.error /\ body.value = m.body
  BY <1>12, <1>13, <1>14, <1>15, <1>16, <1>17, GotFields
<1>19. ReadMessage(text) =
         [seqn |-> m.seqn, step |-> m.step, type |-> m.type, body |-> m.body]
  BY <1>2, <1>18, Zenon
  DEF ReadMessage, magic, seqn, timestamp, election, step, type, body, fields
<1> QED
  BY <1>2, <1>19, Zenon DEF text

-----------------------------------------------------------------------------
(* The messages of the server and its clients.                             *)

\* A body that has these fields and no other.
IsBody(body, fields) ==
  /\ HasFields(body, fields)
  /\ body = Part(body, {fields[i] : i \in 1..Len(fields)})

LEMMA NoField == IsBody(<<>>, <<>>)
<1>1. Len(<<>>) = 0 /\ Len(<<>>) \in Nat /\ 1..Len(<<>>) = {}
  OBVIOUS
<1>2. {<<>>[i] : i \in 1..Len(<<>>)} = {}
  BY <1>1
<1>3. Part(<<>>, {}) = <<>>
  BY PartNone
<1>4. HasFields(<<>>, <<>>)
  BY <1>1 DEF HasFields
<1> QED
  BY <1>2, <1>3, <1>4, Zenon DEF IsBody

LEMMA OneField ==
  ASSUME NEW field \in FieldNames, NEW body, body = [f \in {field} |-> body[f]],
         body[field] \in FieldValues(field)
  PROVE  IsBody(body, <<field>>)
<1> DEFINE fields == <<field>>
<1>1. Len(fields) = 1 /\ fields[1] = field /\ 1 \in Nat
  OBVIOUS
<1>2. \A i \in 1..1 : i = 1
  OBVIOUS
<1>3. {fields[i] : i \in 1..1} = {field}
  <2>1. 1 \in 1..1
    OBVIOUS
  <2> HIDE DEF fields
  <2> QED
    BY <1>1, <1>2, <2>1, Zenon
<1> HIDE DEF fields
<1>4. HasFields(body, fields)
  BY <1>1, <1>2, Zenon DEF HasFields
<1>5. body = Part(body, {field})
  BY Zenon DEF Part
<1> QED
  BY <1>1, <1>3, <1>4, <1>5, Zenon DEF IsBody, fields

LEMMA ThreeFields ==
  ASSUME NEW x \in FieldNames, NEW y \in FieldNames, NEW z \in FieldNames, NEW body,
         body = [f \in {x, y, z} |-> body[f]],
         body[x] \in FieldValues(x), body[y] \in FieldValues(y), body[z] \in FieldValues(z)
  PROVE  IsBody(body, <<x, y, z>>)
<1> DEFINE fields == <<x, y, z>>
<1>1. Len(fields) = 3 /\ fields[1] = x /\ fields[2] = y /\ fields[3] = z /\ 3 \in Nat
  OBVIOUS
<1>2. \A i : i \in 1..3 <=> i = 1 \/ i = 2 \/ i = 3
  OBVIOUS
<1> HIDE DEF fields
<1>3. {fields[i] : i \in 1..3} = {x, y, z}
  BY <1>1, <1>2
<1>4. HasFields(body, fields)
  BY <1>1, <1>2, Zenon DEF HasFields
<1>5. body = Part(body, {x, y, z})
  BY Zenon DEF Part
<1> QED
  BY <1>1, <1>3, <1>4, <1>5, Zenon DEF IsBody, fields

LEMMA MessageKnown ==
  ASSUME NEW step \in KnownSteps, NEW type \in KnownTypes, HasBody(step, type), NEW bodies,
         \A body \in bodies : IsBody(body, Fields(step, type)),
         NEW m \in Message(step, type, bodies)
  PROVE  IsMessage(m)
<1>1. PICK body \in bodies : m = [seqn |-> 30, step |-> step, type |-> type, body |-> body]
  BY DEF Message
<1>2. /\ m = [seqn |-> m.seqn, step |-> m.step, type |-> m.type, body |-> m.body]
      /\ m.seqn \in Nat /\ m.step = step /\ m.type = type /\ m.body = body
  BY <1>1
<1> QED
  BY <1>1, <1>2, Zenon DEF IsMessage, IsBody

LEMMA FieldsOf ==
  /\ Fields("REQ", "CLIENT_CONN") = <<"username">> /\ Fields("REQ", "FOLLOW") = <<"username">>
  /\ Fields("REQ", "NOTIFY") = <<"notif_message">> /\ Fields("REQ", "DISCONNECT") = <<>>
  /\ Fields("REQ", "DELIVER") = <<"username", "notif_message", "sent_at">>
  /\ Fields("RESP", "ERROR") = <<"error">>
  /\ \A type : type # "ERROR" => Fields("RESP", type) = <<>>
BY DEF Fields, ReqFields, RespFields

LEMMA NameBody ==
  ASSUME NEW u \in Username
  PROVE  IsBody([username |-> u], <<"username">>)
<1>1. [username |-> u] = [f \in {"username"} |-> [username |-> u][f]]
  OBVIOUS
<1>2. [username |-> u]["username"] \in FieldValues("username") /\ "username" \in FieldNames
  BY DEF FieldValues, FieldNames
<1> QED
  BY <1>1, <1>2, OneField, Zenon

LEMMA NotifyBody ==
  ASSUME NEW t \in NotifMessages
  PROVE  IsBody([notif_message |-> t], <<"notif_message">>) /\ t \in FieldValues("notif_message")
<1>1. [notif_message |-> t] = [f \in {"notif_message"} |-> [notif_message |-> t][f]]
  OBVIOUS
<1>2. t \in FieldValues("notif_message")
  <2>1. t \in Seq(Character) \ {<<>>}
    BY NotifAssumption
  <2>2. FieldValues("notif_message") = Seq(Character) \ {<<>>}
    BY Zenon DEF FieldValues
  <2> QED
    BY <2>1, <2>2, Zenon
<1>3. [notif_message |-> t]["notif_message"] \in FieldValues("notif_message")
  BY <1>2
<1>4. "notif_message" \in FieldNames
  BY DEF FieldNames
<1> QED
  BY <1>1, <1>2, <1>3, <1>4, OneField, Zenon

LEMMA ErrorBody ==
  ASSUME NEW e \in KnownErrors
  PROVE  IsBody([error |-> e], <<"error">>)
<1>1. [error |-> e] = [f \in {"error"} |-> [error |-> e][f]]
  OBVIOUS
<1>2. [error |-> e]["error"] \in FieldValues("error") /\ "error" \in FieldNames
  <2>1. FieldValues("error") = KnownErrors
    BY Zenon DEF FieldValues
  <2> QED
    BY <2>1 DEF FieldNames
<1> QED
  BY <1>1, <1>2, OneField, Zenon

LEMMA DeliverBody ==
  ASSUME NEW u \in Username, NEW t \in NotifMessages
  PROVE  IsBody([username |-> u, notif_message |-> t, sent_at |-> 0],
                <<"username", "notif_message", "sent_at">>)
<1> DEFINE body == [username |-> u, notif_message |-> t, sent_at |-> 0]
<1>1. body = [f \in {"username", "notif_message", "sent_at"} |-> body[f]]
  OBVIOUS
<1>2. body["username"] = u /\ body["notif_message"] = t /\ body["sent_at"] = 0
  OBVIOUS
<1>3. u \in FieldValues("username") /\ 0 \in FieldValues("sent_at")
  BY DEF FieldValues
<1>4. t \in FieldValues("notif_message")
  BY NotifyBody
<1>5. {"username", "notif_message", "sent_at"} \subseteq FieldNames
  BY DEF FieldNames
<1> HIDE DEF body
<1>6. /\ body["username"] \in FieldValues("username")
      /\ body["notif_message"] \in FieldValues("notif_message")
      /\ body["sent_at"] \in FieldValues("sent_at")
  BY <1>2, <1>3, <1>4, Zenon
<1>7. "username" \in FieldNames /\ "notif_message" \in FieldNames /\ "sent_at" \in FieldNames
  BY <1>5
<1>8. IsBody(body, <<"username", "notif_message", "sent_at">>)
  BY <1>1, <1>6, <1>7, ThreeFields, Zenon
<1> QED
  BY <1>8 DEF body

LEMMA RequestedKnown ==
  ASSUME NEW body \in RequestBody, NEW m \in Requested(body)
  PROVE  IsMessage(m)
<1> DEFINE bodies ==
             CASE body.type \in {"CLIENT_CONN", "FOLLOW"} -> {[username |-> body.username]}
               [] body.type = "NOTIFY" -> {[notif_message |-> t] : t \in NotifMessages}
               [] body.type = "DISCONNECT" -> {<<>>}
<1>1. m \in Message("REQ", body.type, bodies)
  BY Zenon DEF Requested
<1>2. \/ body.type \in {"CLIENT_CONN", "FOLLOW"} /\ body.username \in Username
      \/ body.type = "NOTIFY" \/ body.type = "DISCONNECT"
  BY DEF RequestBody
<1>3. "REQ" \in KnownSteps /\ body.type \in KnownTypes /\ HasBody("REQ", body.type)
  BY <1>2 DEF KnownSteps, KnownTypes, HasBody
<1>4. \A b \in bodies : IsBody(b, Fields("REQ", body.type))
  <2>1. CASE body.type \in {"CLIENT_CONN", "FOLLOW"} /\ body.username \in Username
    <3>1. bodies = {[username |-> body.username]}
      BY <2>1, Zenon
    <3>2. Fields("REQ", body.type) = <<"username">>
      BY <2>1, FieldsOf, Zenon
    <3>3. IsBody([username |-> body.username], <<"username">>)
      BY <2>1, NameBody, Zenon
    <3> HIDE DEF bodies
    <3> QED
      BY <3>1, <3>2, <3>3, Zenon
  <2>2. CASE body.type = "NOTIFY"
    <3>1. bodies = {[notif_message |-> t] : t \in NotifMessages}
      BY <2>2
    <3>2. Fields("REQ", body.type) = <<"notif_message">>
      BY <2>2, FieldsOf, Zenon
    <3>3. \A t \in NotifMessages : IsBody([notif_message |-> t], <<"notif_message">>)
      BY NotifyBody, Zenon
    <3> HIDE DEF bodies
    <3> QED
      BY <3>1, <3>2, <3>3, Zenon
  <2>3. CASE body.type = "DISCONNECT"
    <3>1. bodies = {<<>>}
      BY <2>3
    <3>2. Fields("REQ", body.type) = <<>>
      BY <2>3, FieldsOf, Zenon
    <3> HIDE DEF bodies
    <3> QED
      BY <3>1, <3>2, NoField, Zenon
  <2> HIDE DEF bodies
  <2> QED
    BY <1>2, <2>1, <2>2, <2>3
<1> HIDE DEF bodies
<1> QED
  BY <1>1, <1>3, <1>4, MessageKnown

AnsweredTypes == {"CLIENT_CONN", "FOLLOW", "NOTIFY", "DISCONNECT", "DELIVER"}

LEMMA AnswersKnown ==
  ASSUME NEW type \in AnsweredTypes, NEW m \in Answers(type)
  PROVE  IsMessage(m)
<1> DEFINE refusals == {[error |-> e] : e \in Refusals(type)}
<1>1. m \in Message("RESP", type, {<<>>}) \/ m \in Message("RESP", "ERROR", refusals)
  BY DEF Answers
<1>2. /\ "RESP" \in KnownSteps /\ type \in KnownTypes /\ "ERROR" \in KnownTypes
      /\ HasBody("RESP", type) /\ HasBody("RESP", "ERROR") /\ type # "ERROR"
  BY DEF KnownSteps, KnownTypes, HasBody, AnsweredTypes
<1>3. \A b \in {<<>>} : IsBody(b, Fields("RESP", type))
  BY <1>2, FieldsOf, NoField, Zenon
<1>4. \A b \in refusals : IsBody(b, Fields("RESP", "ERROR"))
  <2>1. Refusals(type) \subseteq KnownErrors
    BY DEF Refusals, KnownErrors, AnsweredTypes
  <2>2. \A e \in KnownErrors : IsBody([error |-> e], <<"error">>)
    BY ErrorBody, Zenon
  <2>3. Fields("RESP", "ERROR") = <<"error">>
    BY FieldsOf, Zenon
  <2> QED
    BY <2>1, <2>2, <2>3, Zenon
<1> HIDE DEF refusals
<1>5. CASE m \in Message("RESP", type, {<<>>})
  BY <1>2, <1>3, <1>5, MessageKnown
<1>6. CASE m \in Message("RESP", "ERROR", refusals)
  BY <1>2, <1>4, <1>6, MessageKnown
<1> QED
  BY <1>1, <1>5, <1>6

LEMMA DeliveredKnown ==
  ASSUME NEW u \in Username, NEW m \in Delivered(u)
  PROVE  IsMessage(m)
<1> DEFINE bodies == {[username |-> u, notif_message |-> t, sent_at |-> 0] : t \in NotifMessages}
<1>1. m \in Message("REQ", "DELIVER", bodies)
  BY Zenon DEF Delivered
<1>2. "REQ" \in KnownSteps /\ "DELIVER" \in KnownTypes /\ HasBody("REQ", "DELIVER")
  BY DEF KnownSteps, KnownTypes, HasBody
<1>3. \A b \in bodies : IsBody(b, Fields("REQ", "DELIVER"))
  <2>1. Fields("REQ", "DELIVER") = <<"username", "notif_message", "sent_at">>
    BY FieldsOf, Zenon
  <2>2. \A t \in NotifMessages :
          IsBody([username |-> u, notif_message |-> t, sent_at |-> 0],
                 <<"username", "notif_message", "sent_at">>)
    BY DeliverBody, Zenon
  <2> QED
    BY <2>1, <2>2, Zenon
<1> HIDE DEF bodies
<1> QED
  BY <1>1, <1>2, <1>3, MessageKnown

\* What may be on its way at all.
Sendable ==
  (UNION {Requested(b) \cup Answers(b.type) : b \in RequestBody})
    \cup (UNION {Delivered(u) : u \in Username}) \cup Answers("DELIVER")

LEMMA InSendable ==
  ASSUME NEW m
  PROVE  m \in Sendable <=> \/ \E b \in RequestBody : m \in Requested(b) \/ m \in Answers(b.type)
                            \/ \E u \in Username : m \in Delivered(u)
                            \/ m \in Answers("DELIVER")
<1> DEFINE A == UNION {Requested(b) \cup Answers(b.type) : b \in RequestBody}
           D == UNION {Delivered(u) : u \in Username}
<1>1. m \in A <=> \E b \in RequestBody : m \in Requested(b) \/ m \in Answers(b.type)
  OBVIOUS
<1>2. m \in D <=> \E u \in Username : m \in Delivered(u)
  OBVIOUS
<1>3. Sendable = A \cup D \cup Answers("DELIVER")
  BY Zenon DEF Sendable
<1> HIDE DEF A, D
<1>4. m \in Sendable <=> m \in A \/ m \in D \/ m \in Answers("DELIVER")
  BY <1>3
<1> QED
  BY <1>1, <1>2, <1>4, Zenon

LEMMA SendableArrives ==
  ASSUME NEW m \in Sendable
  PROVE  Arrives[m] = m
<1>1. Arrives[m] = ReadMessage(WriteMessage(m))
  BY Zenon DEF Arrives, Sendable
<1>2. IsMessage(m)
  <2>1. CASE \E b \in RequestBody : m \in Requested(b)
    BY <2>1, RequestedKnown
  <2>2. CASE \E b \in RequestBody : m \in Answers(b.type)
    <3>1. PICK b \in RequestBody : m \in Answers(b.type)
      BY <2>2
    <3>2. b.type \in AnsweredTypes
      BY DEF RequestBody, AnsweredTypes
    <3> QED
      BY <3>1, <3>2, AnswersKnown
  <2>3. CASE \E u \in Username : m \in Delivered(u)
    BY <2>3, DeliveredKnown
  <2>4. CASE m \in Answers("DELIVER")
    <3>1. "DELIVER" \in AnsweredTypes
      BY DEF AnsweredTypes
    <3> QED
      BY <2>4, <3>1, AnswersKnown
  <2> QED
    BY <2>1, <2>2, <2>3, <2>4, InSendable, Zenon
<1> QED
  BY <1>1, <1>2, MessageReadBack, Zenon

LEMMA InTransitSendable ==
  ASSUME ServerTypeOK
  PROVE  InTransit \subseteq Sendable
<1>1. /\ requests \in Seq(ReceivedReq) /\ comm_to_prof \in Seq(ReceivedReq)
      /\ notif_to_comm \in Seq(DeliverReq)
      /\ prof = "answering" => comm_to_prof # <<>>
      /\ comm_notif = "waiting" => notif_to_comm # <<>>
  BY DEF ServerTypeOK
<1>2. \A r \in ReceivedReq : r.body \in RequestBody
  BY DEF ReceivedReq
<1>3. \A i \in DOMAIN requests : Requested(requests[i].body) \subseteq Sendable
  <2>1. \A i \in DOMAIN requests : requests[i] \in ReceivedReq
    BY <1>1
  <2> QED
    BY <1>2, <2>1, InSendable, Zenon
<1>4. prof = "answering" => Answers(Head(comm_to_prof).body.type) \subseteq Sendable
  <2>1. prof = "answering" => Head(comm_to_prof) \in ReceivedReq
    BY <1>1
  <2> QED
    BY <1>2, <2>1, InSendable, Zenon
<1>5. comm_notif = "waiting" => Delivered(Head(notif_to_comm)[2]) \subseteq Sendable
  <2>1. comm_notif = "waiting" => Head(notif_to_comm) \in DeliverReq
    BY <1>1
  <2>2. \A r \in DeliverReq : r[2] \in Username
    BY DEF DeliverReq
  <2> QED
    BY <2>1, <2>2, InSendable, Zenon
<1>6. Answers("DELIVER") \subseteq Sendable
  BY InSendable, Zenon
<1>7. ASSUME NEW m \in InTransit
      PROVE  m \in Sendable
  <2>1. \/ \E i \in DOMAIN requests : m \in Requested(requests[i].body)
        \/ prof = "answering" /\ m \in Answers(Head(comm_to_prof).body.type)
        \/ comm_notif = "waiting" /\ (m \in Delivered(Head(notif_to_comm)[2]) \/ m \in Answers("DELIVER"))
    <3> DEFINE R == UNION {Requested(requests[i].body) : i \in DOMAIN requests}
               P == IF prof = "answering" THEN Answers(Head(comm_to_prof).body.type) ELSE {}
               N == IF comm_notif = "waiting"
                      THEN Delivered(Head(notif_to_comm)[2]) \cup Answers("DELIVER") ELSE {}
    <3>1. m \in R => \E i \in DOMAIN requests : m \in Requested(requests[i].body)
      OBVIOUS
    <3>2. m \in P => prof = "answering" /\ m \in Answers(Head(comm_to_prof).body.type)
      OBVIOUS
    <3>3. m \in N => /\ comm_notif = "waiting"
                     /\ m \in Delivered(Head(notif_to_comm)[2]) \/ m \in Answers("DELIVER")
      OBVIOUS
    <3>4. InTransit = R \cup P \cup N
      BY Zenon DEF InTransit
    <3> HIDE DEF R, P, N
    <3>5. m \in R \/ m \in P \/ m \in N
      BY <3>4
    <3> QED
      BY <3>1, <3>2, <3>3, <3>5, Zenon
  <2> QED
    BY <1>3, <1>4, <1>5, <1>6, <2>1, Zenon
<1> QED
  BY <1>7

(* Every request, response and notification that the server and its        *)
(* clients exchange is read as it was written, for any usernames, and any  *)
(* texts over any characters: no text runs into the next field, and no     *)
(* code is unknown on the other side.                                      *)
THEOREM DatagramsReadBackCorrect == ServerSpec => []DatagramsReadBack
<1>1. ServerTypeOK => DatagramsReadBack
  BY InTransitSendable, SendableArrives DEF DatagramsReadBack
<1> QED
  BY <1>1, ServerTypeCorrect, PTL
=============================================================================
