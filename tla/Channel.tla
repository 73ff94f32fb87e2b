------------------------------ MODULE Channel ------------------------------
(***************************************************************************)
(* The channels between threads (shared/channel.h): an Inner with a queue, *)
(* a condition variable and counts of its senders and receivers, and the   *)
(* ends that share it.  Every method of Inner holds the mutex and is one   *)
(* action, or a part of one; a copy assignment locks it twice and is two.  *)
(* What a message says and the order of the queue, which is std::queue's,  *)
(* are left out: `messages' is how many wait.                              *)
(*                                                                         *)
(* An end is used by one thread at a time; a receiver whose thread sleeps  *)
(* in receive is not moved or destroyed under it.                          *)
(*                                                                         *)
(* An operator named Mutant... is a wrong version of the definition below  *)
(* it, no part of the specification.                                       *)
(***************************************************************************)
EXTENDS Integers, FiniteSets

CONSTANTS SenderEnd, ReceiverEnd,  \* places for Sender and Receiver objects
          Inner,                   \* what an end's shared pointer may point to
          Null, Gone,              \* a pointer moved away; no object in this place
          MaxMessages,             \* bound: messages in one queue
          MaxLeaks                 \* bound: ends of one kind lost by assignments

End == SenderEnd \cup ReceiverEnd

ASSUME EndAssumption == IsFiniteSet(End) /\ SenderEnd \cap ReceiverEnd = {}
ASSUME InnerAssumption == {Null, Gone} \cap Inner = {} /\ Null # Gone
ASSUME BoundAssumption == MaxMessages \in Nat /\ MaxLeaks \in Nat

VARIABLES
  inner,      \* inner[e]: what the end e points to, Null or Gone
  assigning,  \* ends in a copy assignment, no longer counted and not yet again
  senders, receivers,  \* the counts of each Inner
  messages,   \* messages[c]: the length of its queue
  thread,     \* thread[r]: the thread that receives from r runs, sleeps in
              \* cond_var.wait, or is notified and has not got the mutex yet
  cut,        \* history: the Inners on which disconnect() was called
  leaked      \* history: leaked[c]: how many senders and receivers of c were
              \* dropped without being counted out

countVars == <<senders, receivers>>
vars == <<inner, assigning, countVars, messages, thread, cut, leaked>>

-----------------------------------------------------------------------------
Pointing(ends, c) == {e \in ends : inner[e] = c}

TypeOK ==
  /\ inner \in [End -> Inner \cup {Null, Gone}]
  /\ assigning \subseteq {e \in End : inner[e] # Gone}
  /\ senders \in [Inner -> Nat] /\ receivers \in [Inner -> Nat]
  /\ messages \in [Inner -> 0..MaxMessages]
  /\ thread \in [ReceiverEnd -> {"running", "waiting", "woken"}]
  /\ \A r \in ReceiverEnd : thread[r] # "running" => inner[r] \in Inner /\ r \notin assigning
  /\ cut \subseteq Inner
  /\ leaked \in [Inner -> [senders : 0..MaxLeaks, receivers : 0..MaxLeaks]]

Init ==
  /\ inner = [e \in End |-> Gone]
  /\ assigning = {}
  /\ senders = [c \in Inner |-> 0] /\ receivers = [c \in Inner |-> 0]
  /\ messages = [c \in Inner |-> 0]
  /\ thread = [r \in ReceiverEnd |-> "running"]
  /\ cut = {}
  /\ leaked = [c \in Inner |-> [senders |-> 0, receivers |-> 0]]

-----------------------------------------------------------------------------
(* The methods of Inner.                                                   *)

Sleeping(c) == {r \in Pointing(ReceiverEnd, c) : thread[r] = "waiting"}

NotifyAll(c) ==
  thread' = [r \in ReceiverEnd |-> IF r \in Sleeping(c) THEN "woken" ELSE thread[r]]

\* A notify_one is lost when nobody sleeps.
NotifyOne(c) ==
  \/ Sleeping(c) = {} /\ UNCHANGED thread
  \/ \E r \in Sleeping(c) : thread' = [thread EXCEPT ![r] = "woken"]

Incremented(count, c) == [count EXCEPT ![c] = @ + 1]

MutantDecremented(count, c) == [count EXCEPT ![c] = @ - 1]   \* unguarded
Decremented(count, c) == [count EXCEPT ![c] = IF @ > 0 THEN @ - 1 ELSE @]

\* sender_connected and receiver_connected; a null pointer counts nowhere.
Connected(e, c) ==
  /\ senders' = IF c \in Inner /\ e \in SenderEnd THEN Incremented(senders, c) ELSE senders
  /\ receivers' = IF c \in Inner /\ e \in ReceiverEnd THEN Incremented(receivers, c) ELSE receivers

\* The last of either kind wakes everybody.
MutantWakeUp(c) == UNCHANGED thread
WakeUp(c) ==
  IF c \in Inner /\ (senders'[c] = 0 \/ receivers'[c] = 0)
    THEN NotifyAll(c) ELSE UNCHANGED thread

\* sender_disconnected and receiver_disconnected.
Disconnected(e, c) ==
  /\ senders' = IF c \in Inner /\ e \in SenderEnd THEN Decremented(senders, c) ELSE senders
  /\ receivers' = IF c \in Inner /\ e \in ReceiverEnd THEN Decremented(receivers, c) ELSE receivers
  /\ WakeUp(c)

-----------------------------------------------------------------------------
(* The life of an end.  Sender and Receiver have the same methods.         *)

\* An end that its thread may use: an object, and no call of it under way.
Usable(e) ==
  /\ inner[e] # Gone /\ e \notin assigning
  /\ e \in ReceiverEnd => thread[e] = "running"

\* The constructor of Channel makes a new Inner and both its ends.
NewChannel(c, s, r) ==
  /\ Pointing(End, c) = {} /\ inner[s] = Gone /\ inner[r] = Gone
  /\ inner' = [inner EXCEPT ![s] = c, ![r] = c]
  /\ senders' = [senders EXCEPT ![c] = 1]
  /\ receivers' = [receivers EXCEPT ![c] = 1]
  /\ messages' = [messages EXCEPT ![c] = 0]
  /\ cut' = cut \ {c}
  /\ leaked' = [leaked EXCEPT ![c] = [senders |-> 0, receivers |-> 0]]
  /\ UNCHANGED <<assigning, thread>>

CopyConstruct(e, f) ==
  /\ inner[e] = Gone /\ Usable(f)
  /\ inner' = [inner EXCEPT ![e] = inner[f]]
  /\ Connected(e, inner[f])
  /\ UNCHANGED <<assigning, messages, thread, cut, leaked>>

MutantMoveConstruct(e, f) ==   \* counts the new end like a copy
  /\ inner[e] = Gone /\ Usable(f)
  /\ inner' = [inner EXCEPT ![e] = inner[f], ![f] = Null]
  /\ Connected(e, inner[f])
  /\ UNCHANGED <<assigning, messages, thread, cut, leaked>>
MoveConstruct(e, f) ==
  /\ inner[e] = Gone /\ Usable(f)
  /\ inner' = [inner EXCEPT ![e] = inner[f], ![f] = Null]
  /\ UNCHANGED <<assigning, countVars, messages, thread, cut, leaked>>

\* disconnected() and the new pointer; a self-assignment is no exception.
CopyAssign(e, f) ==
  /\ Usable(e) /\ Usable(f)
  /\ Disconnected(e, inner[e])
  /\ inner' = [inner EXCEPT ![e] = inner[f]]
  /\ assigning' = assigning \cup {e}
  /\ UNCHANGED <<messages, cut, leaked>>

\* connected(), later, under the mutex again.
CopyAssigned(e) ==
  /\ e \in assigning
  /\ Connected(e, inner[e])
  /\ assigning' = assigning \ {e}
  /\ UNCHANGED <<inner, messages, thread, cut, leaked>>

\* Assigned from an end of the same Inner, one of two ends disappears and is
\* not counted out.
MoveAssignWithin(e, f) ==
  LET c == inner[f]
      kind == IF e \in SenderEnd THEN "senders" ELSE "receivers"
  IN
  /\ Usable(e) /\ Usable(f) /\ e # f
  /\ inner[e] = c /\ c \in Inner
  /\ leaked[c][kind] < MaxLeaks
  /\ inner' = [inner EXCEPT ![f] = Null]
  /\ leaked' = [leaked EXCEPT ![c][kind] = @ + 1]
  /\ UNCHANGED <<assigning, countVars, messages, thread, cut>>

MoveAssignAcross(e, f) ==
  /\ Usable(e) /\ Usable(f) /\ inner[e] # inner[f]
  /\ Disconnected(e, inner[e])
  /\ inner' = [inner EXCEPT ![e] = inner[f], ![f] = Null]
  /\ UNCHANGED <<assigning, messages, cut, leaked>>

Destroy(e) ==
  /\ Usable(e)
  /\ Disconnected(e, inner[e])
  /\ inner' = [inner EXCEPT ![e] = Gone]
  /\ UNCHANGED <<assigning, messages, cut, leaked>>

\* disconnect(), by any end.
Disconnect(c) ==
  /\ \E e \in Pointing(End, c) : Usable(e)
  /\ senders' = [senders EXCEPT ![c] = 0]
  /\ receivers' = [receivers EXCEPT ![c] = 0]
  /\ NotifyAll(c)
  /\ cut' = cut \cup {c}
  /\ UNCHANGED <<inner, assigning, messages, leaked>>

-----------------------------------------------------------------------------
(* Messages.  Without receivers, `send' throws and changes nothing.        *)

MutantNotify(c) ==   \* wakes a receiver only when the queue was empty
  IF messages[c] = 0 THEN NotifyOne(c) ELSE UNCHANGED thread
Notify(c) == NotifyOne(c)

Send(s) ==
  LET c == inner[s] IN
  /\ Usable(s) /\ c \in Inner
  /\ receivers[c] > 0
  /\ messages[c] < MaxMessages
  /\ messages' = [messages EXCEPT ![c] = @ + 1]
  /\ Notify(c)
  /\ UNCHANGED <<inner, assigning, countVars, cut, leaked>>

\* unsafe_try_receive: a message if there is one, also when nobody can send
\* any more.
Take(r) ==
  /\ messages[inner[r]] > 0
  /\ messages' = [messages EXCEPT ![inner[r]] = @ - 1]
  /\ thread' = [thread EXCEPT ![r] = "running"]

\* It throws SendersDisconnected.
FindNoSender(r) ==
  /\ messages[inner[r]] = 0 /\ senders[inner[r]] = 0
  /\ thread' = [thread EXCEPT ![r] = "running"]
  /\ UNCHANGED messages

Wait(r) ==
  /\ messages[inner[r]] = 0 /\ senders[inner[r]] > 0
  /\ thread' = [thread EXCEPT ![r] = "waiting"]
  /\ UNCHANGED messages

\* receive, from its call or from a wake-up.  try_receive does the first two
\* and returns nothing instead of waiting.
Receive(r) ==
  /\ r \notin assigning /\ inner[r] \in Inner
  /\ thread[r] # "waiting"
  /\ Take(r) \/ FindNoSender(r) \/ Wait(r)
  /\ UNCHANGED <<inner, assigning, countVars, cut, leaked>>

-----------------------------------------------------------------------------
Lives(ends) ==
  \/ \E e, f \in ends : \/ CopyConstruct(e, f) \/ MoveConstruct(e, f)
                        \/ CopyAssign(e, f)
                        \/ MoveAssignWithin(e, f) \/ MoveAssignAcross(e, f)
  \/ \E e \in ends : CopyAssigned(e) \/ Destroy(e)

Sender == Lives(SenderEnd) \/ \E s \in SenderEnd : Send(s)
Receiver == Lives(ReceiverEnd) \/ \E r \in ReceiverEnd : Receive(r)

Next ==
  \/ \E c \in Inner, s \in SenderEnd, r \in ReceiverEnd : NewChannel(c, s, r)
  \/ \E c \in Inner : Disconnect(c)
  \/ Sender
  \/ Receiver

Spec == Init /\ [][Next]_vars

\* A thread that was notified gets the mutex.  Nobody must send or destroy.
FairSpec ==
  Spec /\ \A r \in ReceiverEnd : WF_vars(thread[r] = "woken" /\ Receive(r))

-----------------------------------------------------------------------------
(* Properties.                                                             *)

\* Ends that their Inner should count.
Alive(ends, c) == Cardinality(Pointing(ends, c) \ assigning)

(* The counts are those of the ends that exist, through every copy, move   *)
(* and assignment, except for ends lost by a move assignment within one    *)
(* channel, which are counted for ever.  disconnect() sets them to zero;   *)
(* what is copied and destroyed after that never makes them exceed the     *)
(* ends that exist (or wrap around).                                       *)
CountsExact ==
  \A c \in Inner :
    Pointing(End, c) # {} =>
      LET s == Alive(SenderEnd, c) + leaked[c].senders
          r == Alive(ReceiverEnd, c) + leaked[c].receivers
      IN IF c \in cut THEN senders[c] <= s /\ receivers[c] <= r
                      ELSE senders[c] = s /\ receivers[c] = r

(* Nobody sleeps through a wake-up: while a thread sleeps in receive, some *)
(* sender is counted, and each message in the queue has a thread that was  *)
(* woken for it and has not looked yet.                                    *)
NoLostWakeup ==
  \A c \in Inner :
    Sleeping(c) # {} =>
      /\ senders[c] > 0
      /\ messages[c] <= Cardinality({r \in Pointing(ReceiverEnd, c) : thread[r] = "woken"})

(* Whoever waits in receive when the last sender goes returns from it,     *)
(* unless a move assignment has lost a sender: then it may wait for ever.  *)
ReceiverFreed ==
  \A r \in ReceiverEnd : \A c \in Inner :
    (inner[r] = c /\ thread[r] # "running" /\ Pointing(SenderEnd, c) = {}
       /\ leaked[c].senders = 0)
      ~> thread[r] = "running"
=============================================================================
