------------------------- MODULE ServerProfileTable -------------------------
(***************************************************************************)
(* The server's ServerProfileTable (server/data.cpp): the profiles and     *)
(* sessions in memory, the notifications queued for followers, the channel *)
(* of wake-ups to the notification manager that `notify' fills and         *)
(* `consume_one_notif' answers, and the thread that saves the table to a   *)
(* file.  Every operation holds data_control_mutex, so it is one action;   *)
(* saving releases that mutex before it touches the file, so it is three.  *)
(*                                                                         *)
(* The callers are the profile manager, which serves requests one at a     *)
(* time until its channel is disconnected and then calls `shutdown', and   *)
(* the notification manager, which passes what it consumes on through a    *)
(* channel to the communication manager.  A request that is refused with a *)
(* ThrowableMessageError changes nothing and is no action.                 *)
(*                                                                         *)
(* An operator named Mutant... is a wrong version of the definition below  *)
(* it, no part of the specification: with it in that definition's place    *)
(* TLC refutes the properties that depend on it.                           *)
(***************************************************************************)
EXTENDS Integers, Sequences, FiniteSets

CONSTANTS Username,      \* names of profiles
          Address,       \* addresses of clients
          MaxSessions,   \* MAX_SESSIONS_PER_PROF, 2 in the code
          MaxNotifs,     \* bound: notifications one profile sends in a run
          NoUser,        \* no username: an address without a session
          Unreadable     \* contents of a file that `load' cannot read

ASSUME UsernameAssumption == IsFiniteSet(Username) /\ NoUser \notin Username
ASSUME AddressAssumption == IsFiniteSet(Address)
ASSUME BoundAssumption == MaxSessions \in Nat \ {0} /\ MaxNotifs \in Nat

VARIABLES
  profiles,          \* the keys of the map of profiles
  followers,         \* followers[u]: the names that follow u
  prof_sessions,     \* prof_sessions[u]: the addresses logged in as u
  notif_counter,     \* notif_counter[u]: the last id given to a notification
  received_notifs,   \* received_notifs[u]: id -> pending_count, of u's notifications
  pending_notifs,    \* pending_notifs[u]: queue of <<sender, id>> to deliver to u
  sessions,          \* address -> the username it logged in with, or NoUser
  dirty, active,     \* the flags of the persistence condition variable
  wakeups,           \* names in the channel to the notification manager, as a bag
  wakeups_open,      \* that channel still has a receiver
  to_be_notif,       \* the name the notification manager has taken, or NoUser
  notif_manager,     \* control state of the notification manager
  deliveries_open,   \* its channel to the communication manager has a receiver
  persister,         \* control state of the thread in persist_on_dirty
  snapshot,          \* what that thread serialized
  last_round,        \* the `active' it read was FALSE
  save_failed,       \* history: the last write of this process has failed
  file               \* contents of the file

memoryVars == <<profiles, followers, prof_sessions, notif_counter,
                received_notifs, pending_notifs, sessions>>
managerVars == <<to_be_notif, notif_manager, deliveries_open>>
channelVars == <<wakeups, wakeups_open, managerVars>>
persisterVars == <<persister, snapshot, last_round, save_failed, file>>
vars == <<memoryVars, channelVars, persisterVars, dirty, active>>

-----------------------------------------------------------------------------
\* What Profile::serialize writes: names and followers, nothing else.
SavedData == [profiles : SUBSET Username, followers : [Username -> SUBSET Username]]
Saved == [profiles |-> profiles, followers |-> followers]
NothingSaved == [profiles |-> {}, followers |-> [u \in Username |-> {}]]
ASSUME UnreadableAssumption == Unreadable \notin SavedData

\* The table that `load' makes of a file: empty when it cannot be read.
Loaded(contents) == IF contents = Unreadable THEN NothingSaved ELSE contents

TypeOK ==
  /\ profiles \in SUBSET Username
  /\ followers \in [Username -> SUBSET Username]
  /\ prof_sessions \in [Username -> SUBSET Address]
  /\ notif_counter \in [Username -> Nat]
  /\ DOMAIN received_notifs = Username
  /\ \A u \in Username :
        /\ DOMAIN received_notifs[u] \subseteq Nat
        /\ received_notifs[u] \in [DOMAIN received_notifs[u] -> Int]
  /\ pending_notifs \in [Username -> Seq(Username \X Nat)]
  /\ sessions \in [Address -> Username \cup {NoUser}]
  /\ dirty \in BOOLEAN /\ active \in BOOLEAN
  /\ wakeups \in [Username -> Nat]
  /\ wakeups_open \in BOOLEAN
  /\ to_be_notif \in Username \cup {NoUser}
  /\ notif_manager \in {"receiving", "consuming", "delivering", "ended"}
  /\ notif_manager = "consuming" <=> to_be_notif # NoUser
  /\ deliveries_open \in BOOLEAN
  /\ persister \in {"waiting", "snapped", "writing", "done"}
  /\ snapshot \in SavedData
  /\ last_round \in BOOLEAN /\ save_failed \in BOOLEAN
  /\ file \in SavedData \cup {Unreadable}

-----------------------------------------------------------------------------
Init ==
  /\ profiles = {}
  /\ followers = [u \in Username |-> {}]
  /\ prof_sessions = [u \in Username |-> {}]
  /\ notif_counter = [u \in Username |-> 0]
  /\ received_notifs = [u \in Username |-> <<>>]
  /\ pending_notifs = [u \in Username |-> <<>>]
  /\ sessions = [c \in Address |-> NoUser]
  /\ dirty = FALSE /\ active = TRUE
  /\ wakeups = [u \in Username |-> 0]
  /\ wakeups_open = TRUE
  /\ to_be_notif = NoUser
  /\ notif_manager = "receiving" /\ deliveries_open = TRUE
  /\ persister = "waiting"
  /\ snapshot = NothingSaved
  /\ last_round = FALSE /\ save_failed = FALSE
  /\ file = Unreadable

-----------------------------------------------------------------------------
(* Requests, from the profile manager.                                     *)

MutantHasRoom(u) == Cardinality(prof_sessions[u]) <= MaxSessions  \* off by one
HasRoom(u) == Cardinality(prof_sessions[u]) < MaxSessions

\* The session entry of a client that has one is left as it is: std::map's
\* insert does not overwrite.
Connect(client, u) ==
  /\ active
  /\ HasRoom(u)                         \* else MSG_TOO_MANY_SESSIONS
  /\ profiles' = profiles \cup {u}
  /\ prof_sessions' = [prof_sessions EXCEPT ![u] = @ \cup {client}]
  /\ sessions' = IF sessions[client] = NoUser
                   THEN [sessions EXCEPT ![client] = u]
                   ELSE sessions
  /\ dirty' = TRUE
  /\ UNCHANGED <<followers, notif_counter, received_notifs, pending_notifs,
                 active, channelVars, persisterVars>>

\* The table is marked dirty even when the client had no session.
Disconnect(client) ==
  /\ active
  /\ sessions' = [sessions EXCEPT ![client] = NoUser]
  /\ prof_sessions' = IF sessions[client] = NoUser
                        THEN prof_sessions
                        ELSE [prof_sessions EXCEPT ![sessions[client]] = @ \ {client}]
  /\ dirty' = TRUE
  /\ UNCHANGED <<profiles, followers, notif_counter, received_notifs,
                 pending_notifs, active, channelVars, persisterVars>>

MutantMayFollow(client, followed) ==   \* lets a user follow himself
  sessions[client] # NoUser /\ followed \in profiles
MayFollow(client, followed) ==
  /\ sessions[client] # NoUser         \* else MSG_NO_CONNECTION
  /\ followed \in profiles             \* else MSG_UNKNOWN_USERNAME
  /\ sessions[client] # followed       \* else MSG_CANNOT_FOLLOW_SELF

Follow(client, followed) ==
  /\ active
  /\ MayFollow(client, followed)
  /\ followers' = [followers EXCEPT ![followed] = @ \cup {sessions[client]}]
  /\ dirty' = TRUE
  /\ UNCHANGED <<profiles, prof_sessions, notif_counter, received_notifs,
                 pending_notifs, sessions, active, channelVars, persisterVars>>

MutantNextId(sender) == notif_counter[sender]   \* the id before it is incremented
NextId(sender) == notif_counter[sender] + 1

\* The notification is recorded as pending for every follower, then queued at,
\* and a wake-up sent for, those in `reached'.
RecordNotif(sender, reached) ==
  LET id == NextId(sender) IN
  /\ id <= MaxNotifs
  /\ notif_counter' = [notif_counter EXCEPT ![sender] = id]
  /\ received_notifs' = [received_notifs EXCEPT ![sender] =
        [i \in DOMAIN @ \cup {id} |->
           IF i = id THEN Cardinality(followers[sender]) ELSE @[i]]]
  /\ wakeups' = [u \in Username |-> IF u \in reached THEN wakeups[u] + 1 ELSE wakeups[u]]
  /\ pending_notifs' = [u \in Username |->
        IF u \in reached THEN Append(pending_notifs[u], <<sender, id>>)
                         ELSE pending_notifs[u]]
  /\ UNCHANGED <<profiles, followers, prof_sessions, sessions, managerVars,
                 persisterVars>>

Notify(client) ==
  /\ active
  /\ sessions[client] # NoUser         \* else MSG_NO_CONNECTION
  /\ \/ wakeups_open
     \/ followers[sessions[client]] = {}
  /\ RecordNotif(sessions[client], followers[sessions[client]])
  /\ UNCHANGED <<dirty, active, wakeups_open>>

\* The main thread disconnects the wake-ups without the table's mutex: before
\* or in the middle of the loop over the followers.  The send that finds no
\* receiver throws, which ends the profile manager, and its guard calls
\* `shutdown'.
NotifyInterrupted(client, reached) ==
  /\ active
  /\ sessions[client] # NoUser
  /\ reached \subseteq followers[sessions[client]]
  /\ reached # followers[sessions[client]]
  /\ ~deliveries_open
  /\ wakeups_open \/ reached = {}
  /\ wakeups_open' = FALSE
  /\ RecordNotif(sessions[client], reached)
  /\ active' = FALSE
  /\ UNCHANGED dirty

\* The profile manager's channel is disconnected while it waits in receive.
Shutdown ==
  /\ active
  /\ active' = FALSE
  /\ UNCHANGED <<memoryVars, channelVars, persisterVars, dirty>>

\* The main thread disconnects the channel to the communication manager
\* before the one to the notification manager.
DisconnectDeliveries ==
  /\ deliveries_open
  /\ deliveries_open' = FALSE
  /\ UNCHANGED <<memoryVars, wakeups, wakeups_open, to_be_notif, notif_manager,
                 persisterVars, dirty, active>>

DisconnectWakeups ==
  /\ ~deliveries_open /\ wakeups_open
  /\ wakeups_open' = FALSE
  /\ UNCHANGED <<memoryVars, wakeups, managerVars, persisterVars, dirty, active>>

-----------------------------------------------------------------------------
(* The notification manager.                                               *)

\* What taking the name u out of the channel does.
Taken(u) ==
  /\ wakeups' = [wakeups EXCEPT ![u] = @ - 1]
  /\ to_be_notif' = u
  /\ notif_manager' = "consuming"
  /\ UNCHANGED <<memoryVars, wakeups_open, deliveries_open, persisterVars, dirty, active>>

MutantUnguardedTakeWakeup(u) ==   \* takes a name while it still has one
  notif_manager \in {"receiving", "consuming"} /\ wakeups[u] > 0 /\ Taken(u)
MutantEmptyTakeWakeup(u) ==       \* does not look whether the channel is empty
  notif_manager = "receiving" /\ Taken(u)
TakeWakeup(u) == notif_manager = "receiving" /\ wakeups[u] > 0 /\ Taken(u)

\* pending_count of a stored notification; 0 for the one operator[] would make.
PendingCount(sender, id) ==
  IF id \in DOMAIN received_notifs[sender] THEN received_notifs[sender][id] ELSE 0

\* The notifications of `sender' when one queue less holds `id'.
MutantOneLess(sender, id) ==   \* compares the count before it is decremented
  LET left == PendingCount(sender, id) - 1
      ids == DOMAIN received_notifs[sender] \cup {id}
  IN [i \in IF left <= 1 THEN ids \ {id} ELSE ids |->
        IF i = id THEN left ELSE received_notifs[sender][i]]
OneLess(sender, id) ==
  LET left == PendingCount(sender, id) - 1
      ids == DOMAIN received_notifs[sender] \cup {id}
  IN [i \in IF left = 0 THEN ids \ {id} ELSE ids |->
        IF i = id THEN left ELSE received_notifs[sender][i]]

ConsumeOneNotif(u) ==
  /\ notif_manager = "consuming" /\ to_be_notif = u
  /\ to_be_notif' = NoUser
  /\ \/ /\ pending_notifs[u] = <<>>
        /\ notif_manager' = "receiving"
        /\ UNCHANGED <<pending_notifs, received_notifs>>
     \/ /\ pending_notifs[u] # <<>>
        /\ LET sender == Head(pending_notifs[u])[1]
               id == Head(pending_notifs[u])[2]
           IN received_notifs' = [received_notifs EXCEPT ![sender] = OneLess(sender, id)]
        /\ pending_notifs' = [pending_notifs EXCEPT ![u] = Tail(@)]
        /\ notif_manager' = IF prof_sessions[u] = {} THEN "receiving" ELSE "delivering"
  /\ UNCHANGED <<profiles, followers, prof_sessions, notif_counter, sessions,
                 wakeups, wakeups_open, deliveries_open, persisterVars, dirty, active>>

\* One request to each address in the sessions that consume_one_notif
\* returned; a send without a receiver ends the manager.
Deliver ==
  /\ notif_manager = "delivering"
  /\ notif_manager' = IF deliveries_open THEN "receiving" ELSE "ended"
  /\ UNCHANGED <<memoryVars, wakeups, wakeups_open, to_be_notif, deliveries_open,
                 persisterVars, dirty, active>>

-----------------------------------------------------------------------------
(* The persister thread, and the process around it.                        *)

\* The part of persist_on_dirty under data_control_mutex.
PersistSnapshot ==
  /\ persister = "waiting"
  /\ dirty \/ ~active
  /\ dirty' = FALSE
  /\ persister' = IF dirty THEN "snapped" ELSE "done"
  /\ snapshot' = IF dirty THEN Saved ELSE snapshot
  /\ last_round' = ~active
  /\ UNCHANGED <<memoryVars, channelVars, active, save_failed, file>>

\* Opening the file empties it.
PersistTruncate ==
  /\ persister = "snapped"
  /\ file' = Unreadable
  /\ persister' = "writing"
  /\ UNCHANGED <<memoryVars, channelVars, dirty, active, snapshot, last_round, save_failed>>

\* A file that cannot be opened stays as it is; the failure is only logged.
PersistCannotOpen ==
  /\ persister = "snapped"
  /\ save_failed' = TRUE
  /\ persister' = IF last_round THEN "done" ELSE "waiting"
  /\ snapshot' = NothingSaved
  /\ UNCHANGED <<memoryVars, channelVars, dirty, active, last_round, file>>

MutantPersistWrite ==   \* clears `dirty' after the write instead of before it
  /\ persister = "writing"
  /\ file' = snapshot /\ save_failed' = FALSE
  /\ dirty' = FALSE
  /\ persister' = IF last_round THEN "done" ELSE "waiting"
  /\ snapshot' = NothingSaved
  /\ UNCHANGED <<memoryVars, channelVars, active, last_round>>

\* A failure is only logged: `dirty' is not set again.  It leaves a part of the
\* text in the file, which may lack no more than the end of the line.
PersistWrite ==
  /\ persister = "writing"
  /\ \/ file' = snapshot /\ save_failed' = FALSE
     \/ file' \in {file, snapshot} /\ save_failed' = TRUE
  /\ persister' = IF last_round THEN "done" ELSE "waiting"
  /\ snapshot' = NothingSaved
  /\ UNCHANGED <<memoryVars, channelVars, dirty, active, last_round>>

MutantLoad(data) ==   \* forgets who follows whom
  profiles' = data.profiles /\ followers' = NothingSaved.followers
Load(data) == profiles' = data.profiles /\ followers' = data.followers

\* The process ends, by a crash at any point or because its threads are done,
\* and a new one loads the file.
Restart ==
  /\ Load(Loaded(file))
  /\ prof_sessions' = [u \in Username |-> {}]
  /\ notif_counter' = [u \in Username |-> 0]
  /\ received_notifs' = [u \in Username |-> <<>>]
  /\ pending_notifs' = [u \in Username |-> <<>>]
  /\ sessions' = [c \in Address |-> NoUser]
  /\ dirty' = FALSE /\ active' = TRUE
  /\ wakeups' = [u \in Username |-> 0]
  /\ wakeups_open' = TRUE
  /\ to_be_notif' = NoUser
  /\ notif_manager' = "receiving" /\ deliveries_open' = TRUE
  /\ persister' = "waiting"
  /\ snapshot' = NothingSaved
  /\ last_round' = FALSE /\ save_failed' = FALSE
  /\ UNCHANGED file

-----------------------------------------------------------------------------
Request ==
  \E client \in Address :
    \/ \E u \in Username : Connect(client, u)
    \/ Disconnect(client)
    \/ \E u \in Username : Follow(client, u)
    \/ Notify(client)
    \/ \E reached \in SUBSET Username : NotifyInterrupted(client, reached)

NotifManager ==
  \/ \E u \in Username : TakeWakeup(u)
  \/ \E u \in Username : ConsumeOneNotif(u)
  \/ Deliver

Persister == PersistSnapshot \/ PersistTruncate \/ PersistCannotOpen \/ PersistWrite

Next ==
  \/ Request
  \/ Shutdown
  \/ DisconnectDeliveries
  \/ DisconnectWakeups
  \/ NotifManager
  \/ Persister
  \/ Restart

Spec == Init /\ [][Next]_vars

\* The notification manager and the persister are threads that run whenever
\* their channel or condition variable lets them; nothing makes clients act.
FairSpec == Spec /\ WF_vars(NotifManager) /\ WF_vars(Persister)

-----------------------------------------------------------------------------
(* Properties.                                                             *)

\* The queues that hold the notification `id' of `sender'.
Queued(u, sender, id) ==
  \E i \in 1..Len(pending_notifs[u]) : pending_notifs[u][i] = <<sender, id>>
Waiting(sender, id) == {u \in Username : Queued(u, sender, id)}

(* An address with a session is listed under the profile it logged in to,  *)
(* so that notifications reach it; only existing profiles have sessions,   *)
(* at most MAX_SESSIONS_PER_PROF of them.  (The converse is not true of    *)
(* the code: an address that connects over its own session under another   *)
(* name is listed under both.)                                             *)
SessionsConsistent ==
  /\ \A c \in Address : sessions[c] # NoUser =>
        sessions[c] \in profiles /\ c \in prof_sessions[sessions[c]]
  /\ \A u \in Username :
        /\ Cardinality(prof_sessions[u]) <= MaxSessions
        /\ u \notin profiles => prof_sessions[u] = {}

(* Every follower is an existing profile and nobody follows himself, also  *)
(* after a crash at any point of a save: `notify' never meets a follower   *)
(* without a profile in the middle of its loop, and the operator[] of      *)
(* `consume_one_notif' never makes one.                                    *)
FollowersKnown ==
  \A u \in Username :
    /\ followers[u] \subseteq profiles \ {u}
    /\ u \notin profiles => followers[u] = {}

(* A notification stays stored as long as any follower's queue holds it,   *)
(* and its pending_count is the number of those queues, so it is decreased *)
(* to zero by the last of them and never below.  A `notify' cut short by   *)
(* the shutdown of the channel may leave the count too high, never too low.*)
PendingCountExact ==
  /\ \A u, sender \in Username : \A id \in 1..MaxNotifs :
        Queued(u, sender, id) => id \in DOMAIN received_notifs[sender]
  /\ \A sender \in Username : \A id \in DOMAIN received_notifs[sender] :
        LET waiting == Cardinality(Waiting(sender, id)) IN
        /\ received_notifs[sender][id] >= waiting
        /\ active => received_notifs[sender][id] = waiting

(* A queue holds the notifications of a sender in the order they were      *)
(* sent, and none of them twice.                                           *)
QueueInOrder ==
  \A u \in Username : \A i, j \in 1..Len(pending_notifs[u]) :
    i < j /\ pending_notifs[u][i][1] = pending_notifs[u][j][1] =>
      pending_notifs[u][i][2] < pending_notifs[u][j][2]

(* There is one wake-up on its way to `consume_one_notif', in the channel  *)
(* or in the hand of the notification manager, for each queued entry: no   *)
(* entry is left behind and no wake-up is for nothing.                     *)
WakeupPerNotif ==
  \A u \in Username :
    Len(pending_notifs[u]) = wakeups[u] + (IF to_be_notif = u THEN 1 ELSE 0)

(* When persist_on_dirty returns FALSE after a graceful shutdown, the file *)
(* loads to exactly what the table holds, whatever was changed while an    *)
(* earlier save was under way.  Only when the last write of the file has   *)
(* failed is it behind: nothing repeats that write.                        *)
GracefulSave ==
  persister = "done" => Loaded(file) = Saved \/ save_failed

(* What a restart finds in the file is never ahead of the table: no        *)
(* profile and no follower that the table does not have.                   *)
FileBehindMemory ==
  /\ Loaded(file).profiles \subseteq profiles
  /\ \A u \in Username : Loaded(file).followers[u] \subseteq followers[u]

(* Every profile and every follower gets saved, unless a crash removes it  *)
(* from memory first or a write fails: no change is forgotten because it   *)
(* happened while the persister was busy with the previous one.            *)
EventuallySaved ==
  \A u \in Username :
    /\ u \in profiles ~>
         u \in Loaded(file).profiles \/ u \notin profiles \/ save_failed
    /\ \A f \in Username : f \in followers[u] ~>
         f \in Loaded(file).followers[u] \/ f \notin followers[u] \/ save_failed
=============================================================================
