---------------------- MODULE ServerProfileTable_proofs ----------------------
(***************************************************************************)
(* Proofs about ServerProfileTable: its type invariant, and the safety     *)
(* properties that the runs of MCServerProfileTable check on a few names   *)
(* and addresses, here for any finite sets of them and any bounds; then    *)
(* what is read of the text of its file, and of any text that Plaintext    *)
(* writes, whole or broken off.                                            *)
(***************************************************************************)
EXTENDS TableText, FiniteSetTheorems, SequenceTheorems, WellFoundedInduction, TLAPS

USE DEF memoryVars, managerVars, channelVars, persisterVars

-----------------------------------------------------------------------------
(* Type correctness.                                                       *)

\* What `load' finds in a file is a table, readable or not.
LEMMA LoadedType ==
  ASSUME NEW contents \in SavedData \cup {Unreadable}
  PROVE  Loaded(contents) \in SavedData
BY DEF Loaded, NothingSaved, SavedData

\* A table that has just been made stores and queues no notification.
LEMMA NoNotifs ==
  DOMAIN <<>> = {} /\ <<>> \in [DOMAIN <<>> -> Int] /\ <<>> \in Seq(Username \X Nat)
<1>1. DOMAIN <<>> = {} /\ <<>> \in Seq(Username \X Nat)
  OBVIOUS
<1>2. <<>> \in [{} -> Int]
  BY SMT
<1> QED
  BY <1>1, <1>2

LEMMA FiniteFollowers ==
  ASSUME TypeOK, NEW u \in Username
  PROVE  IsFiniteSet(followers[u]) /\ Cardinality(followers[u]) \in Nat
BY UsernameAssumption, FS_Subset, FS_CardinalityType DEF TypeOK

\* What both outcomes of `notify' have in common.
LEMMA RecordNotifType ==
  ASSUME TypeOK, NEW sender \in Username, NEW reached \in SUBSET Username,
         RecordNotif(sender, reached), active' \in BOOLEAN, dirty' \in BOOLEAN,
         wakeups_open' \in BOOLEAN
  PROVE  TypeOK'
<1> DEFINE id == notif_counter[sender] + 1
<1>1. notif_counter' \in [Username -> Nat]
  BY DEF RecordNotif, NextId, TypeOK
<1>2. /\ DOMAIN received_notifs' = Username
      /\ \A u \in Username :
            /\ DOMAIN received_notifs'[u] \subseteq Nat
            /\ received_notifs'[u] \in [DOMAIN received_notifs'[u] -> Int]
  <2>1. id \in Nat
    BY DEF TypeOK
  <2>2. Cardinality(followers[sender]) \in Nat
    BY FiniteFollowers
  <2>3. received_notifs' = [received_notifs EXCEPT ![sender] =
          [i \in DOMAIN @ \cup {id} |->
             IF i = id THEN Cardinality(followers[sender]) ELSE @[i]]]
    BY DEF RecordNotif, NextId
  <2> QED
    BY <2>1, <2>2, <2>3 DEF TypeOK
<1>3. pending_notifs' \in [Username -> Seq(Username \X Nat)]
  <2>1. <<sender, id>> \in Username \X Nat
    BY DEF TypeOK
  <2> QED
    BY <2>1 DEF RecordNotif, NextId, TypeOK
<1>4. wakeups' \in [Username -> Nat]
  BY DEF RecordNotif, TypeOK
<1> QED
  BY <1>1, <1>2, <1>3, <1>4 DEF RecordNotif, TypeOK

LEMMA ConsumeOneNotifType ==
  ASSUME TypeOK, NEW u \in Username, ConsumeOneNotif(u)
  PROVE  TypeOK'
<1>1. CASE pending_notifs[u] = <<>>
  BY <1>1 DEF ConsumeOneNotif, TypeOK
<1>2. CASE pending_notifs[u] # <<>>
  <2> DEFINE sender == Head(pending_notifs[u])[1]
             id == Head(pending_notifs[u])[2]
             left == PendingCount(sender, id) - 1
             ids == DOMAIN received_notifs[sender] \cup {id}
  <2>1. sender \in Username /\ id \in Nat /\ Tail(pending_notifs[u]) \in Seq(Username \X Nat)
    <3>1. pending_notifs[u] \in Seq(Username \X Nat)
      BY DEF TypeOK
    <3> QED
      BY <1>2, <3>1
  <2>2. left \in Int
    BY <2>1 DEF PendingCount, TypeOK
  <2>3. received_notifs' = [received_notifs EXCEPT ![sender] =
          [i \in IF left = 0 THEN ids \ {id} ELSE ids |-> IF i = id THEN left ELSE @[i]]]
    BY <1>2 DEF ConsumeOneNotif, OneLess
  <2>4. /\ DOMAIN received_notifs' = Username
        /\ \A v \in Username :
              /\ DOMAIN received_notifs'[v] \subseteq Nat
              /\ received_notifs'[v] \in [DOMAIN received_notifs'[v] -> Int]
    BY <2>1, <2>2, <2>3, ZenonT(40) DEF TypeOK
  <2>5. pending_notifs' \in [Username -> Seq(Username \X Nat)]
    <3>1. pending_notifs' = [pending_notifs EXCEPT ![u] = Tail(@)]
      BY <1>2 DEF ConsumeOneNotif
    <3> QED
      BY <2>1, <3>1 DEF TypeOK
  <2> QED
    BY <2>4, <2>5, SMTT(30) DEF ConsumeOneNotif, TypeOK
<1> QED
  BY <1>1, <1>2, Zenon

LEMMA TypeInit == Init => TypeOK
<1> SUFFICES ASSUME Init
             PROVE  TypeOK
  OBVIOUS
<1>1. snapshot \in SavedData /\ file \in SavedData \cup {Unreadable}
  BY DEF Init, NothingSaved, SavedData
<1>2. \A u \in Username : received_notifs[u] = <<>> /\ pending_notifs[u] = <<>>
  BY DEF Init
<1> QED
  BY <1>1, <1>2, NoNotifs DEF Init, TypeOK

LEMMA TypeStep == TypeOK /\ [Next]_vars => TypeOK'
<1> SUFFICES ASSUME TypeOK, [Next]_vars
             PROVE  TypeOK'
  OBVIOUS
<1>1. ASSUME NEW c \in Address, NEW u \in Username, Connect(c, u)
      PROVE  TypeOK'
  BY <1>1 DEF Connect, TypeOK
<1>2. ASSUME NEW c \in Address, Disconnect(c)
      PROVE  TypeOK'
  BY <1>2 DEF Disconnect, TypeOK
<1>3. ASSUME NEW c \in Address, NEW u \in Username, Follow(c, u)
      PROVE  TypeOK'
  BY <1>3 DEF Follow, MayFollow, TypeOK
<1>4. ASSUME NEW c \in Address, Notify(c)
      PROVE  TypeOK'
  <2>1. sessions[c] \in Username /\ followers[sessions[c]] \in SUBSET Username
    BY <1>4 DEF Notify, TypeOK
  <2> QED
    BY <1>4, <2>1, RecordNotifType DEF Notify, TypeOK
<1>5. ASSUME NEW c \in Address, NEW reached \in SUBSET Username, NotifyInterrupted(c, reached)
      PROVE  TypeOK'
  <2>1. sessions[c] \in Username
    BY <1>5 DEF NotifyInterrupted, TypeOK
  <2> QED
    BY <1>5, <2>1, RecordNotifType DEF NotifyInterrupted, TypeOK
<1>6. CASE Shutdown
  BY <1>6, ZenonT(40) DEF Shutdown, TypeOK
<1>7. CASE DisconnectDeliveries \/ DisconnectWakeups \/ Deliver
  <2>1. CASE DisconnectDeliveries
    BY <2>1, ZenonT(40) DEF DisconnectDeliveries, TypeOK
  <2>2. CASE DisconnectWakeups
    BY <2>2 DEF DisconnectWakeups, TypeOK
  <2>3. CASE Deliver
    BY <2>3 DEF Deliver, TypeOK
  <2> QED
    BY <1>7, <2>1, <2>2, <2>3
<1>8. ASSUME NEW u \in Username, TakeWakeup(u)
      PROVE  TypeOK'
  BY <1>8, UsernameAssumption DEF TakeWakeup, Taken, TypeOK
<1>9. ASSUME NEW u \in Username, ConsumeOneNotif(u)
      PROVE  TypeOK'
  BY <1>9, ConsumeOneNotifType
<1>10. CASE PersistSnapshot
  BY <1>10 DEF PersistSnapshot, TypeOK, Saved, SavedData
<1>11. CASE PersistTruncate
  BY <1>11 DEF PersistTruncate, TypeOK
<1>12. CASE PersistCannotOpen \/ PersistWrite
  <2>1. CASE PersistCannotOpen
    BY <2>1 DEF PersistCannotOpen, TypeOK, NothingSaved, SavedData
  <2>2. CASE PersistWrite
    BY <2>2 DEF PersistWrite, TypeOK, NothingSaved, SavedData
  <2> QED
    BY <1>12, <2>1, <2>2
<1>13. CASE Restart
  <2>1. Loaded(file) \in SavedData
    BY LoadedType DEF TypeOK
  <2>2. profiles' \in SUBSET Username /\ followers' \in [Username -> SUBSET Username]
    BY <1>13, <2>1 DEF Restart, Load, SavedData
  <2>3. snapshot' \in SavedData /\ file' \in SavedData \cup {Unreadable}
    BY <1>13 DEF Restart, NothingSaved, SavedData, TypeOK
  <2>4. \A u \in Username : received_notifs'[u] = <<>> /\ pending_notifs'[u] = <<>>
    BY <1>13 DEF Restart
  <2> QED
    BY <1>13, <2>2, <2>3, <2>4, NoNotifs DEF Restart, TypeOK
<1>14. CASE UNCHANGED vars
  BY <1>14 DEF vars, TypeOK
<1> QED
  BY <1>1, <1>2, <1>3, <1>4, <1>5, <1>6, <1>7, <1>8, <1>9, <1>10, <1>11, <1>12,
     <1>13, <1>14 DEF Next, Request, NotifManager, Persister

(* Every reachable state of the table is well typed: ids, counters, queues *)
(* and sessions stay in range under every request, interruption, save and  *)
(* restart.                                                                *)
THEOREM TypeCorrect == Spec => []TypeOK
BY TypeInit, TypeStep, PTL DEF Spec

-----------------------------------------------------------------------------
(* Saving.  The file is only known to be up to date when nothing changed   *)
(* since the snapshot was taken, which is what `dirty' tells: the          *)
(* invariant follows the last change through the snapshot into the file.   *)

SaveInv ==
  /\ last_round => ~active /\ ~dirty
  /\ persister = "waiting" /\ ~dirty => Loaded(file) = Saved \/ save_failed
  /\ persister \in {"snapped", "writing"} /\ ~dirty => snapshot = Saved
  /\ persister = "done" => ~active /\ ~dirty /\ (Loaded(file) = Saved \/ save_failed)

\* Steps that neither change what a save writes nor touch the persister.
LEMMA SaveUntouched ==
  ASSUME TypeOK, SaveInv, UNCHANGED <<profiles, followers, persisterVars, dirty>>,
         active' => active
  PROVE  SaveInv'
BY DEF SaveInv, Saved

\* A request that changes the table is served while it is active, and marks it.
LEMMA SaveMarked ==
  ASSUME TypeOK, SaveInv, active, dirty', UNCHANGED <<persisterVars, active>>
  PROVE  SaveInv'
BY DEF SaveInv, TypeOK

LEMMA SaveInit == Init => SaveInv
BY DEF Init, SaveInv, Loaded, Saved, NothingSaved

LEMMA SaveStep == TypeOK /\ SaveInv /\ [Next]_vars => SaveInv'
<1> SUFFICES ASSUME TypeOK, SaveInv, [Next]_vars
             PROVE  SaveInv'
  OBVIOUS
<1>1. ASSUME NEW c \in Address, NEW u \in Username,
             Connect(c, u) \/ Follow(c, u)
      PROVE  SaveInv'
  BY <1>1, SaveMarked DEF Connect, Follow
<1>2. ASSUME NEW c \in Address, Disconnect(c)
      PROVE  SaveInv'
  BY <1>2, SaveMarked DEF Disconnect
<1>3. ASSUME NEW c \in Address, NEW reached \in SUBSET Username,
             NotifyInterrupted(c, reached)
      PROVE  SaveInv'
  BY <1>3, SaveUntouched DEF NotifyInterrupted, RecordNotif
<1>4. ASSUME NEW c \in Address, Notify(c)
      PROVE  SaveInv'
  BY <1>4, SaveUntouched DEF Notify, RecordNotif
<1>5. CASE Shutdown \/ DisconnectDeliveries \/ DisconnectWakeups \/ Deliver
  BY <1>5, SaveUntouched DEF Shutdown, DisconnectDeliveries, DisconnectWakeups, Deliver
<1>6. ASSUME NEW u \in Username, TakeWakeup(u) \/ ConsumeOneNotif(u)
      PROVE  SaveInv'
  BY <1>6, SaveUntouched DEF TakeWakeup, Taken, ConsumeOneNotif
<1>7. CASE PersistSnapshot
  BY <1>7 DEF PersistSnapshot, SaveInv, TypeOK, Saved
<1>8. CASE PersistTruncate
  BY <1>8 DEF PersistTruncate, SaveInv, TypeOK, Saved
<1>12. CASE PersistCannotOpen
  BY <1>12 DEF PersistCannotOpen, SaveInv, TypeOK, Saved
<1>9. CASE PersistWrite
  <2>1. Loaded(snapshot) = snapshot
    BY UnreadableAssumption DEF Loaded, TypeOK
  <2>2. Loaded(file') = snapshot \/ save_failed'
    BY <1>9, <2>1 DEF PersistWrite
  <2>3. Saved' = Saved
    BY <1>9 DEF PersistWrite, Saved
  <2> QED
    BY <1>9, <2>2, <2>3 DEF PersistWrite, SaveInv, TypeOK
<1>10. CASE Restart
  <2>1. Loaded(file) \in SavedData
    BY LoadedType DEF TypeOK
  <2>2. Saved' = Loaded(file)
    BY <1>10, <2>1 DEF Restart, Load, Saved, SavedData
  <2> QED
    BY <1>10, <2>2 DEF Restart, SaveInv
<1>11. CASE UNCHANGED vars
  BY <1>11, SaveUntouched DEF vars
<1> QED
  BY <1>1, <1>2, <1>3, <1>4, <1>5, <1>6, <1>7, <1>8, <1>9, <1>10, <1>11,
     <1>12 DEF Next, Request, NotifManager, Persister

(* When persist_on_dirty returns FALSE the file holds the whole table,     *)
(* whatever requests changed it while earlier saves were under way.        *)
THEOREM GracefulSaveCorrect == Spec => []GracefulSave
<1>1. SaveInv => GracefulSave
  BY DEF SaveInv, GracefulSave
<1> QED
  BY <1>1, TypeInit, TypeStep, SaveInit, SaveStep, PTL DEF Spec

-----------------------------------------------------------------------------
(* Sessions, followers and what a restart finds of them.  A follower is a  *)
(* profile because only a client with a session follows, and a session is  *)
(* of a profile; a restart takes profiles and followers from the file, so  *)
(* the file and the snapshot on its way there must be as good as memory.   *)

WellFormed(data) ==
  \A u \in Username :
    /\ data.followers[u] \subseteq data.profiles \ {u}
    /\ u \notin data.profiles => data.followers[u] = {}

BehindMemory(data) ==
  /\ data.profiles \subseteq profiles
  /\ \A u \in Username : data.followers[u] \subseteq followers[u]

TableInv ==
  /\ SessionsConsistent
  /\ WellFormed(Saved)
  /\ \A data \in {Loaded(file), snapshot} : WellFormed(data) /\ BehindMemory(data)

\* Profiles and followers are only added: what was behind them stays behind.
LEMMA BehindGrowing ==
  ASSUME TableInv, profiles \subseteq profiles',
         \A u \in Username : followers[u] \subseteq followers'[u],
         UNCHANGED persisterVars
  PROVE  \A data \in {Loaded(file'), snapshot'} :
            WellFormed(data) /\ (\A u \in Username : data.followers[u] \subseteq followers'[u])
                             /\ data.profiles \subseteq profiles'
BY DEF TableInv, BehindMemory, WellFormed

LEMMA FiniteSessions ==
  ASSUME TypeOK, NEW u \in Username
  PROVE  IsFiniteSet(prof_sessions[u]) /\ Cardinality(prof_sessions[u]) \in Nat
BY AddressAssumption, FS_Subset, FS_CardinalityType DEF TypeOK

\* Steps that leave sessions, profiles, followers and the saving of them alone.
LEMMA TableUntouched ==
  ASSUME TableInv, UNCHANGED <<profiles, followers, prof_sessions, sessions, file, snapshot>>
  PROVE  TableInv'
BY DEF TableInv, SessionsConsistent, WellFormed, BehindMemory, Saved

LEMMA TableInit == Init => TableInv
BY FS_EmptySet, BoundAssumption DEF Init, TableInv, SessionsConsistent, WellFormed, BehindMemory, Saved, Loaded,
   NothingSaved

LEMMA ConnectTable ==
  ASSUME TypeOK, TableInv, NEW c \in Address, NEW u \in Username, Connect(c, u)
  PROVE  TableInv'
<1>1. SessionsConsistent'
  <2>1. Cardinality(prof_sessions[u] \cup {c}) <= MaxSessions
    <3>1. Cardinality(prof_sessions[u] \cup {c}) = IF c \in prof_sessions[u]
            THEN Cardinality(prof_sessions[u]) ELSE Cardinality(prof_sessions[u]) + 1
      BY FS_AddElement, FiniteSessions
    <3>2. Cardinality(prof_sessions[u]) < MaxSessions
      BY DEF Connect, HasRoom
    <3> QED
      BY <3>1, <3>2, FiniteSessions, BoundAssumption
  <2>2. \A v \in Username : Cardinality(prof_sessions'[v]) <= MaxSessions
    BY <2>1 DEF Connect, TableInv, SessionsConsistent, TypeOK
  <2>3. \A v \in Username : v \notin profiles' => prof_sessions'[v] = {}
    BY DEF Connect, TableInv, SessionsConsistent, TypeOK
  <2>4. ASSUME NEW d \in Address, sessions'[d] # NoUser
        PROVE  sessions'[d] \in profiles' /\ d \in prof_sessions'[sessions'[d]]
    <3>1. CASE d = c /\ sessions[c] = NoUser
      BY <3>1 DEF Connect, TypeOK
    <3>2. CASE d # c \/ sessions[c] # NoUser
      <4>1. sessions'[d] = sessions[d]
        BY <3>2 DEF Connect, TypeOK
      <4>2. sessions[d] \in profiles /\ d \in prof_sessions[sessions[d]] /\ sessions[d] \in Username
        BY <2>4, <4>1 DEF TableInv, SessionsConsistent, TypeOK
      <4> QED
        BY <4>1, <4>2 DEF Connect, TypeOK
    <3> QED
      BY <3>1, <3>2
  <2> QED
    BY <2>2, <2>3, <2>4 DEF SessionsConsistent
<1>2. WellFormed(Saved)'
  BY DEF Connect, TableInv, WellFormed, Saved
<1>3. \A data \in {Loaded(file'), snapshot'} : WellFormed(data) /\ BehindMemory(data)'
  BY BehindGrowing DEF Connect, BehindMemory
<1> QED
  BY <1>1, <1>2, <1>3 DEF TableInv, WellFormed, BehindMemory, Loaded

LEMMA DisconnectTable ==
  ASSUME TypeOK, TableInv, NEW c \in Address, Disconnect(c)
  PROVE  TableInv'
<1>1. \A v \in Username : prof_sessions'[v] \in SUBSET prof_sessions[v]
  BY DEF Disconnect, TypeOK
<1>2. \A v \in Username : Cardinality(prof_sessions'[v]) <= MaxSessions
  <2> TAKE v \in Username
  <2>1. IsFiniteSet(prof_sessions[v]) /\ Cardinality(prof_sessions[v]) \in Nat
    BY FiniteSessions
  <2>2. /\ Cardinality(prof_sessions'[v]) \in Nat
        /\ Cardinality(prof_sessions'[v]) <= Cardinality(prof_sessions[v])
    BY <1>1, <2>1, FS_Subset, FS_CardinalityType
  <2>3. Cardinality(prof_sessions[v]) <= MaxSessions
    BY DEF TableInv, SessionsConsistent
  <2> QED
    BY <2>1, <2>2, <2>3, BoundAssumption
<1>3. \A v \in Username : v \notin profiles' => prof_sessions'[v] = {}
  BY <1>1 DEF Disconnect, TableInv, SessionsConsistent
<1>4. ASSUME NEW d \in Address, sessions'[d] # NoUser
      PROVE  sessions'[d] \in profiles' /\ d \in prof_sessions'[sessions'[d]]
  <2>1. d # c /\ sessions'[d] = sessions[d]
    BY <1>4 DEF Disconnect, TypeOK
  <2>2. sessions[d] \in profiles /\ d \in prof_sessions[sessions[d]] /\ sessions[d] \in Username
    BY <1>4, <2>1 DEF TableInv, SessionsConsistent, TypeOK
  <2> QED
    BY <2>1, <2>2 DEF Disconnect, TypeOK
<1>5. WellFormed(Saved)'
  BY DEF Disconnect, TableInv, WellFormed, Saved
<1>6. \A data \in {Loaded(file'), snapshot'} : WellFormed(data) /\ BehindMemory(data)'
  BY BehindGrowing DEF Disconnect, BehindMemory
<1> QED
  BY <1>2, <1>3, <1>4, <1>5, <1>6 DEF TableInv, SessionsConsistent, WellFormed, BehindMemory,
     Loaded

LEMMA FollowTable ==
  ASSUME TypeOK, TableInv, NEW c \in Address, NEW u \in Username, Follow(c, u)
  PROVE  TableInv'
<1>1. SessionsConsistent'
  BY DEF Follow, TableInv, SessionsConsistent
<1>2. sessions[c] \in profiles /\ sessions[c] # u /\ u \in profiles
  BY DEF Follow, MayFollow, TableInv, SessionsConsistent
<1>3. /\ followers' = [followers EXCEPT ![u] = @ \cup {sessions[c]}]
      /\ profiles' = profiles
  BY DEF Follow
<1>4. WellFormed(Saved)'
  BY <1>2, <1>3 DEF TableInv, WellFormed, Saved, TypeOK
<1>5. \A v \in Username : followers[v] \subseteq followers'[v]
  BY <1>3 DEF TypeOK
<1>6. \A data \in {Loaded(file'), snapshot'} : WellFormed(data) /\ BehindMemory(data)'
  BY <1>3, <1>5, BehindGrowing DEF Follow, BehindMemory
<1> QED
  BY <1>1, <1>4, <1>6 DEF TableInv, WellFormed, BehindMemory, Loaded

LEMMA NothingSavedTable ==
  WellFormed(NothingSaved) /\ BehindMemory(NothingSaved)
BY DEF WellFormed, BehindMemory, NothingSaved

LEMMA PersistTable ==
  ASSUME TypeOK, TableInv, Persister
  PROVE  TableInv'
<1>1. /\ WellFormed(Saved) /\ BehindMemory(Saved)
      /\ WellFormed(NothingSaved) /\ BehindMemory(NothingSaved)
  BY NothingSavedTable DEF TableInv, BehindMemory, Saved
<1>2. /\ snapshot' \in {snapshot, Saved, NothingSaved}
      /\ Loaded(file') \in {Loaded(file), snapshot, NothingSaved}
  BY UnreadableAssumption
     DEF Persister, PersistSnapshot, PersistTruncate,
     PersistCannotOpen, PersistWrite, Loaded, TypeOK
<1>3. \A data \in {Loaded(file'), snapshot'} : WellFormed(data) /\ BehindMemory(data)
  BY <1>1, <1>2 DEF TableInv
<1>4. UNCHANGED <<profiles, followers, prof_sessions, sessions>>
  BY DEF Persister, PersistSnapshot, PersistTruncate,
     PersistCannotOpen, PersistWrite
<1> QED
  BY <1>3, <1>4 DEF TableInv, SessionsConsistent, WellFormed, BehindMemory, Saved, Loaded

LEMMA RestartTable ==
  ASSUME TypeOK, TableInv, Restart
  PROVE  TableInv'
<1>1. WellFormed(Loaded(file))
  BY DEF TableInv
<1>2. /\ profiles' = Loaded(file).profiles /\ followers' = Loaded(file).followers
      /\ file' = file /\ snapshot' = NothingSaved
  BY DEF Restart, Load
<1>3. SessionsConsistent'
  BY FS_EmptySet, BoundAssumption DEF Restart, SessionsConsistent
<1>4. WellFormed(Saved)'
  BY <1>1, <1>2 DEF WellFormed, Saved
<1>5. \A data \in {Loaded(file'), snapshot'} : WellFormed(data) /\ BehindMemory(data)'
  <2>1. WellFormed(Loaded(file)) /\ BehindMemory(Loaded(file))'
    BY <1>1, <1>2 DEF BehindMemory, Loaded
  <2>2. WellFormed(NothingSaved) /\ BehindMemory(NothingSaved)'
    BY NothingSavedTable DEF BehindMemory, NothingSaved
  <2> QED
    BY <1>2, <2>1, <2>2 DEF BehindMemory, Loaded
<1> QED
  BY <1>3, <1>4, <1>5 DEF TableInv, WellFormed, BehindMemory, Loaded

LEMMA TableStep == TypeOK /\ TableInv /\ [Next]_vars => TableInv'
<1> SUFFICES ASSUME TypeOK, TableInv, [Next]_vars
             PROVE  TableInv'
  OBVIOUS
<1>1. ASSUME NEW c \in Address, Notify(c)
      PROVE  TableInv'
  BY <1>1, TableUntouched DEF Notify, RecordNotif
<1>2. ASSUME NEW c \in Address, NEW reached \in SUBSET Username, NotifyInterrupted(c, reached)
      PROVE  TableInv'
  BY <1>2, TableUntouched DEF NotifyInterrupted, RecordNotif
<1>3. CASE Shutdown \/ DisconnectDeliveries \/ DisconnectWakeups \/ Deliver
  BY <1>3, TableUntouched DEF Shutdown, DisconnectDeliveries, DisconnectWakeups, Deliver
<1>4. ASSUME NEW u \in Username, TakeWakeup(u) \/ ConsumeOneNotif(u)
      PROVE  TableInv'
  BY <1>4, TableUntouched DEF TakeWakeup, Taken, ConsumeOneNotif
<1>5. CASE UNCHANGED vars
  BY <1>5, TableUntouched DEF vars
<1> QED
  BY <1>1, <1>2, <1>3, <1>4, <1>5, ConnectTable, DisconnectTable, FollowTable, PersistTable,
     RestartTable DEF Next, Request, NotifManager

LEMMA TableCorrect == Spec => []TableInv
BY TypeInit, TypeStep, TableInit, TableStep, PTL DEF Spec

(* An address with a session is reachable through the profile it logged    *)
(* in to, and no profile ever has more sessions than allowed.              *)
THEOREM SessionsConsistentCorrect == Spec => []SessionsConsistent
<1>1. TableInv => SessionsConsistent
  BY DEF TableInv
<1> QED
  BY <1>1, TableCorrect, PTL

(* Followers are existing profiles other than the followed, also after a   *)
(* crash at any point of a save.                                           *)
THEOREM FollowersKnownCorrect == Spec => []FollowersKnown
<1>1. TableInv => FollowersKnown
  BY DEF TableInv, WellFormed, FollowersKnown, Saved
<1> QED
  BY <1>1, TableCorrect, PTL

(* The file never has a profile or a follower that memory does not.        *)
THEOREM FileBehindMemoryCorrect == Spec => []FileBehindMemory
<1>1. TableInv => FileBehindMemory
  BY DEF TableInv, BehindMemory, FileBehindMemory
<1> QED
  BY <1>1, TableCorrect, PTL

-----------------------------------------------------------------------------
(* Wake-ups.  Each operation moves an entry and its wake-up together.      *)

LEMMA WakeupUntouched ==
  ASSUME WakeupPerNotif, UNCHANGED <<pending_notifs, wakeups, to_be_notif>>
  PROVE  WakeupPerNotif'
BY DEF WakeupPerNotif

LEMMA RecordNotifWakeup ==
  ASSUME TypeOK, WakeupPerNotif, NEW sender \in Username, NEW reached \in SUBSET Username,
         RecordNotif(sender, reached)
  PROVE  WakeupPerNotif'
<1> SUFFICES ASSUME NEW u \in Username
             PROVE  Len(pending_notifs'[u]) =
                      wakeups'[u] + (IF to_be_notif' = u THEN 1 ELSE 0)
  BY DEF WakeupPerNotif
<1>1. to_be_notif' = to_be_notif /\ wakeups[u] \in Nat
  BY DEF RecordNotif, TypeOK
<1>2. pending_notifs[u] \in Seq(Username \X Nat)
  BY DEF TypeOK
<1>3. Len(pending_notifs[u]) = wakeups[u] + (IF to_be_notif = u THEN 1 ELSE 0)
  BY DEF WakeupPerNotif
<1>4. CASE u \in reached
  <2>1. wakeups'[u] = wakeups[u] + 1
    BY <1>4 DEF RecordNotif
  <2>2. Len(pending_notifs'[u]) = Len(pending_notifs[u]) + 1
    BY <1>2, <1>4 DEF RecordNotif
  <2> QED
    BY <1>1, <1>3, <2>1, <2>2
<1>5. CASE u \notin reached
  BY <1>1, <1>3, <1>5 DEF RecordNotif
<1> QED
  BY <1>4, <1>5

LEMMA TakeWakeupWakeup ==
  ASSUME TypeOK, WakeupPerNotif, NEW u \in Username, TakeWakeup(u)
  PROVE  WakeupPerNotif'
BY UsernameAssumption DEF WakeupPerNotif, TakeWakeup, Taken, TypeOK

LEMMA ConsumeOneNotifWakeup ==
  ASSUME TypeOK, WakeupPerNotif, NEW u \in Username, ConsumeOneNotif(u)
  PROVE  WakeupPerNotif'
<1>1. to_be_notif = u /\ to_be_notif' = NoUser /\ wakeups' = wakeups /\ wakeups \in [Username -> Nat]
  BY DEF ConsumeOneNotif, TypeOK
<1>2. pending_notifs[u] \in Seq(Username \X Nat) /\ Len(pending_notifs[u]) = wakeups[u] + 1
  BY <1>1 DEF WakeupPerNotif, TypeOK
<1>3. pending_notifs[u] # <<>>
  BY <1>1, <1>2
<1>4. pending_notifs' = [pending_notifs EXCEPT ![u] = Tail(@)]
  BY <1>3 DEF ConsumeOneNotif
<1>5. Len(pending_notifs'[u]) = wakeups'[u]
  <2>1. Len(Tail(pending_notifs[u])) = Len(pending_notifs[u]) - 1
    BY <1>2, <1>3
  <2>2. pending_notifs'[u] = Tail(pending_notifs[u])
    BY <1>4 DEF TypeOK
  <2> QED
    BY <1>1, <1>2, <2>1, <2>2
<1>6. ASSUME NEW v \in Username \ {u}
      PROVE  Len(pending_notifs'[v]) = wakeups'[v]
  BY <1>1, <1>4 DEF WakeupPerNotif, TypeOK
<1> QED
  BY <1>1, <1>5, <1>6, UsernameAssumption DEF WakeupPerNotif

LEMMA WakeupInit == Init => WakeupPerNotif
BY UsernameAssumption DEF Init, WakeupPerNotif

LEMMA WakeupStep == TypeOK /\ WakeupPerNotif /\ [Next]_vars => WakeupPerNotif'
<1> SUFFICES ASSUME TypeOK, WakeupPerNotif, [Next]_vars
             PROVE  WakeupPerNotif'
  OBVIOUS
<1>1. ASSUME NEW c \in Address, NEW u \in Username, Connect(c, u) \/ Follow(c, u)
      PROVE  WakeupPerNotif'
  BY <1>1, WakeupUntouched DEF Connect, Follow
<1>2. ASSUME NEW c \in Address, Disconnect(c)
      PROVE  WakeupPerNotif'
  BY <1>2, WakeupUntouched DEF Disconnect
<1>3. ASSUME NEW c \in Address, Notify(c)
      PROVE  WakeupPerNotif'
  <2>1. sessions[c] \in Username /\ followers[sessions[c]] \in SUBSET Username
    BY <1>3 DEF Notify, TypeOK
  <2> QED
    BY <1>3, <2>1, RecordNotifWakeup DEF Notify
<1>4. ASSUME NEW c \in Address, NEW reached \in SUBSET Username, NotifyInterrupted(c, reached)
      PROVE  WakeupPerNotif'
  <2>1. sessions[c] \in Username
    BY <1>4 DEF NotifyInterrupted, TypeOK
  <2> QED
    BY <1>4, <2>1, RecordNotifWakeup DEF NotifyInterrupted
<1>5. CASE Shutdown \/ DisconnectDeliveries \/ DisconnectWakeups \/ Deliver
  BY <1>5, WakeupUntouched DEF Shutdown, DisconnectDeliveries, DisconnectWakeups, Deliver
<1>6. ASSUME NEW u \in Username, TakeWakeup(u) \/ ConsumeOneNotif(u)
      PROVE  WakeupPerNotif'
  BY <1>6, TakeWakeupWakeup, ConsumeOneNotifWakeup
<1>7. CASE Persister
  BY <1>7, WakeupUntouched DEF Persister, PersistSnapshot, PersistTruncate,
     PersistCannotOpen, PersistWrite
<1>8. CASE Restart
  BY <1>8, UsernameAssumption DEF Restart, WakeupPerNotif
<1>9. CASE UNCHANGED vars
  BY <1>9, WakeupUntouched DEF vars
<1> QED
  BY <1>1, <1>2, <1>3, <1>4, <1>5, <1>6, <1>7, <1>8, <1>9 DEF Next, Request, NotifManager

(* Every queued notification has exactly one wake-up on its way to the     *)
(* operation that takes it off the queue.                                  *)
THEOREM WakeupPerNotifCorrect == Spec => []WakeupPerNotif
BY TypeInit, TypeStep, WakeupInit, WakeupStep, PTL DEF Spec

-----------------------------------------------------------------------------
(* Order in the queues.  A new notification has a larger id than any of    *)
(* its sender's that a queue may hold.                                     *)

QueueInv ==
  /\ QueueInOrder
  /\ \A u \in Username : notif_counter[u] <= MaxNotifs
  /\ \A u \in Username : \A i \in 1..Len(pending_notifs[u]) :
       pending_notifs[u][i][2] \in 1..notif_counter[pending_notifs[u][i][1]]

LEMMA QueueUntouched ==
  ASSUME QueueInv, UNCHANGED <<pending_notifs, notif_counter>>
  PROVE  QueueInv'
BY DEF QueueInv, QueueInOrder

LEMMA RecordNotifQueue ==
  ASSUME TypeOK, QueueInv, NEW sender \in Username, NEW reached \in SUBSET Username,
         RecordNotif(sender, reached)
  PROVE  QueueInv'
<1> DEFINE id == notif_counter[sender] + 1
<1>1. /\ notif_counter' = [notif_counter EXCEPT ![sender] = id]
      /\ id <= MaxNotifs /\ id \in Nat \ {0}
  BY DEF RecordNotif, NextId, TypeOK
<1>2. \A u \in Username : notif_counter'[u] <= MaxNotifs
  BY <1>1 DEF QueueInv, TypeOK
<1>3. ASSUME NEW u \in Username
      PROVE  /\ \A i, j \in 1..Len(pending_notifs'[u]) :
                  i < j /\ pending_notifs'[u][i][1] = pending_notifs'[u][j][1] =>
                    pending_notifs'[u][i][2] < pending_notifs'[u][j][2]
             /\ \A i \in 1..Len(pending_notifs'[u]) :
                  pending_notifs'[u][i][2] \in 1..notif_counter'[pending_notifs'[u][i][1]]
  <2> DEFINE q == pending_notifs[u]
  <2>1. q \in Seq(Username \X Nat) /\ Len(q) \in Nat
    BY DEF TypeOK
  <2>2. \A i \in 1..Len(q) : q[i] \in Username \X Nat
    BY <2>1
  <2>3. \A i \in 1..Len(q) :
           q[i][2] \in 1..notif_counter[q[i][1]] /\ q[i][2] \in 1..notif_counter'[q[i][1]]
    <3> TAKE i \in 1..Len(q)
    <3>1. q[i][2] \in 1..notif_counter[q[i][1]]
      BY DEF QueueInv
    <3>2. q[i][1] \in Username
      BY <2>2
    <3>3. \A v \in Username : /\ notif_counter[v] \in Nat /\ notif_counter'[v] \in Nat
                              /\ notif_counter[v] <= notif_counter'[v]
      <4> TAKE v \in Username
      <4>1. notif_counter[v] \in Nat
        BY DEF TypeOK
      <4>2. notif_counter'[v] = IF v = sender THEN notif_counter[v] + 1 ELSE notif_counter[v]
        BY <1>1 DEF TypeOK
      <4> QED
        BY <4>1, <4>2
    <3>4. q[i][2] \in 1..notif_counter'[q[i][1]]
      BY <3>1, <3>2, <3>3
    <3> QED
      BY <3>1, <3>4
  <2>4. \A i, j \in 1..Len(q) : i < j /\ q[i][1] = q[j][1] => q[i][2] < q[j][2]
    BY DEF QueueInv, QueueInOrder
  <2>5. CASE u \notin reached
    <3>1. pending_notifs'[u] = q
      BY <2>5 DEF RecordNotif
    <3> QED
      BY <2>3, <2>4, <3>1
  <2>6. CASE u \in reached
    <3> DEFINE r == Append(q, <<sender, id>>)
    <3>1. pending_notifs'[u] = r
      BY <2>6 DEF RecordNotif, NextId
    <3>2. /\ Len(r) = Len(q) + 1
          /\ \A i \in 1..Len(q) : r[i] = q[i]
          /\ r[Len(r)] = <<sender, id>>
      BY <2>1
    <3> HIDE DEF r
    <3>3. notif_counter'[sender] = id
      BY <1>1 DEF TypeOK
    <3>4. \A i \in 1..Len(r) : r[i][2] \in 1..notif_counter'[r[i][1]]
      <4> SUFFICES ASSUME NEW i \in 1..Len(r)
                   PROVE  r[i][2] \in 1..notif_counter'[r[i][1]]
        OBVIOUS
      <4>1. CASE i \in 1..Len(q)
        BY <2>3, <3>2, <4>1
      <4>2. CASE i = Len(r)
        BY <1>1, <3>2, <3>3, <4>2
      <4> QED
        BY <2>1, <3>2, <4>1, <4>2
    <3>5. \A i \in 1..Len(q) : q[i][1] = sender => q[i][2] < id
      <4> SUFFICES ASSUME NEW i \in 1..Len(q), q[i][1] = sender
                   PROVE  q[i][2] < id
        OBVIOUS
      <4>1. q[i][2] \in 1..notif_counter[sender] /\ notif_counter[sender] \in Nat
        BY <2>3 DEF TypeOK
      <4> QED
        BY <4>1
    <3>6. \A i, j \in 1..Len(r) : i < j /\ r[i][1] = r[j][1] => r[i][2] < r[j][2]
      <4> SUFFICES ASSUME NEW i \in 1..Len(r), NEW j \in 1..Len(r), i < j, r[i][1] = r[j][1]
                   PROVE  r[i][2] < r[j][2]
        OBVIOUS
      <4>1. i \in 1..Len(q)
        BY <2>1, <3>2
      <4>2. CASE j \in 1..Len(q)
        BY <2>4, <3>2, <4>1, <4>2
      <4>3. CASE j = Len(r)
        BY <3>2, <3>5, <4>1, <4>3
      <4> QED
        BY <2>1, <3>2, <4>2, <4>3
    <3> QED
      BY <3>1, <3>4, <3>6
  <2> QED
    BY <2>5, <2>6
<1> QED
  BY <1>2, <1>3 DEF QueueInv, QueueInOrder

LEMMA ConsumeOneNotifQueue ==
  ASSUME TypeOK, QueueInv, NEW u \in Username, ConsumeOneNotif(u)
  PROVE  QueueInv'
<1>1. notif_counter' = notif_counter
  BY DEF ConsumeOneNotif
<1>2. CASE pending_notifs[u] = <<>>
  <2>1. pending_notifs' = pending_notifs
    BY <1>2 DEF ConsumeOneNotif
  <2> QED
    BY <1>1, <2>1, QueueUntouched
<1>3. CASE pending_notifs[u] # <<>>
  <2> DEFINE q == pending_notifs[u]
  <2>1. pending_notifs' = [pending_notifs EXCEPT ![u] = Tail(q)]
    BY <1>3 DEF ConsumeOneNotif
  <2>2. q \in Seq(Username \X Nat) /\ q # <<>>
    BY <1>3 DEF TypeOK
  <2>3. /\ Len(Tail(q)) = Len(q) - 1 /\ Len(q) \in Nat
        /\ \A i \in 1..Len(q) - 1 : Tail(q)[i] = q[i + 1]
    BY <2>2
  <2>4. pending_notifs'[u] = Tail(q) /\ \A v \in Username \ {u} : pending_notifs'[v] = pending_notifs[v]
    BY <2>1 DEF TypeOK
  <2>5. \A i, j \in 1..Len(Tail(q)) :
           i < j /\ Tail(q)[i][1] = Tail(q)[j][1] => Tail(q)[i][2] < Tail(q)[j][2]
    BY <2>3 DEF QueueInv, QueueInOrder
  <2>6. \A i \in 1..Len(Tail(q)) : Tail(q)[i][2] \in 1..notif_counter[Tail(q)[i][1]]
    BY <2>3 DEF QueueInv
  <2> HIDE DEF q
  <2>7. QueueInOrder'
    BY <2>4, <2>5 DEF QueueInv, QueueInOrder
  <2> QED
    BY <1>1, <2>4, <2>6, <2>7 DEF QueueInv
<1> QED
  BY <1>2, <1>3

LEMMA QueueInit == Init => QueueInv
BY BoundAssumption DEF Init, QueueInv, QueueInOrder

LEMMA QueueStep == TypeOK /\ QueueInv /\ [Next]_vars => QueueInv'
<1> SUFFICES ASSUME TypeOK, QueueInv, [Next]_vars
             PROVE  QueueInv'
  OBVIOUS
<1>1. ASSUME NEW c \in Address, NEW u \in Username, Connect(c, u) \/ Follow(c, u)
      PROVE  QueueInv'
  BY <1>1, QueueUntouched DEF Connect, Follow
<1>2. ASSUME NEW c \in Address, Disconnect(c)
      PROVE  QueueInv'
  BY <1>2, QueueUntouched DEF Disconnect
<1>3. ASSUME NEW c \in Address, Notify(c)
      PROVE  QueueInv'
  <2>1. sessions[c] \in Username /\ followers[sessions[c]] \in SUBSET Username
    BY <1>3 DEF Notify, TypeOK
  <2> QED
    BY <1>3, <2>1, RecordNotifQueue DEF Notify
<1>4. ASSUME NEW c \in Address, NEW reached \in SUBSET Username, NotifyInterrupted(c, reached)
      PROVE  QueueInv'
  <2>1. sessions[c] \in Username
    BY <1>4 DEF NotifyInterrupted, TypeOK
  <2> QED
    BY <1>4, <2>1, RecordNotifQueue DEF NotifyInterrupted
<1>5. CASE Shutdown \/ DisconnectDeliveries \/ DisconnectWakeups \/ Deliver
  BY <1>5, QueueUntouched DEF Shutdown, DisconnectDeliveries, DisconnectWakeups, Deliver
<1>6. ASSUME NEW u \in Username, TakeWakeup(u)
      PROVE  QueueInv'
  BY <1>6, QueueUntouched DEF TakeWakeup, Taken
<1>7. ASSUME NEW u \in Username, ConsumeOneNotif(u)
      PROVE  QueueInv'
  BY <1>7, ConsumeOneNotifQueue
<1>8. CASE Persister
  BY <1>8, QueueUntouched DEF Persister, PersistSnapshot, PersistTruncate,
     PersistCannotOpen, PersistWrite
<1>9. CASE Restart
  BY <1>9, BoundAssumption DEF Restart, QueueInv, QueueInOrder
<1>10. CASE UNCHANGED vars
  BY <1>10, QueueUntouched DEF vars
<1> QED
  BY <1>1, <1>2, <1>3, <1>4, <1>5, <1>6, <1>7, <1>8, <1>9, <1>10 DEF Next, Request, NotifManager

LEMMA QueueCorrect == Spec => []QueueInv
BY TypeInit, TypeStep, QueueInit, QueueStep, PTL DEF Spec

(* Each follower gets a sender's notifications in the order they were      *)
(* sent, and none of them twice.                                           *)
THEOREM QueueInOrderCorrect == Spec => []QueueInOrder
<1>1. QueueInv => QueueInOrder
  BY DEF QueueInv
<1> QED
  BY <1>1, QueueCorrect, PTL

-----------------------------------------------------------------------------
(* Counts.  The queues that hold a notification are what its pending_count *)
(* counts, so `notify' must set it to the number of followers it reaches,  *)
(* and the order of the queues makes `consume_one_notif' remove one holder *)
(* at a time.                                                              *)

CountInv ==
  /\ \A u, sender \in Username : \A id \in Nat :
       Queued(u, sender, id) => id \in DOMAIN received_notifs[sender]
  /\ \A sender \in Username : \A id \in DOMAIN received_notifs[sender] :
       /\ received_notifs[sender][id] >= Cardinality(Waiting(sender, id))
       /\ active => received_notifs[sender][id] = Cardinality(Waiting(sender, id))

LEMMA FiniteWaiting ==
  ASSUME NEW sender, NEW id
  PROVE  /\ IsFiniteSet(Waiting(sender, id)) /\ Cardinality(Waiting(sender, id)) \in Nat
         /\ IsFiniteSet(Waiting(sender, id)') /\ Cardinality(Waiting(sender, id)') \in Nat
<1>1. Waiting(sender, id) \in SUBSET Username /\ Waiting(sender, id)' \in SUBSET Username
  BY DEF Waiting
<1> QED
  BY <1>1, UsernameAssumption, FS_Subset, FS_CardinalityType

LEMMA CountUntouched ==
  ASSUME CountInv, UNCHANGED <<pending_notifs, received_notifs>>, active' => active
  PROVE  CountInv'
BY DEF CountInv, Waiting, Queued

\* A step that queues exactly one new notification, at `reached'.
LEMMA RecordNotifQueued ==
  ASSUME TypeOK, NEW sender \in Username, NEW reached \in SUBSET Username,
         RecordNotif(sender, reached), NEW u \in Username, NEW s, NEW i
  PROVE  Queued(u, s, i)' <=>
           Queued(u, s, i) \/ (u \in reached /\ s = sender /\ i = notif_counter[sender] + 1)
<1> DEFINE q == pending_notifs[u]
           n == <<sender, notif_counter[sender] + 1>>
<1>1. q \in Seq(Username \X Nat) /\ Len(q) \in Nat
  BY DEF TypeOK
<1>2. CASE u \notin reached
  <2>1. pending_notifs'[u] = q
    BY <1>2 DEF RecordNotif
  <2> QED
    BY <1>2, <2>1 DEF Queued
<1>3. CASE u \in reached
  <2>1. pending_notifs'[u] = Append(q, n)
    BY <1>3 DEF RecordNotif, NextId
  <2>2. /\ Len(Append(q, n)) = Len(q) + 1
        /\ \A j \in 1..Len(q) : Append(q, n)[j] = q[j]
        /\ Append(q, n)[Len(q) + 1] = n
    BY <1>1
  <2>3. 1..Len(Append(q, n)) = 1..Len(q) \cup {Len(q) + 1}
    BY <1>1, <2>2
  <2> HIDE DEF q
  <2>4. Queued(u, s, i)' <=> (\E j \in 1..Len(q) : q[j] = <<s, i>>) \/ n = <<s, i>>
    BY <2>1, <2>2, <2>3 DEF Queued
  <2> QED
    BY <1>3, <2>4 DEF Queued, q
<1> QED
  BY <1>2, <1>3

\* Taking the head of a queue removes its only occurrence there.
LEMMA ConsumeOneNotifQueued ==
  ASSUME TypeOK, QueueInv, NEW u \in Username, ConsumeOneNotif(u), pending_notifs[u] # <<>>,
         NEW v \in Username, NEW s, NEW i
  PROVE  Queued(v, s, i)' <=> Queued(v, s, i) /\ ~(v = u /\ <<s, i>> = Head(pending_notifs[u]))
<1> DEFINE q == pending_notifs[u]
<1>1. pending_notifs' = [pending_notifs EXCEPT ![u] = Tail(q)]
  BY DEF ConsumeOneNotif
<1>2. q \in Seq(Username \X Nat) /\ q # <<>>
  BY DEF TypeOK
<1>3. /\ Len(q) \in Nat \ {0} /\ Len(Tail(q)) = Len(q) - 1
      /\ \A j \in 1..Len(q) - 1 : Tail(q)[j] = q[j + 1]
      /\ Head(q) = q[1]
  BY <1>2
<1>4. \A j \in 1..Len(q) : q[j] \in Username \X Nat
  BY <1>2
<1>5. \A j \in 2..Len(q) : q[j] # q[1]
  <2> SUFFICES ASSUME NEW j \in 2..Len(q), q[j] = q[1]
               PROVE  FALSE
    OBVIOUS
  <2>1. 1 \in 1..Len(q) /\ j \in 1..Len(q) /\ 1 < j
    BY <1>3
  <2>2. q[1][2] < q[j][2]
    BY <2>1 DEF QueueInv, QueueInOrder
  <2>3. q[1][2] \in Nat
    BY <1>4, <2>1
  <2> QED
    BY <2>2, <2>3
<1>6. CASE v # u
  <2>1. pending_notifs'[v] = pending_notifs[v]
    BY <1>1, <1>6 DEF TypeOK
  <2> QED
    BY <1>6, <2>1 DEF Queued
<1>7. CASE v = u
  <2>1. pending_notifs'[u] = Tail(q)
    BY <1>1 DEF TypeOK
  <2> HIDE DEF q
  <2>2. (\E j \in 1..Len(q) - 1 : Tail(q)[j] = <<s, i>>) <=> (\E j \in 2..Len(q) : q[j] = <<s, i>>)
    <3>1. ASSUME NEW j \in 1..Len(q) - 1, Tail(q)[j] = <<s, i>>
          PROVE  j + 1 \in 2..Len(q) /\ q[j + 1] = <<s, i>>
      BY <1>3, <3>1
    <3>2. ASSUME NEW j \in 2..Len(q), q[j] = <<s, i>>
          PROVE  j - 1 \in 1..Len(q) - 1 /\ Tail(q)[j - 1] = <<s, i>>
      <4>1. j - 1 \in 1..Len(q) - 1 /\ (j - 1) + 1 = j
        BY <1>3
      <4> QED
        BY <1>3, <3>2, <4>1
    <3> QED
      BY <3>1, <3>2
  <2>3. (\E j \in 1..Len(q) : q[j] = <<s, i>>) <=>
          (\E j \in 2..Len(q) : q[j] = <<s, i>>) \/ q[1] = <<s, i>>
    <3>1. 1..Len(q) = 2..Len(q) \cup {1}
      BY <1>3
    <3> QED
      BY <3>1
  <2>4. Queued(u, s, i)' <=> \E j \in 1..Len(q) - 1 : Tail(q)[j] = <<s, i>>
    BY <1>3, <2>1 DEF Queued
  <2>5. Queued(u, s, i) <=> \E j \in 1..Len(q) : q[j] = <<s, i>>
    BY DEF Queued, q
  <2>6. Queued(u, s, i)' <=> Queued(u, s, i) /\ <<s, i>> # q[1]
    BY <1>5, <2>2, <2>3, <2>4, <2>5
  <2> QED
    BY <1>3, <1>7, <2>6 DEF q
<1> QED
  BY <1>6, <1>7

LEMMA RecordNotifCount ==
  ASSUME TypeOK, QueueInv, CountInv, NEW sender \in Username,
         NEW reached \in SUBSET followers[sender], RecordNotif(sender, reached),
         active' => active /\ reached = followers[sender]
  PROVE  CountInv'
<1> PICK id \in Nat : id = notif_counter[sender] + 1
  BY DEF TypeOK
<1>1. reached \in SUBSET Username
  BY DEF TypeOK
<1>2. \A u \in Username : ~Queued(u, sender, id)
  <2> SUFFICES ASSUME NEW u \in Username, NEW i \in 1..Len(pending_notifs[u]),
                      pending_notifs[u][i] = <<sender, id>>
               PROVE  FALSE
    BY DEF Queued
  <2>1. pending_notifs[u][i][2] \in 1..notif_counter[pending_notifs[u][i][1]]
    BY DEF QueueInv
  <2>2. pending_notifs[u][i][1] = sender /\ pending_notifs[u][i][2] = id
    OBVIOUS
  <2>3. notif_counter[sender] \in Nat
    BY DEF TypeOK
  <2> QED
    BY <2>1, <2>2, <2>3
<1>3. Waiting(sender, id)' = reached
  <2>1. \A u \in Username : Queued(u, sender, id)' <=> u \in reached
    BY <1>1, <1>2, RecordNotifQueued
  <2> QED
    BY <1>1, <2>1 DEF Waiting
<1>4. ASSUME NEW s \in Username, NEW i \in Nat, s # sender \/ i # id
      PROVE  Waiting(s, i)' = Waiting(s, i)
  BY <1>1, <1>4, RecordNotifQueued DEF Waiting
<1>5. /\ received_notifs' = [received_notifs EXCEPT ![sender] =
            [i \in DOMAIN received_notifs[sender] \cup {id} |->
               IF i = id THEN Cardinality(followers[sender]) ELSE received_notifs[sender][i]]]
      /\ DOMAIN received_notifs = Username
  BY DEF RecordNotif, NextId, TypeOK
<1>6. /\ DOMAIN received_notifs'[sender] = DOMAIN received_notifs[sender] \cup {id}
      /\ received_notifs'[sender][id] = Cardinality(followers[sender])
      /\ \A i \in DOMAIN received_notifs[sender] \ {id} :
           received_notifs'[sender][i] = received_notifs[sender][i]
      /\ \A s \in Username \ {sender} : received_notifs'[s] = received_notifs[s]
  BY <1>5
<1>7. \A u, s \in Username : \A i \in Nat : Queued(u, s, i)' => i \in DOMAIN received_notifs'[s]
  <2> SUFFICES ASSUME NEW u \in Username, NEW s \in Username, NEW i \in Nat, Queued(u, s, i)'
               PROVE  i \in DOMAIN received_notifs'[s]
    OBVIOUS
  <2>1. Queued(u, s, i) \/ (s = sender /\ i = id)
    BY <1>1, RecordNotifQueued
  <2> QED
    BY <1>6, <2>1 DEF CountInv
<1>8. ASSUME NEW s \in Username, NEW i \in DOMAIN received_notifs'[s]
      PROVE  /\ received_notifs'[s][i] >= Cardinality(Waiting(s, i)')
             /\ active' => received_notifs'[s][i] = Cardinality(Waiting(s, i)')
  <2>1. CASE s = sender /\ i = id
    <3>1. /\ IsFiniteSet(followers[sender]) /\ Cardinality(followers[sender]) \in Nat
      BY FiniteFollowers
    <3>2. Cardinality(reached) <= Cardinality(followers[sender]) /\ Cardinality(reached) \in Nat
      BY <3>1, FS_Subset, FS_CardinalityType
    <3>3. Waiting(s, i)' = reached
      BY <1>3, <2>1
    <3> QED
      BY <1>6, <2>1, <3>1, <3>2, <3>3
  <2>2. CASE s # sender \/ i # id
    <3>1. i \in DOMAIN received_notifs[s] /\ received_notifs'[s][i] = received_notifs[s][i]
      BY <1>6, <1>8, <2>2
    <3>2. i \in Nat
      BY <3>1 DEF TypeOK
    <3>3. Waiting(s, i)' = Waiting(s, i)
      BY <1>4, <2>2, <3>2
    <3> QED
      BY <3>1, <3>3 DEF CountInv
  <2> QED
    BY <2>1, <2>2
<1> QED
  BY <1>7, <1>8 DEF CountInv

LEMMA ConsumeOneNotifCount ==
  ASSUME TypeOK, QueueInv, CountInv, NEW u \in Username, ConsumeOneNotif(u)
  PROVE  CountInv'
<1>1. active' = active
  BY DEF ConsumeOneNotif
<1>2. CASE pending_notifs[u] = <<>>
  <2>1. UNCHANGED <<pending_notifs, received_notifs>>
    BY <1>2 DEF ConsumeOneNotif
  <2> QED
    BY <1>1, <2>1, CountUntouched
<1>3. CASE pending_notifs[u] # <<>>
  <2>1. PICK sender \in Username, id \in Nat : Head(pending_notifs[u]) = <<sender, id>>
    <3>1. pending_notifs[u] \in Seq(Username \X Nat)
      BY DEF TypeOK
    <3> QED
      BY <1>3, <3>1
  <2> DEFINE count == received_notifs[sender][id]
             waiting == Cardinality(Waiting(sender, id))
  <2>2. Queued(u, sender, id)
    <3>1. 1 \in 1..Len(pending_notifs[u]) /\ pending_notifs[u][1] = Head(pending_notifs[u])
      BY <1>3 DEF TypeOK
    <3> QED
      BY <2>1, <3>1 DEF Queued
  <2>3. id \in DOMAIN received_notifs[sender] /\ PendingCount(sender, id) = count
    BY <2>1, <2>2 DEF CountInv, PendingCount
  <2>4. /\ count \in Int
        /\ count >= waiting
        /\ active => count = waiting
    BY <2>1, <2>3 DEF CountInv, TypeOK
  <2>5. \A v, s \in Username : \A i \in Nat :
           Queued(v, s, i)' <=> Queued(v, s, i) /\ ~(v = u /\ s = sender /\ i = id)
    BY <1>3, <2>1, ConsumeOneNotifQueued
  <2>6. received_notifs' = [received_notifs EXCEPT ![sender] =
          [i \in IF count - 1 = 0 THEN DOMAIN received_notifs[sender] \ {id}
                                  ELSE DOMAIN received_notifs[sender] |->
             IF i = id THEN count - 1 ELSE received_notifs[sender][i]]]
    <3>1. DOMAIN received_notifs[sender] \cup {id} = DOMAIN received_notifs[sender]
      BY <2>3
    <3>2. Head(pending_notifs[u])[1] = sender /\ Head(pending_notifs[u])[2] = id
      BY <2>1
    <3> QED
      BY <1>3, <2>3, <3>1, <3>2 DEF ConsumeOneNotif, OneLess
  <2>7. u \in Waiting(sender, id) /\ Waiting(sender, id)' = Waiting(sender, id) \ {u}
    <3>1. \A v \in Username : Queued(v, sender, id)' <=> Queued(v, sender, id) /\ v # u
      BY <2>1, <2>5
    <3> QED
      BY <2>2, <3>1 DEF Waiting
  <2>8. Cardinality(Waiting(sender, id)') = waiting - 1 /\ waiting \in Nat \ {0}
    <3>1. waiting \in Nat /\ Cardinality(Waiting(sender, id)') \in Nat /\ IsFiniteSet(Waiting(sender, id))
      BY FiniteWaiting
    <3>2. Cardinality(Waiting(sender, id) \ {u}) = waiting - 1
      BY <2>7, <3>1, FS_RemoveElement
    <3>3. waiting # 0
      BY <2>7, <3>1, FS_EmptySet
    <3> QED
      BY <2>7, <3>1, <3>2, <3>3
  <2>9. ASSUME NEW s \in Username, NEW i \in Nat, s # sender \/ i # id
        PROVE  Waiting(s, i)' = Waiting(s, i)
    BY <2>5, <2>9 DEF Waiting
  <2>10. count - 1 = 0 => Waiting(sender, id)' = {}
    <3>1. IsFiniteSet(Waiting(sender, id)') /\ Cardinality(Waiting(sender, id)') \in Nat
      BY FiniteWaiting
    <3>2. count - 1 = 0 => Cardinality(Waiting(sender, id)') = 0
      BY <2>4, <2>8, <3>1
    <3> QED
      BY <3>1, <3>2, FS_EmptySet
  <2> HIDE DEF count, waiting
  <2>11. /\ DOMAIN received_notifs'[sender] =
              IF count - 1 = 0 THEN DOMAIN received_notifs[sender] \ {id}
                               ELSE DOMAIN received_notifs[sender]
         /\ \A i \in DOMAIN received_notifs'[sender] :
              received_notifs'[sender][i] = IF i = id THEN count - 1 ELSE received_notifs[sender][i]
         /\ \A s \in Username \ {sender} : received_notifs'[s] = received_notifs[s]
    BY <2>1, <2>6 DEF TypeOK
  <2>12. ASSUME NEW v \in Username, NEW s \in Username, NEW i \in Nat, Queued(v, s, i)'
         PROVE  i \in DOMAIN received_notifs'[s]
    <3>1. Queued(v, s, i) /\ i \in DOMAIN received_notifs[s]
      BY <2>5, <2>12 DEF CountInv
    <3>2. CASE s = sender /\ i = id
      <4>1. Waiting(sender, id)' # {}
        BY <2>12, <3>2 DEF Waiting
      <4> QED
        BY <2>3, <2>10, <2>11, <3>2, <4>1
    <3>3. CASE s # sender \/ i # id
      BY <2>11, <3>1, <3>3
    <3> QED
      BY <3>2, <3>3
  <2>13. ASSUME NEW s \in Username, NEW i \in DOMAIN received_notifs'[s]
         PROVE  /\ received_notifs'[s][i] >= Cardinality(Waiting(s, i)')
                /\ active' => received_notifs'[s][i] = Cardinality(Waiting(s, i)')
    <3>1. CASE s = sender /\ i = id
      <4>1. received_notifs'[s][i] = count - 1
        BY <2>11, <2>13, <3>1
      <4>2. Cardinality(Waiting(s, i)') = waiting - 1
        BY <2>8, <3>1
      <4> QED
        BY <1>1, <2>4, <2>8, <4>1, <4>2
    <3>2. CASE s # sender \/ i # id
      <4>1. i \in DOMAIN received_notifs[s] /\ received_notifs'[s][i] = received_notifs[s][i]
        BY <2>11, <2>13, <3>2
      <4>2. i \in Nat
        BY <4>1 DEF TypeOK
      <4>3. Waiting(s, i)' = Waiting(s, i)
        BY <2>9, <3>2, <4>2
      <4> QED
        BY <1>1, <4>1, <4>3 DEF CountInv
    <3> QED
      BY <3>1, <3>2
  <2> QED
    BY <2>12, <2>13 DEF CountInv
<1> QED
  BY <1>2, <1>3

LEMMA CountInit == Init => CountInv
BY NoNotifs DEF Init, CountInv, Waiting, Queued

LEMMA CountStep == TypeOK /\ QueueInv /\ CountInv /\ [Next]_vars => CountInv'
<1> SUFFICES ASSUME TypeOK, QueueInv, CountInv, [Next]_vars
             PROVE  CountInv'
  OBVIOUS
<1>1. ASSUME NEW c \in Address, NEW u \in Username, Connect(c, u) \/ Follow(c, u)
      PROVE  CountInv'
  BY <1>1, CountUntouched DEF Connect, Follow
<1>2. ASSUME NEW c \in Address, Disconnect(c)
      PROVE  CountInv'
  BY <1>2, CountUntouched DEF Disconnect
<1>3. ASSUME NEW c \in Address, Notify(c)
      PROVE  CountInv'
  <2>1. sessions[c] \in Username
    BY <1>3 DEF Notify, TypeOK
  <2> QED
    BY <1>3, <2>1, RecordNotifCount DEF Notify
<1>4. ASSUME NEW c \in Address, NEW reached \in SUBSET Username, NotifyInterrupted(c, reached)
      PROVE  CountInv'
  <2>1. /\ sessions[c] \in Username /\ reached \in SUBSET followers[sessions[c]]
        /\ ~active' /\ RecordNotif(sessions[c], reached)
    BY <1>4 DEF NotifyInterrupted, TypeOK
  <2> QED
    BY <2>1, RecordNotifCount
<1>5. CASE Shutdown \/ DisconnectDeliveries \/ DisconnectWakeups \/ Deliver
  BY <1>5, CountUntouched DEF Shutdown, DisconnectDeliveries, DisconnectWakeups, Deliver
<1>6. ASSUME NEW u \in Username, TakeWakeup(u)
      PROVE  CountInv'
  BY <1>6, CountUntouched DEF TakeWakeup, Taken
<1>7. ASSUME NEW u \in Username, ConsumeOneNotif(u)
      PROVE  CountInv'
  BY <1>7, ConsumeOneNotifCount
<1>8. CASE Persister
  BY <1>8, CountUntouched DEF Persister, PersistSnapshot, PersistTruncate,
     PersistCannotOpen, PersistWrite
<1>9. CASE Restart
  BY <1>9, NoNotifs DEF Restart, CountInv, Waiting, Queued
<1>10. CASE UNCHANGED vars
  BY <1>10, CountUntouched DEF vars
<1> QED
  BY <1>1, <1>2, <1>3, <1>4, <1>5, <1>6, <1>7, <1>8, <1>9, <1>10 DEF Next, Request, NotifManager

(* A notification is stored while any queue holds it, and its count is     *)
(* that of the queues, or more once a shutdown has cut a `notify' short:   *)
(* the decrement of consume_one_notif never goes below zero.               *)
THEOREM PendingCountExactCorrect == Spec => []PendingCountExact
<1>1. CountInv => PendingCountExact
  BY BoundAssumption DEF CountInv, PendingCountExact
<1> QED
  BY <1>1, TypeInit, TypeStep, QueueInit, QueueStep, CountInit, CountStep, PTL DEF Spec

-----------------------------------------------------------------------------
(* The text of the file.  Everything that is read is defined by recursion, *)
(* so each of its functions is shown to exist by induction over what it    *)
(* reads, and then used one step at a time.  Two things are shown of every *)
(* reader: what has been written is read back (ReadBack), and of a part of *)
(* a text it reads what it reads of the whole, or nothing (ReadAlike).     *)
(* Together they leave a part of a table nothing to be read as.            *)

(* Induction, for sets of numbers.                                         *)

LEMMA LeastNatural ==
  ASSUME NEW T \in SUBSET Nat, T # {}
  PROVE  \E x \in T : \A y \in T : x <= y
<1> DEFINE R == OpToRel(<, Nat)
<1>1. \E x \in T : \A y \in T : ~(<<y, x>> \in R)
  <2>1. IsWellFoundedOn(R, Nat)
    BY NatLessThanWellFounded
  <2> HIDE DEF R
  <2> QED
    BY <2>1, WFMin
<1>2. \A x, y \in Nat : y < x => <<y, x>> \in R
  BY DEF OpToRel
<1> HIDE DEF R
<1>3. \E x \in T : \A y \in T : ~(y < x)
  BY <1>1, <1>2, Zenon
<1> QED
  BY <1>3

LEMMA SetInduction ==
  ASSUME NEW n \in Nat, NEW S, 0 \in S, \A i \in 0..n : i \in S /\ i < n => i + 1 \in S
  PROVE  0..n \subseteq S
<1> DEFINE T == {i \in 0..n : i \notin S}
<1> SUFFICES ASSUME T # {}
             PROVE  FALSE
  OBVIOUS
<1>1. PICK x \in T : \A y \in T : x <= y
  <2>1. T \in SUBSET Nat
    OBVIOUS
  <2> HIDE DEF T
  <2> QED
    BY <2>1, LeastNatural
<1>2. x - 1 \in 0..n /\ x - 1 < n /\ x - 1 \in S
  BY <1>1
<1> QED
  BY <1>2

-----------------------------------------------------------------------------
(* Pieces of a text.                                                       *)

\* `piece' stands in the text at this position.
At(text, at, piece) ==
  /\ at + Len(piece) <= Len(text) + 1
  /\ \A i \in 1..Len(piece) : text[at + (i - 1)] = piece[i]

LEMMA AtConcat ==
  ASSUME NEW C, NEW text \in Seq(C), NEW s \in Seq(C), NEW t \in Seq(C), NEW at \in Nat \ {0},
         At(text, at, s \o t)
  PROVE  At(text, at, s) /\ At(text, at + Len(s), t)
<1>1. Len(s \o t) = Len(s) + Len(t) /\ Len(s) \in Nat /\ Len(t) \in Nat /\ Len(text) \in Nat
  OBVIOUS
<1>2. ASSUME NEW i \in 1..Len(s)
      PROVE  text[at + (i - 1)] = s[i]
  <2>1. (s \o t)[i] = s[i] /\ i \in 1..Len(s \o t)
    OBVIOUS
  <2> QED
    BY <2>1 DEF At
<1>3. ASSUME NEW i \in 1..Len(t)
      PROVE  text[at + Len(s) + (i - 1)] = t[i]
  <2>1. (s \o t)[Len(s) + i] = t[i] /\ Len(s) + i \in 1..Len(s \o t)
    BY <1>1
  <2>2. at + ((Len(s) + i) - 1) = at + Len(s) + (i - 1)
    BY <1>1
  <2> QED
    BY <2>1, <2>2 DEF At
<1> QED
  BY <1>1, <1>2, <1>3 DEF At

LEMMA AtItself ==
  ASSUME NEW C, NEW s \in Seq(C)
  PROVE  At(s, 1, s)
BY DEF At

-----------------------------------------------------------------------------
(* Concat: there are the concatenations of the first parts.                *)

IsConcat(f, n, parts) ==
  f[0] = <<>> /\ \A i \in 1..n : f[i] = f[i - 1] \o parts[i]

LEMMA ConcatExists ==
  ASSUME NEW C, NEW n \in Nat, NEW parts \in [1..n -> Seq(C)]
  PROVE  \E f \in [0..n -> Seq(C)] : IsConcat(f, n, parts)
<1> DEFINE S == {k \in 0..n : \E f \in [0..k -> Seq(C)] : IsConcat(f, k, parts)}
<1>1. 0 \in S
  <2> DEFINE f == [i \in 0..0 |-> <<>>]
  <2>1. f \in [0..0 -> Seq(C)] /\ IsConcat(f, 0, parts)
    BY DEF IsConcat
  <2> HIDE DEF f
  <2> QED
    BY <2>1
<1>2. ASSUME NEW k \in 0..n, k \in S, k < n
      PROVE  k + 1 \in S
  <2>1. PICK f \in [0..k -> Seq(C)] : IsConcat(f, k, parts)
    BY <1>2
  <2> DEFINE g == [i \in 0..(k + 1) |-> IF i = k + 1 THEN f[k] \o parts[k + 1] ELSE f[i]]
  <2>2. f[k] \o parts[k + 1] \in Seq(C)
    <3>1. f[k] \in Seq(C) /\ parts[k + 1] \in Seq(C)
      BY <1>2
    <3> QED
      BY <3>1
  <2>3. g \in [0..(k + 1) -> Seq(C)]
    BY <2>2
  <2>4. ASSUME NEW i \in 1..(k + 1)
        PROVE  g[i] = g[i - 1] \o parts[i]
    <3>1. CASE i = k + 1
      <4>1. g[i] = f[k] \o parts[k + 1] /\ g[i - 1] = f[k]
        BY <3>1
      <4> HIDE DEF g
      <4> QED
        BY <3>1, <4>1, Zenon
    <3>2. CASE i # k + 1
      <4>1. i \in 1..k /\ i \in 0..(k + 1) /\ i - 1 \in 0..(k + 1) /\ i - 1 # k + 1
        BY <3>2
      <4>2. f[i] = f[i - 1] \o parts[i]
        BY <2>1, <4>1, Zenon DEF IsConcat
      <4>3. g[i] = f[i] /\ g[i - 1] = f[i - 1]
        BY <3>2, <4>1, Zenon
      <4> HIDE DEF g
      <4> QED
        BY <4>2, <4>3, Zenon
    <3> QED
      BY <3>1, <3>2
  <2>5. g[0] = <<>>
    BY <2>1 DEF IsConcat
  <2> HIDE DEF g
  <2>6. IsConcat(g, k + 1, parts)
    BY <2>4, <2>5, Zenon DEF IsConcat
  <2>7. k + 1 \in 0..n
    BY <1>2
  <2> QED
    BY <2>3, <2>6, <2>7
<1> HIDE DEF S
<1>3. 0..n \subseteq S
  BY <1>1, <1>2, SetInduction
<1> QED
  BY <1>3 DEF S

LEMMA ConcatParts ==
  ASSUME NEW C, NEW n \in Nat, NEW parts \in [1..n -> Seq(C)]
  PROVE  \E f \in [0..n -> Seq(C)] : IsConcat(f, n, parts) /\ f[n] = Concat(parts)
<1>1. PICK f \in [0..n -> Seq(C)] : IsConcat(f, n, parts)
  BY ConcatExists
<1>2. parts \in Seq(Seq(C)) /\ Len(parts) = n
  OBVIOUS
<1>3. CASE n = 0
  <2>1. parts = <<>>
    BY <1>2, <1>3
  <2> QED
    BY <1>1, <1>2, <1>3, <2>1 DEF IsConcat, Concat, Seqs!FlattenSeq
<1>4. CASE n # 0
  <2> DEFINE IsFlatten(g) == g = [i \in 1..n |-> IF i = 1 THEN parts[i] ELSE g[i - 1] \o parts[i]]
             flatten == CHOOSE g : IsFlatten(g)
             h == [i \in 1..n |-> f[i]]
  <2>1. Concat(parts) = flatten[n]
    BY <1>2, <1>4 DEF Concat, Seqs!FlattenSeq
  <2>2. IsFlatten(h)
    <3>1. ASSUME NEW i \in 1..n
          PROVE  h[i] = IF i = 1 THEN parts[i] ELSE h[i - 1] \o parts[i]
      <4>1. f[i] = f[i - 1] \o parts[i]
        BY <1>1, Zenon DEF IsConcat
      <4>2. CASE i = 1
        <5>1. f[i - 1] = <<>> /\ parts[i] \in Seq(C)
          BY <1>1, <4>2 DEF IsConcat
        <5>2. <<>> \o parts[i] = parts[i]
          BY <5>1
        <5> QED
          BY <4>1, <4>2, <5>1, <5>2, Zenon
      <4>3. CASE i # 1
        <5>1. i - 1 \in 1..n
          BY <4>3
        <5> QED
          BY <4>1, <4>3, <5>1, Zenon
      <4> QED
        BY <4>2, <4>3
    <3> HIDE DEF h
    <3>2. h = [i \in 1..n |-> h[i]]
      BY DEF h
    <3> QED
      BY <3>1, <3>2, Zenon
  <2>3. IsFlatten(flatten)
    <3> HIDE DEF IsFlatten, h
    <3> QED
      BY <2>2
  <2> HIDE DEF flatten
  <2> DEFINE S == {k \in 0..n : k # 0 => flatten[k] = f[k]}
  <2>4. 0 \in S
    OBVIOUS
  <2>5. ASSUME NEW k \in 0..n, k \in S, k < n
        PROVE  k + 1 \in S
    <3>1. k + 1 \in 1..n /\ (k + 1) - 1 = k /\ k \in 0..n
      BY <2>5
    <3>2. flatten[k + 1] = IF k + 1 = 1 THEN parts[k + 1] ELSE flatten[(k + 1) - 1] \o parts[k + 1]
      BY <2>3, <3>1, Zenon
    <3>3. f[k + 1] = f[(k + 1) - 1] \o parts[k + 1]
      BY <1>1, <3>1, Zenon DEF IsConcat
    <3>4. CASE k = 0
      <4>1. f[(k + 1) - 1] = <<>> /\ parts[k + 1] \in Seq(C) /\ k + 1 = 1
        BY <1>1, <3>1, <3>4 DEF IsConcat
      <4>2. <<>> \o parts[k + 1] = parts[k + 1]
        BY <4>1
      <4>3. flatten[k + 1] = f[k + 1]
        BY <3>2, <3>3, <4>1, <4>2, Zenon
      <4> QED
        BY <3>1, <4>3
    <3>5. CASE k # 0
      <4>1. flatten[k] = f[k] /\ k + 1 # 1
        BY <2>5, <3>5
      <4>2. flatten[k + 1] = f[k + 1]
        BY <3>1, <3>2, <3>3, <4>1, Zenon
      <4> QED
        BY <3>1, <4>2
    <3> QED
      BY <3>4, <3>5
  <2> HIDE DEF S
  <2>6. 0..n \subseteq S
    BY <2>4, <2>5, SetInduction
  <2>7. flatten[n] = f[n]
    BY <1>4, <2>6 DEF S
  <2> QED
    BY <1>1, <2>1, <2>7
<1> QED
  BY <1>3, <1>4

\* Where the parts of a concatenation stand in the text.
ArePositions(pos, n, parts, text, at) ==
  /\ pos[0] = at /\ pos[n] = at + Len(Concat(parts))
  /\ \A i \in 1..n : /\ pos[i] = pos[i - 1] + Len(parts[i])
                     /\ At(text, pos[i - 1], parts[i])

LEMMA ConcatAt ==
  ASSUME NEW C, NEW n \in Nat, NEW parts \in [1..n -> Seq(C)],
         NEW text \in Seq(C), NEW at \in Nat \ {0}, At(text, at, Concat(parts))
  PROVE  \E pos \in [0..n -> Nat \ {0}] : ArePositions(pos, n, parts, text, at)
<1>1. PICK f \in [0..n -> Seq(C)] : IsConcat(f, n, parts) /\ f[n] = Concat(parts)
  BY ConcatParts
<1> DEFINE S == {k \in 0..n : At(text, at, f[n - k])}
<1>2. 0 \in S
  BY <1>1
<1>3. ASSUME NEW i \in 1..n, At(text, at, f[i])
      PROVE  /\ At(text, at, f[i - 1]) /\ At(text, at + Len(f[i - 1]), parts[i])
             /\ Len(f[i]) = Len(f[i - 1]) + Len(parts[i])
  <2>1. f[i] = f[i - 1] \o parts[i]
    BY <1>1, Zenon DEF IsConcat
  <2>2. f[i - 1] \in Seq(C) /\ parts[i] \in Seq(C)
    OBVIOUS
  <2>3. At(text, at, f[i - 1] \o parts[i])
    BY <1>3, <2>1, Zenon
  <2>4. At(text, at, f[i - 1]) /\ At(text, at + Len(f[i - 1]), parts[i])
    BY <2>2, <2>3, AtConcat
  <2>5. Len(f[i - 1] \o parts[i]) = Len(f[i - 1]) + Len(parts[i])
    BY <2>2
  <2> QED
    BY <2>1, <2>4, <2>5, Zenon
<1>4. ASSUME NEW k \in 0..n, k \in S, k < n
      PROVE  k + 1 \in S
  <2>1. n - k \in 1..n /\ (n - k) - 1 = n - (k + 1) /\ k + 1 \in 0..n
    BY <1>4
  <2> QED
    BY <1>3, <1>4, <2>1
<1> HIDE DEF S
<1>5. 0..n \subseteq S
  BY <1>2, <1>4, SetInduction
<1>6. ASSUME NEW i \in 1..n
      PROVE  At(text, at, f[i])
  <2>1. n - i \in 0..n /\ n - (n - i) = i
    OBVIOUS
  <2> QED
    BY <1>5, <2>1 DEF S
<1> DEFINE pos == [k \in 0..n |-> at + Len(f[k])]
<1>7. pos \in [0..n -> Nat \ {0}]
  OBVIOUS
<1>8. pos[0] = at /\ pos[n] = at + Len(Concat(parts))
  <2>1. Len(f[0]) = 0
    BY <1>1 DEF IsConcat
  <2> QED
    BY <1>1, <2>1
<1>9. ASSUME NEW i \in 1..n
      PROVE  pos[i] = pos[i - 1] + Len(parts[i]) /\ At(text, pos[i - 1], parts[i])
  <2>1. /\ At(text, at + Len(f[i - 1]), parts[i])
        /\ Len(f[i]) = Len(f[i - 1]) + Len(parts[i])
    BY <1>3, <1>6
  <2>2. pos[i - 1] = at + Len(f[i - 1]) /\ pos[i] = at + Len(f[i])
    OBVIOUS
  <2>3. Len(f[i - 1]) \in Nat /\ Len(parts[i]) \in Nat
    OBVIOUS
  <2> HIDE DEF pos
  <2> QED
    BY <2>1, <2>2, <2>3
<1> HIDE DEF pos
<1> QED
  BY <1>7, <1>8, <1>9 DEF ArePositions

LEMMA ConcatType ==
  ASSUME NEW C, NEW n \in Nat, NEW parts \in [1..n -> Seq(C)]
  PROVE  Concat(parts) \in Seq(C)
BY ConcatParts

-----------------------------------------------------------------------------
(* ReadString, one character at a time.                                    *)

ReadFrom(read, text, i) ==
  IF i > Len(text) \/ (i = Len(text) /\ text[i] = "\\") THEN Error
  ELSE IF text[i] = ";" THEN Got(<<>>, i + 1)
  ELSE LET taken == IF text[i] = "\\" THEN i + 1 ELSE i
           rest == read[taken + 1]
       IN IF rest.error THEN Error ELSE Got(<<text[taken]>> \o rest.value, rest.next)

LEMMA ReadFromSame ==
  ASSUME NEW C, NEW text \in Seq(C), NEW i \in 1..(Len(text) + 1), NEW f, NEW g,
         \A j \in (i + 1)..(Len(text) + 1) : f[j] = g[j]
  PROVE  ReadFrom(f, text, i) = ReadFrom(g, text, i)
<1>1. CASE i > Len(text) \/ (i = Len(text) /\ text[i] = "\\") \/ text[i] = ";"
  BY <1>1, Zenon DEF ReadFrom
<1>2. CASE ~(i > Len(text) \/ (i = Len(text) /\ text[i] = "\\") \/ text[i] = ";")
  <2> DEFINE taken == IF text[i] = "\\" THEN i + 1 ELSE i
  <2>1. taken + 1 \in (i + 1)..(Len(text) + 1)
    <3>1. (text[i] = "\\" => i # Len(text)) /\ ~(i > Len(text))
      BY <1>2, Zenon
    <3>4. Len(text) \in Nat
      OBVIOUS
    <3>2. CASE text[i] = "\\"
      BY <3>1, <3>4, <3>2
    <3>3. CASE text[i] # "\\"
      BY <3>1, <3>4, <3>3
    <3> QED
      BY <3>2, <3>3
  <2>2. f[taken + 1] = g[taken + 1]
    BY <2>1
  <2> QED
    BY <2>2, Zenon DEF ReadFrom
<1> QED
  BY <1>1, <1>2

IsReader(f, text, first) ==
  f = [i \in first..(Len(text) + 1) |-> ReadFrom(f, text, i)]

LEMMA ReaderExists ==
  ASSUME NEW C, NEW text \in Seq(C)
  PROVE  \E f : IsReader(f, text, 1)
<1> DEFINE last == Len(text) + 1
           S == {n \in 0..Len(text) : \E f : IsReader(f, text, last - n)}
<1>0. Len(text) \in Nat
  OBVIOUS
<1>1. 0 \in S
  <2> DEFINE f == [i \in last..last |-> Error]
  <2>1. last \in last..last /\ \A i \in last..last : i > Len(text)
    BY <1>0
  <2>2. \A i \in last..last : ReadFrom(f, text, i) = Error
    BY <2>1, Zenon DEF ReadFrom
  <2>3. IsReader(f, text, last)
    BY <2>2, Zenon DEF IsReader
  <2>4. last - 0 = last
    BY <1>0
  <2> HIDE DEF f, last
  <2>5. \E h : IsReader(h, text, last - 0)
    BY <2>3, <2>4, Zenon
  <2> QED
    BY <1>0, <2>5
<1>2. ASSUME NEW n \in 0..Len(text), n \in S, n < Len(text)
      PROVE  n + 1 \in S
  <2>1. PICK f : IsReader(f, text, last - n)
    BY <1>2
  <2> DEFINE first == last - (n + 1)
             g == [i \in first..last |-> IF i = first THEN ReadFrom(f, text, first) ELSE f[i]]
  <2>2. ASSUME NEW i \in first..last
        PROVE  g[i] = ReadFrom(g, text, i)
    <3>1. i \in 1..(Len(text) + 1)
      BY <1>0, <1>2
    <3>2. \A j \in (i + 1)..(Len(text) + 1) : j \in first..last /\ j # first
      BY <1>0, <1>2
    <3>3. \A j \in (i + 1)..(Len(text) + 1) : g[j] = f[j]
      BY <3>2, Zenon
    <3> HIDE DEF g
    <3>4. ReadFrom(g, text, i) = ReadFrom(f, text, i)
      BY <3>1, <3>3, ReadFromSame
    <3>5. CASE i = first
      BY <3>4, <3>5, Zenon DEF g
    <3>6. CASE i # first
      <4>1. i \in (last - n)..(Len(text) + 1)
        BY <1>0, <1>2, <3>6
      <4>2. f[i] = ReadFrom(f, text, i)
        BY <2>1, <4>1, Zenon DEF IsReader
      <4> QED
        BY <3>4, <3>6, <4>2, Zenon DEF g
    <3> QED
      BY <3>5, <3>6
  <2>3. g = [i \in first..last |-> g[i]]
    OBVIOUS
  <2> HIDE DEF g
  <2>4. IsReader(g, text, first)
    BY <2>2, <2>3, Zenon DEF IsReader
  <2>5. n + 1 \in 0..Len(text)
    BY <1>2
  <2> HIDE DEF last
  <2> QED
    BY <2>4, <2>5
<1> HIDE DEF S
<1>3. 0..Len(text) \subseteq S
  BY <1>0, <1>1, <1>2, SetInduction
<1>4. Len(text) \in 0..Len(text) /\ last - Len(text) = 1
  BY <1>0
<1> QED
  BY <1>3, <1>4 DEF S

LEMMA ReadStringStep ==
  ASSUME NEW C, NEW text \in Seq(C), NEW i \in 1..(Len(text) + 1)
  PROVE  /\ i > Len(text) => ReadString(text, i) = Error
         /\ i = Len(text) /\ text[i] = "\\" => ReadString(text, i) = Error
         /\ i <= Len(text) /\ text[i] = ";" => ReadString(text, i) = Got(<<>>, i + 1)
         /\ i < Len(text) /\ text[i] = "\\" =>
              LET rest == ReadString(text, i + 2)
              IN ReadString(text, i) =
                   IF rest.error THEN Error ELSE Got(<<text[i + 1]>> \o rest.value, rest.next)
         /\ i <= Len(text) /\ text[i] \notin {";", "\\"} =>
              LET rest == ReadString(text, i + 1)
              IN ReadString(text, i) =
                   IF rest.error THEN Error ELSE Got(<<text[i]>> \o rest.value, rest.next)
<1> DEFINE f == CHOOSE f : IsReader(f, text, 1)
<1>1. IsReader(f, text, 1)
  <2> HIDE DEF f
  <2> QED
    BY ReaderExists DEF f
<1>2. \A j : ReadString(text, j) = f[j]
  BY Zenon DEF ReadString, IsReader, ReadFrom
<1> HIDE DEF f
<1>3. f[i] = ReadFrom(f, text, i)
  BY <1>1, Zenon DEF IsReader
<1>4. (i + 1) + 1 = i + 2
  OBVIOUS
<1>5. i \in Int /\ Len(text) \in Int
  OBVIOUS
<1>6. ReadString(text, i) = ReadFrom(f, text, i)
  BY <1>2, <1>3, Zenon
<1>7. CASE i > Len(text)
  <2>1. ~(i = Len(text)) /\ ~(i <= Len(text)) /\ ~(i < Len(text))
    BY <1>5, <1>7
  <2> QED
    BY <1>6, <1>7, <2>1, Zenon DEF ReadFrom
<1>8. CASE ~(i > Len(text))
  <2>1. "\\" # ";"
    OBVIOUS
  <2>2. i < Len(text) => i # Len(text)
    BY <1>5
  <2>3. CASE text[i] = ";"
    BY <1>6, <1>8, <2>1, <2>3, Zenon DEF ReadFrom
  <2>4. CASE text[i] = "\\"
    <3>1. CASE i = Len(text)
      <4>1. ~(i < Len(text))
        BY <1>5, <3>1
      <4> QED
        BY <1>6, <1>8, <2>1, <2>4, <3>1, <4>1, Zenon DEF ReadFrom
    <3>2. CASE i # Len(text)
      <4>1. ReadFrom(f, text, i) =
              IF f[(i + 1) + 1].error THEN Error
              ELSE Got(<<text[i + 1]>> \o f[(i + 1) + 1].value, f[(i + 1) + 1].next)
        BY <1>8, <2>1, <2>4, <3>2, Zenon DEF ReadFrom
      <4>2. ReadString(text, i + 2) = f[(i + 1) + 1]
        BY <1>2, <1>4, Zenon
      <4>3. ReadString(text, i) =
              IF ReadString(text, i + 2).error THEN Error
              ELSE Got(<<text[i + 1]>> \o ReadString(text, i + 2).value, ReadString(text, i + 2).next)
        BY <1>6, <4>1, <4>2, Zenon
      <4> QED
        BY <1>8, <2>1, <2>4, <3>2, <4>3, Zenon
    <3> QED
      BY <3>1, <3>2
  <2>5. CASE text[i] \notin {";", "\\"}
    <3>1. text[i] # ";" /\ text[i] # "\\"
      BY <2>5
    <3>2. ReadFrom(f, text, i) =
            IF f[i + 1].error THEN Error ELSE Got(<<text[i]>> \o f[i + 1].value, f[i + 1].next)
      BY <1>8, <3>1, Zenon DEF ReadFrom
    <3>3. ReadString(text, i) =
            IF ReadString(text, i + 1).error THEN Error
            ELSE Got(<<text[i]>> \o ReadString(text, i + 1).value, ReadString(text, i + 1).next)
      BY <1>2, <1>6, <3>2, Zenon
    <3> QED
      BY <1>8, <3>1, <3>3, Zenon
  <2> QED
    BY <2>3, <2>4, <2>5
<1> QED
  BY <1>7, <1>8

\* What is read of a text that ends behind `last', in comparison with what is
\* read of a longer one: an error, or the same, without a look behind `last'.
ReadAlike(part, whole, Values, last) ==
  \/ part = Error
  \/ \E value \in Values : \E next \in 1..(last + 1) :
        part = Got(value, next) /\ whole = Got(value, next)

LEMMA GotFields ==
  ASSUME NEW read, NEW value, NEW next, read = Got(value, next)
  PROVE  ~read.error /\ read.value = value /\ read.next = next
BY DEF Got

LEMMA ErrorField == Error.error
BY DEF Error

\* Once more, with a part and a whole.
LEMMA StringReadAlike ==
  ASSUME NEW C, NEW text \in Seq(C), NEW part \in Seq(C), Len(part) <= Len(text),
         \A i \in 1..Len(part) : part[i] = text[i],
         NEW at \in 1..(Len(part) + 1)
  PROVE  ReadAlike(ReadString(part, at), ReadString(text, at), Seq(C), Len(part))
<1> DEFINE last == Len(part)
           Good(i) == ReadAlike(ReadString(part, i), ReadString(text, i), Seq(C), last)
           S == {n \in 0..last : \A i \in (last + 1 - n)..(last + 1) : Good(i)}
<1>0. last \in Nat /\ Len(text) \in Nat
  OBVIOUS
<1>1. 0 \in S
  <2>1. ReadString(part, last + 1) = Error
    <3>1. last + 1 \in 1..(Len(part) + 1) /\ last + 1 > Len(part)
      BY <1>0
    <3> QED
      BY <3>1, ReadStringStep, Zenon
  <2>2. Good(last + 1)
    BY <2>1 DEF ReadAlike
  <2> HIDE DEF Good
  <2> QED
    BY <1>0, <2>2
\* What the rest is read as decides it.
<1>2. ASSUME NEW i \in 1..last, NEW j \in (i + 1)..(last + 1), Good(j), NEW c \in C,
             ReadString(part, i) = IF ReadString(part, j).error THEN Error
               ELSE Got(<<c>> \o ReadString(part, j).value, ReadString(part, j).next),
             ReadString(text, i) = IF ReadString(text, j).error THEN Error
               ELSE Got(<<c>> \o ReadString(text, j).value, ReadString(text, j).next)
      PROVE  Good(i)
  <2>1. CASE ReadString(part, j) = Error
    <3>1. ReadString(part, i) = Error
      BY <1>2, <2>1, ErrorField, Zenon
    <3> QED
      BY <3>1 DEF ReadAlike
  <2>2. CASE ReadString(part, j) # Error
    <3>1. PICK value \in Seq(C), next \in 1..(last + 1) :
            ReadString(part, j) = Got(value, next) /\ ReadString(text, j) = Got(value, next)
      BY <1>2, <2>2, Zenon DEF ReadAlike
    <3>2. ReadString(part, i) = Got(<<c>> \o value, next)
      <4>1. /\ ~ReadString(part, j).error
            /\ ReadString(part, j).value = value /\ ReadString(part, j).next = next
        BY <3>1, GotFields
      <4> QED
        BY <1>2, <4>1, Zenon
    <3>3. ReadString(text, i) = Got(<<c>> \o value, next)
      <4>1. /\ ~ReadString(text, j).error
            /\ ReadString(text, j).value = value /\ ReadString(text, j).next = next
        BY <3>1, GotFields
      <4> QED
        BY <1>2, <4>1, Zenon
    <3>4. <<c>> \o value \in Seq(C)
      OBVIOUS
    <3> QED
      BY <3>2, <3>3, <3>4, Zenon DEF ReadAlike
  <2> QED
    BY <2>1, <2>2
<1>3. ASSUME NEW i \in 1..last, \A j \in (i + 1)..(last + 1) : Good(j)
      PROVE  Good(i)
  <2>1. /\ i \in 1..(Len(part) + 1) /\ i \in 1..(Len(text) + 1) /\ i <= Len(part) /\ i <= Len(text)
        /\ part[i] = text[i] /\ part[i] \in C
    BY <1>0
  <2>2. CASE part[i] = ";"
    <3>1. ReadString(part, i) = Got(<<>>, i + 1) /\ ReadString(text, i) = Got(<<>>, i + 1)
      BY <2>1, <2>2, ReadStringStep
    <3>2. <<>> \in Seq(C) /\ i + 1 \in 1..(last + 1)
      BY <1>0
    <3> QED
      BY <3>1, <3>2, Zenon DEF ReadAlike
  <2>3. CASE part[i] = "\\"
    <3>1. CASE i = last
      <4>1. ReadString(part, i) = Error
        BY <2>1, <2>3, <3>1, ReadStringStep
      <4> QED
        BY <4>1 DEF ReadAlike
    <3>2. CASE i # last
      <4>1. /\ i < Len(part) /\ i < Len(text) /\ i + 2 \in (i + 1)..(last + 1)
            /\ part[i + 1] = text[i + 1] /\ part[i + 1] \in C
        BY <1>0, <3>2
      <4>2. ReadString(part, i) = IF ReadString(part, i + 2).error THEN Error
               ELSE Got(<<part[i + 1]>> \o ReadString(part, i + 2).value, ReadString(part, i + 2).next)
        BY <2>1, <2>3, <4>1, ReadStringStep, Zenon
      <4>3. ReadString(text, i) = IF ReadString(text, i + 2).error THEN Error
               ELSE Got(<<text[i + 1]>> \o ReadString(text, i + 2).value, ReadString(text, i + 2).next)
        BY <2>1, <2>3, <4>1, ReadStringStep, Zenon
      <4>4. Good(i + 2)
        BY <1>3, <4>1
      <4> HIDE DEF Good
      <4> QED
        BY <1>2, <4>1, <4>2, <4>3, <4>4, Zenon
    <3> QED
      BY <3>1, <3>2
  <2>4. CASE part[i] # ";" /\ part[i] # "\\"
    <3>1. part[i] \notin {";", "\\"} /\ text[i] \notin {";", "\\"} /\ i + 1 \in (i + 1)..(last + 1)
      <4>1. part[i] \notin {";", "\\"}
        BY <2>4, Zenon
      <4>2. i + 1 \in (i + 1)..(last + 1)
        BY <1>0
      <4> QED
        BY <2>1, <4>1, <4>2, Zenon
    <3>2. ReadString(part, i) = IF ReadString(part, i + 1).error THEN Error
             ELSE Got(<<part[i]>> \o ReadString(part, i + 1).value, ReadString(part, i + 1).next)
      BY <2>1, <3>1, ReadStringStep, Zenon
    <3>3. ReadString(text, i) = IF ReadString(text, i + 1).error THEN Error
             ELSE Got(<<text[i]>> \o ReadString(text, i + 1).value, ReadString(text, i + 1).next)
      BY <2>1, <3>1, ReadStringStep, Zenon
    <3>4. Good(i + 1)
      BY <1>3, <3>1
    <3> HIDE DEF Good
    <3> QED
      BY <1>2, <2>1, <3>1, <3>2, <3>3, <3>4, Zenon
  <2> QED
    BY <2>2, <2>3, <2>4
<1>4. ASSUME NEW n \in 0..last, n \in S, n < last
      PROVE  n + 1 \in S
  <2>1. last - n \in 1..last /\ \A j \in ((last - n) + 1)..(last + 1) : Good(j)
    <3> HIDE DEF Good
    <3>1. (last - n) + 1 = last + 1 - n
      BY <1>0
    <3> QED
      BY <1>0, <1>4, <3>1
  <2>2. Good(last - n)
    <3> HIDE DEF Good
    <3> QED
      BY <1>3, <2>1
  <2> HIDE DEF Good
  <2>3. \A i \in (last + 1 - (n + 1))..(last + 1) :
          i = last - n \/ i \in ((last - n) + 1)..(last + 1)
    BY <1>0
  <2> QED
    BY <1>0, <1>4, <2>1, <2>2, <2>3
<1> HIDE DEF S, Good, last
<1>5. 0..last \subseteq S
  BY <1>0, <1>1, <1>4, SetInduction
<1>6. last \in 0..last /\ at \in (last + 1 - last)..(last + 1)
  BY <1>0 DEF last
<1>7. Good(at)
  BY <1>5, <1>6 DEF S
<1> QED
  BY <1>7 DEF Good, last

-----------------------------------------------------------------------------
(* What WriteString writes is read as it was.                              *)

\* Among the characters are those that have a meaning of their own.
HasMarks(C) == {";", "\\"} \subseteq C

LEMMA ShortType ==
  ASSUME NEW C, NEW c \in C, NEW d \in C
  PROVE  /\ <<c>> \in Seq(C) /\ Len(<<c>>) = 1 /\ <<c>>[1] = c
         /\ <<c, d>> \in Seq(C) /\ Len(<<c, d>>) = 2 /\ <<c, d>>[1] = c /\ <<c, d>>[2] = d
OBVIOUS

LEMMA BothType ==
  ASSUME NEW C, NEW s \in Seq(C), NEW t \in Seq(C)
  PROVE  s \o t \in Seq(C) /\ Len(s \o t) = Len(s) + Len(t) /\ Len(s) \in Nat /\ Len(t) \in Nat
OBVIOUS

LEMMA BothElements ==
  ASSUME NEW C, NEW s \in Seq(C), NEW t \in Seq(C)
  PROVE  /\ \A i \in 1..Len(s) : (s \o t)[i] = s[i]
         /\ \A i \in 1..Len(t) : (s \o t)[Len(s) + i] = t[i]
OBVIOUS

LEMMA EscapedType ==
  ASSUME NEW C, HasMarks(C), NEW char \in C
  PROVE  Escaped(char) \in Seq(C)
<1>1. ";" \in C /\ "\\" \in C
  BY DEF HasMarks
<1>2. <<"\\", char>> \in Seq(C) /\ <<char>> \in Seq(C)
  BY <1>1, ShortType, Zenon
<1> QED
  BY <1>2, Zenon DEF Escaped

LEMMA WriteStringType ==
  ASSUME NEW C, HasMarks(C), NEW chars \in Seq(C)
  PROVE  /\ [i \in 1..Len(chars) |-> Escaped(chars[i])] \in [1..Len(chars) -> Seq(C)]
         /\ Concat([i \in 1..Len(chars) |-> Escaped(chars[i])]) \in Seq(C)
         /\ WriteString(chars) \in Seq(C)
<1> DEFINE parts == [i \in 1..Len(chars) |-> Escaped(chars[i])]
<1>1. Len(chars) \in Nat /\ \A i \in 1..Len(chars) : chars[i] \in C
  OBVIOUS
<1>2. parts \in [1..Len(chars) -> Seq(C)]
  BY <1>1, EscapedType
<1> HIDE DEF parts
<1>3. Concat(parts) \in Seq(C)
  BY <1>1, <1>2, ConcatType
<1>4. WriteString(chars) = Concat(parts) \o <<";">>
  BY DEF WriteString, parts
<1>5. Concat(parts) \o <<";">> \in Seq(C)
  <2>1. ";" \in C
    BY DEF HasMarks
  <2>2. <<";">> \in Seq(C)
    BY <2>1, ShortType, Zenon
  <2> QED
    BY <1>3, <2>2, BothType, Zenon
<1> QED
  BY <1>2, <1>3, <1>4, <1>5 DEF parts

\* One character, in front of what is read behind it.
LEMMA EscapedReadBack ==
  ASSUME NEW C, NEW text \in Seq(C), NEW char \in C, NEW at \in Nat \ {0},
         At(text, at, Escaped(char)), NEW value, NEW next,
         at + Len(Escaped(char)) <= Len(text),
         ReadString(text, at + Len(Escaped(char))) = Got(value, next)
  PROVE  ReadString(text, at) = Got(<<char>> \o value, next)
<1>1. Len(text) \in Nat
  OBVIOUS
<1>2. CASE char \in {";", "\\"}
  <2>1. Escaped(char) = <<"\\", char>>
    BY <1>2 DEF Escaped
  <2>2. Len(Escaped(char)) = 2
    BY <2>1
  <2>3. text[at] = "\\" /\ text[at + 1] = char
    <3>1. 1 \in 1..2 /\ 2 \in 1..2 /\ at + (1 - 1) = at /\ at + (2 - 1) = at + 1
      OBVIOUS
    <3>2. Escaped(char)[1] = "\\" /\ Escaped(char)[2] = char
      BY <2>1
    <3> QED
      BY <2>2, <3>1, <3>2, Zenon DEF At
  <2>4. at < Len(text) /\ at \in 1..(Len(text) + 1)
    BY <1>1, <2>2
  <2>5. ReadString(text, at) =
          IF ReadString(text, at + 2).error THEN Error
          ELSE Got(<<text[at + 1]>> \o ReadString(text, at + 2).value, ReadString(text, at + 2).next)
    BY <2>3, <2>4, ReadStringStep, Zenon
  <2>6. ReadString(text, at + 2) = Got(value, next)
    BY <2>2
  <2>7. /\ ~ReadString(text, at + 2).error
        /\ ReadString(text, at + 2).value = value /\ ReadString(text, at + 2).next = next
    BY <2>6, GotFields
  <2> QED
    BY <2>3, <2>5, <2>7, Zenon
<1>3. CASE char \notin {";", "\\"}
  <2>1. Escaped(char) = <<char>>
    BY <1>3 DEF Escaped
  <2>2. Len(Escaped(char)) = 1
    BY <2>1
  <2>3. text[at] = char
    <3>1. 1 \in 1..1 /\ at + (1 - 1) = at
      OBVIOUS
    <3>2. Escaped(char)[1] = char
      BY <2>1
    <3> QED
      BY <2>2, <3>1, <3>2, Zenon DEF At
  <2>4. at <= Len(text) /\ at \in 1..(Len(text) + 1)
    BY <1>1, <2>2
  <2>5. ReadString(text, at) =
          IF ReadString(text, at + 1).error THEN Error
          ELSE Got(<<text[at]>> \o ReadString(text, at + 1).value, ReadString(text, at + 1).next)
    BY <1>3, <2>3, <2>4, ReadStringStep, Zenon
  <2>6. ReadString(text, at + 1) = Got(value, next)
    BY <2>2
  <2>7. /\ ~ReadString(text, at + 1).error
        /\ ReadString(text, at + 1).value = value /\ ReadString(text, at + 1).next = next
    BY <2>6, GotFields
  <2> QED
    BY <2>3, <2>5, <2>7, Zenon
<1> QED
  BY <1>2, <1>3

LEMMA StringReadBack ==
  ASSUME NEW C, HasMarks(C), NEW chars \in Seq(C), NEW text \in Seq(C),
         NEW at \in Nat \ {0}, At(text, at, WriteString(chars))
  PROVE  /\ ReadString(text, at) = Got(chars, at + Len(WriteString(chars)))
         /\ at + Len(WriteString(chars)) \in Nat \ {0}
<1> DEFINE n == Len(chars)
           parts == [i \in 1..n |-> Escaped(chars[i])]
           all == Concat(parts)
           end == <<";">>
<1>1. parts \in [1..n -> Seq(C)] /\ all \in Seq(C)
  BY WriteStringType
<1>2. WriteString(chars) = all \o end
  BY DEF WriteString
<1>3. n \in Nat
  OBVIOUS
<1>4. \A i \in 1..n : parts[i] = Escaped(chars[i]) /\ chars[i] \in C
  OBVIOUS
<1>5. Len(text) \in Nat
  OBVIOUS
<1>6. end \in Seq(C) /\ Len(end) = 1 /\ end[1] = ";"
  <2>1. ";" \in C
    BY DEF HasMarks
  <2> QED
    BY <2>1, ShortType, Zenon
<1>7. \A i \in 1..n : SubSeq(chars, i, n) = <<chars[i]>> \o SubSeq(chars, i + 1, n)
  OBVIOUS
<1>8. SubSeq(chars, n + 1, n) = <<>> /\ SubSeq(chars, 0 + 1, n) = chars
  OBVIOUS
<1> HIDE DEF all, parts, end, n
<1>9. At(text, at, all) /\ At(text, at + Len(all), end) /\ Len(all) \in Nat
      /\ Len(WriteString(chars)) = Len(all) + 1
  <2>1. At(text, at, all \o end)
    BY <1>2, Zenon
  <2>2. Len(all \o end) = Len(all) + Len(end) /\ Len(all) \in Nat
    BY <1>1, <1>6, BothType
  <2> QED
    BY <1>1, <1>2, <1>6, <2>1, <2>2, AtConcat, Zenon
<1>10. PICK pos \in [0..n -> Nat \ {0}] : ArePositions(pos, n, parts, text, at)
  <2>1. At(text, at, Concat(parts))
    BY <1>9 DEF all
  <2> QED
    BY <1>1, <1>3, <2>1, ConcatAt
<1>11. pos[n] \in Nat \ {0} /\ pos[0] \in Nat \ {0}
  BY <1>3
<1> DEFINE last == pos[n]
<1> HIDE DEF last
<1>12. text[last] = ";" /\ last <= Len(text) /\ last \in 1..(Len(text) + 1)
  <2>1. At(text, last, end) /\ last \in Nat \ {0}
    BY <1>9, <1>10, <1>11, Zenon DEF last, ArePositions, all
  <2>2. 1 \in 1..1 /\ last + (1 - 1) = last
    BY <2>1
  <2>3. text[last] = ";"
    BY <1>6, <2>1, <2>2, Zenon DEF At
  <2>4. last + 1 <= Len(text) + 1
    BY <1>6, <2>1, Zenon DEF At
  <2>5. last <= Len(text) /\ last \in 1..(Len(text) + 1)
    BY <1>5, <2>1, <2>4
  <2> QED
    BY <2>3, <2>5, Zenon
\* The characters behind the first n - k.
<1> DEFINE Rest(i) == SubSeq(chars, i + 1, n)
           Good(i) == pos[i] <= Len(text) /\ ReadString(text, pos[i]) = Got(Rest(i), last + 1)
           S == {k \in 0..n : Good(n - k)}
<1>13. 0 \in S
  <2>1. ReadString(text, last) = Got(<<>>, last + 1)
    BY <1>12, ReadStringStep, Zenon
  <2>2. Good(n)
    BY <1>8, <1>12, <2>1, Zenon DEF last
  <2>3. n - 0 = n /\ 0 \in 0..n
    BY <1>3
  <2> HIDE DEF Good
  <2> QED
    BY <2>2, <2>3
<1>14. ASSUME NEW k \in 0..n, k \in S, k < n
       PROVE  k + 1 \in S
  <2> DEFINE i == n - k
  <2>1. i \in 1..n /\ i - 1 \in 0..n /\ n - (k + 1) = i - 1 /\ k + 1 \in 0..n /\ (i - 1) + 1 = i
        /\ i \in 0..n
    BY <1>3, <1>14
  <2>2. Good(i)
    BY <1>14
  <2> HIDE DEF i
  <2>3. pos[i - 1] \in Nat \ {0} /\ pos[i] \in Nat \ {0}
    BY <2>1
  <2>4. /\ pos[i] = pos[i - 1] + Len(Escaped(chars[i])) /\ At(text, pos[i - 1], Escaped(chars[i]))
        /\ chars[i] \in C
    BY <1>4, <1>10, <2>1, Zenon DEF ArePositions
  <2>5. ReadString(text, pos[i - 1] + Len(Escaped(chars[i]))) = Got(Rest(i), last + 1)
        /\ pos[i - 1] + Len(Escaped(chars[i])) <= Len(text)
    BY <2>2, <2>4, Zenon
  <2>6. ReadString(text, pos[i - 1]) = Got(<<chars[i]>> \o Rest(i), last + 1)
    <3> HIDE DEF Rest
    <3> QED
      BY <2>3, <2>4, <2>5, EscapedReadBack
  <2>7. <<chars[i]>> \o Rest(i) = Rest(i - 1)
    BY <1>7, <2>1, Zenon
  <2>8. pos[i - 1] <= Len(text)
    <3>1. Len(Escaped(chars[i])) \in Nat
      <4>1. Escaped(chars[i]) \in Seq(C)
        BY <2>4, EscapedType, Zenon
      <4> QED
        BY <4>1
    <3> HIDE DEF Rest
    <3> QED
      BY <1>5, <2>3, <2>5, <3>1
  <2>9. Good(i - 1)
    BY <2>6, <2>7, <2>8, Zenon
  <2> HIDE DEF Good
  <2> QED
    BY <2>1, <2>9
<1> HIDE DEF Good, S
<1>15. 0..n \subseteq S
  BY <1>3, <1>13, <1>14, SetInduction
<1>16. Good(0)
  <2>1. n \in 0..n /\ n - n = 0
    BY <1>3
  <2> QED
    BY <1>15, <2>1, Zenon DEF S
<1>17. ReadString(text, at) = Got(chars, last + 1)
  BY <1>8, <1>10, <1>16, Zenon DEF Good, ArePositions
<1>18. last + 1 = at + Len(WriteString(chars)) /\ last + 1 \in Nat \ {0}
  <2>1. last = at + Len(all)
    BY <1>10, Zenon DEF ArePositions, all, last
  <2> QED
    BY <1>9, <2>1
<1> HIDE DEF Rest
<1> QED
  BY <1>17, <1>18, Zenon

-----------------------------------------------------------------------------
(* Numbers and their digits.                                               *)

DigitChars == {Digit[d] : d \in 1..10}

LEMMA DigitApart ==
  ASSUME NEW d \in 1..10, NEW e \in 1..10, Digit[d] = Digit[e]
  PROVE  d = e
<1>1. /\ Digit[1] = "0" /\ Digit[2] = "1" /\ Digit[3] = "2" /\ Digit[4] = "3" /\ Digit[5] = "4"
      /\ Digit[6] = "5" /\ Digit[7] = "6" /\ Digit[8] = "7" /\ Digit[9] = "8" /\ Digit[10] = "9"
  BY DEF Digit
<1>2. d \in {1, 2, 3, 4, 5, 6, 7, 8, 9, 10} /\ e \in {1, 2, 3, 4, 5, 6, 7, 8, 9, 10}
  OBVIOUS
<1> QED
  BY <1>1, <1>2

LEMMA DigitValueOf ==
  ASSUME NEW d \in 1..10
  PROVE  DigitValue(Digit[d]) = d - 1
<1> DEFINE c == CHOOSE e \in 1..10 : Digit[e] = Digit[d]
<1>1. c \in 1..10 /\ Digit[c] = Digit[d]
  BY Zenon
<1>2. DigitValue(Digit[d]) = c - 1
  BY Zenon DEF DigitValue
<1> HIDE DEF c
<1>3. c = d
  BY <1>1, DigitApart
<1> QED
  BY <1>2, <1>3

LEMMA DigitValueType ==
  ASSUME NEW c \in DigitChars
  PROVE  DigitValue(c) \in Nat
<1>1. PICK d \in 1..10 : c = Digit[d]
  BY DEF DigitChars
<1>2. DigitValue(c) = d - 1
  BY <1>1, DigitValueOf
<1> QED
  BY <1>2

IsValue(f, chars) ==
  f = [i \in 0..Len(chars) |-> IF i = 0 THEN 0 ELSE 10 * f[i - 1] + DigitValue(chars[i])]

LEMMA ValueExists ==
  ASSUME NEW chars \in Seq(DigitChars)
  PROVE  \E f : IsValue(f, chars)
<1> DEFINE n == Len(chars)
           Upto(f, k) ==
             f = [i \in 0..k |-> IF i = 0 THEN 0 ELSE 10 * f[i - 1] + DigitValue(chars[i])]
           S == {k \in 0..n : \E f : Upto(f, k)}
<1>0. n \in Nat
  OBVIOUS
<1> HIDE DEF n
<1>1. 0 \in S
  <2> DEFINE f == [i \in 0..0 |-> 0]
  <2>1. \A i \in 0..0 : i = 0
    OBVIOUS
  <2>2. Upto(f, 0)
    BY <2>1, Zenon
  <2> HIDE DEF Upto
  <2> QED
    BY <1>0, <2>2
<1>2. ASSUME NEW k \in 0..n, k \in S, k < n
      PROVE  k + 1 \in S
  <2>1. PICK f : Upto(f, k)
    BY <1>2
  <2> DEFINE g == [i \in 0..(k + 1) |-> IF i = k + 1 THEN 10 * f[k] + DigitValue(chars[k + 1]) ELSE f[i]]
  <2>2. ASSUME NEW i \in 0..(k + 1)
        PROVE  g[i] = IF i = 0 THEN 0 ELSE 10 * g[i - 1] + DigitValue(chars[i])
    <3>1. CASE i = k + 1
      <4>1. i # 0 /\ i - 1 = k /\ k \in 0..(k + 1) /\ k # k + 1
        BY <3>1
      <4>2. g[i - 1] = f[k]
        BY <4>1, Zenon
      <4> QED
        BY <3>1, <4>1, <4>2, Zenon
    <3>2. CASE i # k + 1
      <4>1. i \in 0..k
        BY <3>2
      <4>2. g[i] = f[i]
        BY <3>2, Zenon
      <4>3. i # 0 => i - 1 \in 0..(k + 1) /\ i - 1 # k + 1
        BY <3>2
      <4>4. i # 0 => g[i - 1] = f[i - 1]
        BY <4>3, Zenon
      <4>5. f[i] = IF i = 0 THEN 0 ELSE 10 * f[i - 1] + DigitValue(chars[i])
        BY <2>1, <4>1, Zenon
      <4> QED
        BY <4>2, <4>4, <4>5, Zenon
    <3> QED
      BY <3>1, <3>2
  <2>3. g = [i \in 0..(k + 1) |-> g[i]]
    OBVIOUS
  <2> HIDE DEF g
  <2>4. Upto(g, k + 1)
    BY <2>2, <2>3, Zenon
  <2>5. k + 1 \in 0..n
    BY <1>0, <1>2
  <2> HIDE DEF Upto
  <2> QED
    BY <2>4, <2>5
<1> HIDE DEF S
<1>3. 0..n \subseteq S
  BY <1>0, <1>1, <1>2, SetInduction
<1>4. \E f : Upto(f, n)
  <2>1. n \in 0..n
    BY <1>0
  <2> HIDE DEF Upto
  <2> QED
    BY <1>3, <2>1 DEF S
<1> QED
  BY <1>4, Zenon DEF IsValue, n

LEMMA ValueSteps ==
  ASSUME NEW chars \in Seq(DigitChars)
  PROVE  \E f : /\ f[0] = 0 /\ f[Len(chars)] = Value(chars)
                /\ \A i \in 1..Len(chars) :
                     f[i] = 10 * f[i - 1] + DigitValue(chars[i]) /\ f[i - 1] \in Nat
                /\ f[Len(chars)] \in Nat
<1> DEFINE n == Len(chars)
           f == CHOOSE f : IsValue(f, chars)
<1>0. n \in Nat
  OBVIOUS
<1>1. IsValue(f, chars)
  <2> HIDE DEF f
  <2> QED
    BY ValueExists DEF f
<1>2. Value(chars) = f[n]
  BY Zenon DEF Value, IsValue
<1> HIDE DEF f
<1>3. \A i \in 0..n : f[i] = IF i = 0 THEN 0 ELSE 10 * f[i - 1] + DigitValue(chars[i])
  BY <1>1, Zenon DEF IsValue
<1>4. \A i \in 1..n : chars[i] \in DigitChars
  OBVIOUS
<1> HIDE DEF n
<1>5. f[0] = 0
  <2>1. 0 \in 0..n
    BY <1>0
  <2> QED
    BY <1>3, <2>1, Zenon
<1>6. ASSUME NEW i \in 1..n
      PROVE  f[i] = 10 * f[i - 1] + DigitValue(chars[i])
  <2>1. i \in 0..n /\ i # 0
    BY <1>0
  <2> QED
    BY <1>3, <2>1, Zenon
<1> DEFINE S == {i \in 0..n : f[i] \in Nat}
<1>7. 0 \in S
  BY <1>0, <1>5
<1>8. ASSUME NEW i \in 0..n, i \in S, i < n
      PROVE  i + 1 \in S
  <2>1. i + 1 \in 1..n /\ (i + 1) - 1 = i /\ i + 1 \in 0..n
    BY <1>0, <1>8
  <2>2. f[i + 1] = 10 * f[i] + DigitValue(chars[i + 1])
    BY <1>6, <2>1, Zenon
  <2>3. DigitValue(chars[i + 1]) \in Nat
    BY <1>4, <2>1, DigitValueType
  <2>4. f[i] \in Nat
    BY <1>8
  <2> HIDE DEF S
  <2>5. f[i + 1] \in Nat
    BY <2>2, <2>3, <2>4
  <2> QED
    BY <2>1, <2>5 DEF S
<1> HIDE DEF S
<1>9. 0..n \subseteq S
  BY <1>0, <1>7, <1>8, SetInduction
<1>10. \A i \in 0..n : f[i] \in Nat
  BY <1>9 DEF S
<1>11. n \in 0..n /\ \A i \in 1..n : i - 1 \in 0..n
  BY <1>0
<1>12. /\ f[0] = 0 /\ f[n] = Value(chars) /\ f[n] \in Nat
       /\ \A i \in 1..n : f[i] = 10 * f[i - 1] + DigitValue(chars[i]) /\ f[i - 1] \in Nat
  BY <1>2, <1>5, <1>6, <1>10, <1>11, Zenon
<1> QED
  BY <1>12, Zenon DEF n

LEMMA ValueType ==
  ASSUME NEW chars \in Seq(DigitChars)
  PROVE  Value(chars) \in Nat
BY ValueSteps, Zenon

LEMMA ValueOfNone == Value(<<>>) = 0
<1>1. <<>> \in Seq(DigitChars) /\ Len(<<>>) = 0
  OBVIOUS
<1> QED
  BY <1>1, ValueSteps

LEMMA ValueAppended ==
  ASSUME NEW s \in Seq(DigitChars), NEW d \in 1..10
  PROVE  /\ s \o <<Digit[d]>> \in Seq(DigitChars) \ {<<>>}
         /\ Value(s \o <<Digit[d]>>) = 10 * Value(s) + (d - 1)
<1> DEFINE c == Digit[d]
           n == Len(s)
           t == s \o <<c>>
<1>1. c \in DigitChars
  BY DEF DigitChars
<1>2. DigitValue(c) = d - 1
  BY DigitValueOf
<1> HIDE DEF c
<1>3. /\ t \in Seq(DigitChars) /\ t # <<>> /\ Len(t) = n + 1 /\ t[n + 1] = c
      /\ n \in Nat /\ \A i \in 1..n : t[i] = s[i]
  BY <1>1
<1> HIDE DEF t, n
<1>4. PICK f : /\ f[0] = 0 /\ f[n] = Value(s)
               /\ \A i \in 1..n : f[i] = 10 * f[i - 1] + DigitValue(s[i]) /\ f[i - 1] \in Nat
               /\ f[n] \in Nat
  BY ValueSteps, Zenon DEF n
<1>5. PICK g : /\ g[0] = 0 /\ g[Len(t)] = Value(t)
               /\ \A i \in 1..Len(t) : g[i] = 10 * g[i - 1] + DigitValue(t[i]) /\ g[i - 1] \in Nat
               /\ g[Len(t)] \in Nat
  BY <1>3, ValueSteps
<1> DEFINE S == {i \in 0..n : g[i] = f[i]}
<1>6. 0 \in S
  BY <1>3, <1>4, <1>5
<1>7. ASSUME NEW i \in 0..n, i \in S, i < n
      PROVE  i + 1 \in S
  <2>1. i + 1 \in 1..n /\ i + 1 \in 1..Len(t) /\ (i + 1) - 1 = i /\ i + 1 \in 0..n
    BY <1>3, <1>7
  <2>2. g[i] = f[i]
    BY <1>7
  <2>3. f[i + 1] = 10 * f[i] + DigitValue(s[i + 1])
    BY <1>4, <2>1, Zenon
  <2>4. g[i + 1] = 10 * g[i] + DigitValue(t[i + 1])
    BY <1>5, <2>1, Zenon
  <2>5. t[i + 1] = s[i + 1]
    BY <1>3, <2>1, Zenon
  <2>6. g[i + 1] = f[i + 1]
    BY <2>2, <2>3, <2>4, <2>5, Zenon
  <2> HIDE DEF S
  <2> QED
    BY <2>1, <2>6 DEF S
<1> HIDE DEF S
<1>8. 0..n \subseteq S
  BY <1>3, <1>6, <1>7, SetInduction
<1>9. g[n] = Value(s)
  <2>1. n \in 0..n
    BY <1>3
  <2> QED
    BY <1>4, <1>8, <2>1 DEF S
<1>10. Value(t) = 10 * Value(s) + (d - 1)
  <2>1. n + 1 \in 1..Len(t) /\ (n + 1) - 1 = n
    BY <1>3
  <2>2. g[n + 1] = 10 * g[n] + DigitValue(t[n + 1])
    BY <1>5, <2>1, Zenon
  <2> QED
    BY <1>2, <1>3, <1>5, <1>9, <2>2, Zenon
<1> QED
  BY <1>3, <1>10 DEF t, c

AreDigits(f, n) ==
  f = [k \in 0..n |->
         IF k < 10 THEN <<Digit[k + 1]>> ELSE f[k \div 10] \o <<Digit[(k % 10) + 1]>>]

LEMMA Tenth ==
  ASSUME NEW k \in Nat, ~(k < 10)
  PROVE  k \div 10 \in 0..(k - 1) /\ (k % 10) + 1 \in 1..10 /\ 10 * (k \div 10) + (k % 10) = k
OBVIOUS

LEMMA DigitsExist ==
  ASSUME NEW n \in Nat
  PROVE  \E f : AreDigits(f, n)
<1> DEFINE S == {k \in 0..n : \E f : AreDigits(f, k)}
<1>1. 0 \in S
  <2> DEFINE f == [k \in 0..0 |-> <<Digit[k + 1]>>]
  <2>1. \A k \in 0..0 : k < 10
    OBVIOUS
  <2>2. AreDigits(f, 0)
    BY <2>1, Zenon DEF AreDigits
  <2> QED
    BY <2>2
<1>2. ASSUME NEW i \in 0..n, i \in S, i < n
      PROVE  i + 1 \in S
  <2>1. PICK f : AreDigits(f, i)
    BY <1>2
  <2> DEFINE j == i + 1
             g == [k \in 0..j |->
                     IF k # j THEN f[k]
                     ELSE IF j < 10 THEN <<Digit[j + 1]>> ELSE f[j \div 10] \o <<Digit[(j % 10) + 1]>>]
  <2>0. j \in Nat /\ j - 1 = i /\ j \in 0..j /\ j \in 0..n
    BY <1>2
  <2> HIDE DEF j
  <2>2. ASSUME NEW k \in 0..j
        PROVE  g[k] = IF k < 10 THEN <<Digit[k + 1]>> ELSE g[k \div 10] \o <<Digit[(k % 10) + 1]>>
    <3>1. ~(k < 10) => k \div 10 \in 0..(k - 1)
      BY <2>0, Tenth
    <3>2. ~(k < 10) => k \div 10 \in 0..j /\ k \div 10 # j
      BY <2>0, <3>1
    <3>3. ~(k < 10) => g[k \div 10] = f[k \div 10]
      BY <3>2, Zenon
    <3>4. CASE k = j
      <4>1. g[k] = IF j < 10 THEN <<Digit[j + 1]>> ELSE f[j \div 10] \o <<Digit[(j % 10) + 1]>>
        BY <3>4, Zenon
      <4> HIDE DEF g
      <4> QED
        BY <3>3, <3>4, <4>1, Zenon
    <3>5. CASE k # j
      <4>1. g[k] = f[k]
        BY <3>5, Zenon
      <4>2. k \in 0..i
        BY <2>0, <3>5
      <4>3. f[k] = IF k < 10 THEN <<Digit[k + 1]>> ELSE f[k \div 10] \o <<Digit[(k % 10) + 1]>>
        BY <2>1, <4>2, Zenon DEF AreDigits
      <4> HIDE DEF g
      <4> QED
        BY <3>3, <4>1, <4>3, Zenon
    <3> QED
      BY <3>4, <3>5
  <2>3. g = [k \in 0..j |-> g[k]]
    OBVIOUS
  <2> HIDE DEF g
  <2>4. AreDigits(g, j)
    BY <2>2, <2>3, Zenon DEF AreDigits
  <2> QED
    BY <2>0, <2>4 DEF j
<1> HIDE DEF S
<1>3. 0..n \subseteq S
  BY <1>1, <1>2, SetInduction
<1>4. n \in 0..n
  OBVIOUS
<1> QED
  BY <1>3, <1>4 DEF S

LEMMA ValueOfDigits ==
  ASSUME NEW n \in Nat
  PROVE  Digits(n) \in Seq(DigitChars) \ {<<>>} /\ Value(Digits(n)) = n
<1> DEFINE f == CHOOSE f : AreDigits(f, n)
<1>1. AreDigits(f, n)
  <2> HIDE DEF f
  <2> QED
    BY DigitsExist DEF f
<1>2. Digits(n) = f[n]
  BY Zenon DEF Digits, AreDigits
<1> HIDE DEF f
<1> DEFINE Good(k) == f[k] \in Seq(DigitChars) \ {<<>>} /\ Value(f[k]) = k
           S == {i \in 0..n : \A k \in 0..i : Good(k)}
<1>3. ASSUME NEW k \in 0..n, \A j \in 0..(k - 1) : Good(j)
      PROVE  Good(k)
  <2>1. f[k] = IF k < 10 THEN <<Digit[k + 1]>> ELSE f[k \div 10] \o <<Digit[(k % 10) + 1]>>
    BY <1>1, Zenon DEF AreDigits
  <2>2. CASE k < 10
    <3>1. k + 1 \in 1..10 /\ (k + 1) - 1 = k /\ <<>> \in Seq(DigitChars) /\ 10 * 0 + k = k
      BY <2>2
    <3> DEFINE c == Digit[k + 1]
    <3>2. <<>> \o <<c>> \in Seq(DigitChars) \ {<<>>} /\ Value(<<>> \o <<c>>) = 10 * Value(<<>>) + ((k + 1) - 1)
      BY <3>1, ValueAppended, Zenon
    <3>3. c \in DigitChars
      BY <3>1 DEF DigitChars
    <3> HIDE DEF c
    <3>4. <<>> \o <<c>> = <<c>>
      BY <3>3
    <3>5. f[k] = <<c>>
      BY <2>1, <2>2, Zenon DEF c
    <3>6. Value(f[k]) = 10 * 0 + k
      BY <3>1, <3>2, <3>4, <3>5, ValueOfNone, Zenon
    <3> QED
      BY <3>1, <3>2, <3>4, <3>5, <3>6, Zenon
  <2>3. CASE ~(k < 10)
    <3>1. k \div 10 \in 0..(k - 1) /\ (k % 10) + 1 \in 1..10 /\ 10 * (k \div 10) + (k % 10) = k
      BY <2>3, Tenth
    <3>2. Good(k \div 10)
      BY <1>3, <3>1, Zenon
    <3> DEFINE d == (k % 10) + 1
               t == f[k \div 10] \o <<Digit[d]>>
    <3>3. d - 1 = k % 10
      OBVIOUS
    <3>4. f[k] = t
      BY <2>1, <2>3, Zenon
    <3>5. t \in Seq(DigitChars) \ {<<>>} /\ Value(t) = 10 * Value(f[k \div 10]) + (d - 1)
      <4> DEFINE s == f[k \div 10]
      <4>1. s \in Seq(DigitChars) /\ d \in 1..10
        BY <3>1, <3>2, Zenon
      <4> HIDE DEF s, d
      <4>2. s \o <<Digit[d]>> \in Seq(DigitChars) \ {<<>>}
            /\ Value(s \o <<Digit[d]>>) = 10 * Value(s) + (d - 1)
        BY <4>1, ValueAppended
      <4> QED
        BY <4>2, Zenon DEF s
    <3> HIDE DEF t, d
    <3>6. Value(t) = k
      BY <3>1, <3>2, <3>3, <3>5, Zenon
    <3> QED
      BY <3>4, <3>5, <3>6, Zenon
  <2> QED
    BY <2>2, <2>3
<1>4. 0 \in S
  <2> HIDE DEF Good
  <2>1. Good(0)
    BY <1>3
  <2> QED
    BY <2>1
<1>5. ASSUME NEW i \in 0..n, i \in S, i < n
      PROVE  i + 1 \in S
  <2> HIDE DEF Good
  <2>1. i + 1 \in 0..n /\ (i + 1) - 1 = i
    BY <1>5
  <2>2. Good(i + 1)
    BY <1>3, <1>5, <2>1
  <2>3. \A k \in 0..(i + 1) : k \in 0..i \/ k = i + 1
    OBVIOUS
  <2> QED
    BY <1>5, <2>1, <2>2, <2>3
<1> HIDE DEF S, Good
<1>6. 0..n \subseteq S
  BY <1>4, <1>5, SetInduction
<1>7. Good(n)
  <2>1. n \in 0..n
    OBVIOUS
  <2> QED
    BY <1>6, <2>1 DEF S
<1> QED
  BY <1>2, <1>7, Zenon DEF Good

-----------------------------------------------------------------------------
(* ReadInt and WriteInt.                                                   *)

\* The characters of everything but the texts of notifications.
HasOwn(C) == HasMarks(C) /\ DigitChars \cup {"@"} \cup Username \subseteq C

LEMMA NoOtherChar ==
  ASSUME NEW C, NEW chars \in Seq(C)
  PROVE  (\E i \in DOMAIN chars : \A d \in 1..10 : Digit[d] # chars[i]) <=> chars \notin Seq(DigitChars)
<1>1. DOMAIN chars = 1..Len(chars) /\ chars = [i \in 1..Len(chars) |-> chars[i]] /\ Len(chars) \in Nat
  OBVIOUS
<1>2. ASSUME chars \in Seq(DigitChars), NEW i \in 1..Len(chars)
      PROVE  \E d \in 1..10 : Digit[d] = chars[i]
  <2>1. chars[i] \in DigitChars
    BY <1>2
  <2> QED
    BY <2>1 DEF DigitChars
<1>3. ASSUME \A i \in 1..Len(chars) : \E d \in 1..10 : Digit[d] = chars[i]
      PROVE  chars \in Seq(DigitChars)
  <2>1. \A i \in 1..Len(chars) : chars[i] \in DigitChars
    BY <1>3 DEF DigitChars
  <2> QED
    BY <1>1, <2>1
<1> QED
  BY <1>1, <1>2, <1>3, Zenon

LEMMA ReadIntCases ==
  ASSUME NEW C, NEW text, NEW at, NEW chars \in Seq(C), NEW next
  PROVE  /\ ReadString(text, at) = Error => ReadInt(text, at) = Error
         /\ ReadString(text, at) = Got(chars, next) =>
              ReadInt(text, at) = IF chars \in Seq(DigitChars) \ {<<>>}
                                    THEN Got(Value(chars), next) ELSE Error
<1>1. CASE ReadString(text, at) = Error
  <2>1. ReadInt(text, at) = Error
    BY <1>1, ErrorField, Zenon DEF ReadInt
  <2>2. Error # Got(chars, next)
    BY DEF Error, Got
  <2> QED
    BY <1>1, <2>1, <2>2, Zenon
<1>2. CASE ReadString(text, at) = Got(chars, next)
  <2> DEFINE read == ReadString(text, at)
  <2>1. ~read.error /\ read.value = chars /\ read.next = next
    BY <1>2, GotFields
  <2>2. ReadInt(text, at) =
          IF read.error THEN Error
          ELSE IF \/ read.value = <<>>
                  \/ \E i \in DOMAIN read.value : \A d \in 1..10 : Digit[d] # read.value[i]
            THEN Error ELSE Got(Value(read.value), read.next)
    BY Zenon DEF ReadInt
  <2>3. Error # Got(chars, next)
    BY DEF Error, Got
  <2> HIDE DEF read
  <2> DEFINE Other == \E i \in DOMAIN chars : \A d \in 1..10 : Digit[d] # chars[i]
  <2>4. ReadInt(text, at) = IF chars = <<>> \/ Other THEN Error ELSE Got(Value(chars), next)
    BY <2>1, <2>2, Zenon
  <2>5. Other <=> chars \notin Seq(DigitChars)
    BY NoOtherChar
  <2> HIDE DEF Other
  <2>6. ReadInt(text, at) = IF chars \in Seq(DigitChars) \ {<<>>}
                              THEN Got(Value(chars), next) ELSE Error
    BY <2>4, <2>5, Zenon
  <2> QED
    BY <1>2, <2>3, <2>6, Zenon
<1> QED
  BY <1>1, <1>2, Zenon

LEMMA IntReadAlike ==
  ASSUME NEW C, NEW text \in Seq(C), NEW part \in Seq(C), Len(part) <= Len(text),
         \A i \in 1..Len(part) : part[i] = text[i],
         NEW at \in 1..(Len(part) + 1)
  PROVE  ReadAlike(ReadInt(part, at), ReadInt(text, at), Nat, Len(part))
<1>1. ReadAlike(ReadString(part, at), ReadString(text, at), Seq(C), Len(part))
  BY StringReadAlike
<1>2. CASE ReadString(part, at) = Error
  <2>1. <<>> \in Seq(C)
    OBVIOUS
  <2>2. ReadInt(part, at) = Error
    BY <1>2, <2>1, ReadIntCases
  <2> QED
    BY <2>2 DEF ReadAlike
<1>3. CASE ReadString(part, at) # Error
  <2>1. PICK chars \in Seq(C), next \in 1..(Len(part) + 1) :
          ReadString(part, at) = Got(chars, next) /\ ReadString(text, at) = Got(chars, next)
    BY <1>1, <1>3, Zenon DEF ReadAlike
  <2> DEFINE read == IF chars \in Seq(DigitChars) \ {<<>>} THEN Got(Value(chars), next) ELSE Error
  <2>2. ReadInt(part, at) = read /\ ReadInt(text, at) = read
    BY <2>1, ReadIntCases
  <2>3. chars \in Seq(DigitChars) => Value(chars) \in Nat
    BY ValueType
  <2> QED
    BY <2>2, <2>3, Zenon DEF ReadAlike
<1> QED
  BY <1>2, <1>3

LEMMA WriteIntType ==
  ASSUME NEW C, HasOwn(C), NEW n \in Nat
  PROVE  WriteInt(n) \in Seq(C) /\ Digits(n) \in Seq(C) /\ HasMarks(C)
<1>1. HasMarks(C) /\ DigitChars \subseteq C
  BY DEF HasOwn
<1>2. Digits(n) \in Seq(DigitChars)
  BY ValueOfDigits
<1>3. Digits(n) \in Seq(C)
  BY <1>1, <1>2
<1> QED
  BY <1>1, <1>3, WriteStringType DEF WriteInt

LEMMA IntReadBack ==
  ASSUME NEW C, HasOwn(C), NEW n \in Nat, NEW text \in Seq(C),
         NEW at \in Nat \ {0}, At(text, at, WriteInt(n))
  PROVE  /\ ReadInt(text, at) = Got(n, at + Len(WriteInt(n)))
         /\ at + Len(WriteInt(n)) \in Nat \ {0}
<1>1. HasMarks(C) /\ Digits(n) \in Seq(C)
  BY WriteIntType
<1>2. /\ ReadString(text, at) = Got(Digits(n), at + Len(WriteInt(n)))
      /\ at + Len(WriteInt(n)) \in Nat \ {0}
  BY <1>1, StringReadBack DEF WriteInt
<1>3. Digits(n) \in Seq(DigitChars) \ {<<>>} /\ Value(Digits(n)) = n
  BY ValueOfDigits
<1>4. ReadInt(text, at) = IF Digits(n) \in Seq(DigitChars) \ {<<>>}
                            THEN Got(Value(Digits(n)), at + Len(WriteInt(n))) ELSE Error
  BY <1>1, <1>2, ReadIntCases
<1> QED
  BY <1>2, <1>3, <1>4, Zenon

-----------------------------------------------------------------------------
(* Sets and maps.                                                          *)

LEMMA SetInOrder ==
  ASSUME NEW T, IsFiniteSet(T)
  PROVE  LET ordered == Seqs!SetToSeq(T) IN
         /\ ordered \in [1..Cardinality(T) -> T] /\ Cardinality(T) \in Nat
         /\ Len(ordered) = Cardinality(T)
         /\ \A i, j \in 1..Cardinality(T) : ordered[i] = ordered[j] => i = j
         /\ \A x \in T : \E i \in 1..Cardinality(T) : ordered[i] = x
<1> DEFINE n == Cardinality(T)
           ordered == Seqs!SetToSeq(T)
<1>1. n \in Nat /\ ExistsBijection(1..n, T)
  BY FS_CardinalityType
<1>2. PICK f : f \in Bijection(1..n, T)
  BY <1>1 DEF ExistsBijection
<1>3. f \in [1..n -> T] /\ \A i, j \in DOMAIN f : f[i] = f[j] => i = j
  BY <1>2, Zenon DEF Bijection, Injection, IsInjective
<1>4. ordered = CHOOSE g \in [1..n -> T] : \A i, j \in DOMAIN g : g[i] = g[j] => i = j
  <2>1. Seqs!Cardinality(T) = n
    BY Zenon DEF Seqs!Cardinality, Cardinality
  <2> QED
    BY <2>1, Zenon DEF Seqs!SetToSeq, Seqs!IsInjective
<1> HIDE DEF ordered, n
<1>5. ordered \in [1..n -> T] /\ \A i, j \in DOMAIN ordered : ordered[i] = ordered[j] => i = j
  <2> DEFINE P(g) == \A i, j \in DOMAIN g : g[i] = g[j] => i = j
  <2>1. ordered = CHOOSE g \in [1..n -> T] : P(g)
    BY <1>4, Zenon
  <2>2. \E g \in [1..n -> T] : P(g)
    BY <1>3, Zenon
  <2> HIDE DEF P
  <2>3. ordered \in [1..n -> T] /\ P(ordered)
    BY <2>1, <2>2
  <2> QED
    BY <2>3, Zenon DEF P
<1>6. DOMAIN ordered = 1..n /\ Len(ordered) = n
  BY <1>1, <1>5
<1>7. ordered \in Injection(1..n, T)
  BY <1>5, Zenon DEF Injection, IsInjective
<1>8. ordered \in Surjection(1..n, T)
  <2>1. IsFiniteSet(1..n) /\ Cardinality(1..n) = n
    BY <1>1, FS_Interval
  <2>2. Cardinality(1..n) = Cardinality(T) => ordered \in Surjection(1..n, T)
    BY <1>7, FS_Injection
  <2> QED
    BY <2>1, <2>2 DEF n
<1>9. \A x \in T : \E i \in 1..n : ordered[i] = x
  BY <1>8, Zenon DEF Surjection
<1> QED
  BY <1>1, <1>5, <1>6, <1>9, Zenon DEF ordered, n

\* Where the elements of a set stand, and the size of it in front of them.
AreElementsAt(T, written, text, at) ==
  LET ordered == Seqs!SetToSeq(T)
      parts == [i \in 1..Cardinality(T) |-> written[ordered[i]]]
      start == at + Len(WriteInt(Cardinality(T)))
  IN /\ ReadInt(text, at) = Got(Cardinality(T), start) /\ start \in Nat \ {0}
     /\ \E pos \in [0..Cardinality(T) -> Nat \ {0}] :
          /\ ArePositions(pos, Cardinality(T), parts, text, start)
          /\ pos[Cardinality(T)] = at + Len(WriteMany(written))

LEMMA ManyAt ==
  ASSUME NEW C, HasOwn(C), NEW T, IsFiniteSet(T), NEW written \in [T -> Seq(C)],
         NEW text \in Seq(C), NEW at \in Nat \ {0}, At(text, at, WriteMany(written))
  PROVE  AreElementsAt(T, written, text, at)
<1> DEFINE n == Cardinality(T)
           ordered == Seqs!SetToSeq(T)
           parts == [i \in 1..n |-> written[ordered[i]]]
           size == WriteInt(n)
           all == Concat(parts)
           start == at + Len(size)
<1>1. ordered \in [1..n -> T] /\ n \in Nat /\ Len(ordered) = n
  BY SetInOrder
<1>2. DOMAIN written = T
  OBVIOUS
<1>3. WriteMany(written) = size \o all
  BY <1>1, <1>2, Zenon DEF WriteMany
<1> HIDE DEF ordered, n
<1>4. parts \in [1..n -> Seq(C)]
  BY <1>1
<1> HIDE DEF parts
<1>5. size \in Seq(C) /\ all \in Seq(C)
  <2>1. size \in Seq(C)
    BY <1>1, WriteIntType
  <2>2. all \in Seq(C)
    BY <1>1, <1>4, ConcatType
  <2> QED
    BY <2>1, <2>2
<1> HIDE DEF size, all
<1>6. At(text, at, size) /\ At(text, start, all)
  <2>1. At(text, at, size \o all)
    BY <1>3, Zenon
  <2> QED
    BY <1>5, <2>1, AtConcat
<1>7. ReadInt(text, at) = Got(n, start) /\ start \in Nat \ {0}
  BY <1>1, <1>6, IntReadBack DEF size
<1>8. at + Len(WriteMany(written)) = start + Len(all)
  <2>1. Len(size \o all) = Len(size) + Len(all) /\ Len(size) \in Nat /\ Len(all) \in Nat
    BY <1>5, BothType
  <2>2. Len(WriteMany(written)) = Len(size) + Len(all)
    BY <1>3, <2>1, Zenon
  <2> QED
    BY <2>1, <2>2
<1> HIDE DEF start
<1>9. PICK pos \in [0..n -> Nat \ {0}] : ArePositions(pos, n, parts, text, start)
  <2>1. At(text, start, Concat(parts))
    BY <1>6 DEF all
  <2> QED
    BY <1>1, <1>4, <1>7, <2>1, ConcatAt
<1>10. pos[n] = at + Len(WriteMany(written))
  <2>1. pos[n] = start + Len(all)
    BY <1>9, Zenon DEF ArePositions, all
  <2> QED
    BY <1>8, <2>1, Zenon
<1> QED
  BY <1>7, <1>9, <1>10, Zenon DEF AreElementsAt, ordered, n, parts, size, start

-----------------------------------------------------------------------------
(* Usernames.                                                              *)

LEMMA ReadUsernameCases ==
  ASSUME NEW text, NEW at, NEW chars, NEW next
  PROVE  /\ ReadString(text, at) = Error => ReadUsername(text, at) = Error
         /\ ReadString(text, at) = Got(chars, next) =>
              \/ ReadUsername(text, at) = Error /\ \A u \in Username : NameText(u) # chars
              \/ \E u \in Username : NameText(u) = chars /\ ReadUsername(text, at) = Got(u, next)
<1> DEFINE read == ReadString(text, at)
           meant == IF read.error THEN {} ELSE {u \in Username : NameText(u) = read.value}
<1>1. ReadUsername(text, at) = IF meant = {} THEN Error ELSE Got(CHOOSE u \in meant : TRUE, read.next)
  BY Zenon DEF ReadUsername
<1>2. CASE read = Error
  <2>1. meant = {}
    BY <1>2, ErrorField, Zenon
  <2>2. Error # Got(chars, next)
    BY DEF Error, Got
  <2> QED
    BY <1>1, <1>2, <2>1, <2>2, Zenon
<1>3. CASE read = Got(chars, next)
  <2>1. ~read.error /\ read.value = chars /\ read.next = next
    BY <1>3, GotFields
  <2>2. meant = {u \in Username : NameText(u) = chars}
    BY <2>1, Zenon
  <2> DEFINE u == CHOOSE u \in meant : TRUE
  <2> HIDE DEF meant
  <2>3. Error # Got(chars, next)
    BY DEF Error, Got
  <2>4. CASE meant = {}
    <3>1. ReadUsername(text, at) = Error /\ \A v \in Username : NameText(v) # chars
      BY <1>1, <2>2, <2>4, Zenon
    <3> QED
      BY <1>3, <2>3, <3>1, Zenon
  <2>5. CASE meant # {}
    <3>1. u \in meant
      BY <2>5, Zenon
    <3>2. ReadUsername(text, at) = Got(u, next)
      BY <1>1, <2>1, <2>5, Zenon
    <3> HIDE DEF u
    <3>3. u \in Username /\ NameText(u) = chars
      BY <2>2, <3>1, Zenon
    <3> QED
      BY <1>3, <2>3, <3>2, <3>3, Zenon
  <2> QED
    BY <2>4, <2>5
<1> QED
  BY <1>2, <1>3, Zenon

LEMMA NameApart ==
  ASSUME NEW u, NEW v, NameText(u) = NameText(v)
  PROVE  u = v
<1>1. NameText(u)[2] = u /\ NameText(v)[2] = v
  BY DEF NameText
<1> QED
  BY <1>1, Zenon

LEMMA UsernameReadAlike ==
  ASSUME NEW C, NEW text \in Seq(C), NEW part \in Seq(C), Len(part) <= Len(text),
         \A i \in 1..Len(part) : part[i] = text[i],
         NEW at \in 1..(Len(part) + 1)
  PROVE  ReadAlike(ReadUsername(part, at), ReadUsername(text, at), Username, Len(part))
<1>1. ReadAlike(ReadString(part, at), ReadString(text, at), Seq(C), Len(part))
  BY StringReadAlike
<1>2. CASE ReadString(part, at) = Error
  <2>1. ReadUsername(part, at) = Error
    BY <1>2, ReadUsernameCases, Zenon
  <2> QED
    BY <2>1 DEF ReadAlike
<1>3. CASE ReadString(part, at) # Error
  <2>1. PICK chars \in Seq(C), next \in 1..(Len(part) + 1) :
          ReadString(part, at) = Got(chars, next) /\ ReadString(text, at) = Got(chars, next)
    BY <1>1, <1>3, Zenon DEF ReadAlike
  <2>2. CASE ReadUsername(part, at) = Error
    BY <2>2 DEF ReadAlike
  <2>3. CASE ReadUsername(part, at) # Error
    <3>1. PICK u \in Username : NameText(u) = chars /\ ReadUsername(part, at) = Got(u, next)
      BY <2>1, <2>3, ReadUsernameCases, Zenon
    <3>2. PICK v \in Username : NameText(v) = chars /\ ReadUsername(text, at) = Got(v, next)
      <4>1. \/ ReadUsername(text, at) = Error /\ \A v \in Username : NameText(v) # chars
            \/ \E v \in Username : NameText(v) = chars /\ ReadUsername(text, at) = Got(v, next)
        BY <2>1, ReadUsernameCases
      <4> QED
        BY <3>1, <4>1, Zenon
    <3>3. u = v
      <4>1. NameText(u) = NameText(v)
        BY <3>1, <3>2, Zenon
      <4> QED
        BY <4>1, NameApart
    <3> QED
      BY <3>1, <3>2, <3>3, Zenon DEF ReadAlike
  <2> QED
    BY <2>2, <2>3
<1> QED
  BY <1>2, <1>3

LEMMA WriteUsernameType ==
  ASSUME NEW C, HasOwn(C), NEW u \in Username
  PROVE  WriteUsername(u) \in Seq(C) /\ NameText(u) \in Seq(C) /\ HasMarks(C)
<1>1. HasMarks(C) /\ "@" \in C /\ u \in C
  BY DEF HasOwn
<1>2. NameText(u) \in Seq(C)
  BY <1>1, ShortType, Zenon DEF NameText
<1> QED
  BY <1>1, <1>2, WriteStringType DEF WriteUsername

LEMMA UsernameReadBack ==
  ASSUME NEW C, HasOwn(C), NEW u \in Username, NEW text \in Seq(C),
         NEW at \in Nat \ {0}, At(text, at, WriteUsername(u))
  PROVE  /\ ReadUsername(text, at) = Got(u, at + Len(WriteUsername(u)))
         /\ at + Len(WriteUsername(u)) \in Nat \ {0}
<1> DEFINE next == at + Len(WriteUsername(u))
<1>1. HasMarks(C) /\ NameText(u) \in Seq(C)
  BY WriteUsernameType
<1>2. ReadString(text, at) = Got(NameText(u), next) /\ next \in Nat \ {0}
  BY <1>1, StringReadBack DEF WriteUsername
<1> HIDE DEF next
<1>3. PICK v \in Username : NameText(v) = NameText(u) /\ ReadUsername(text, at) = Got(v, next)
  <2>1. \/ ReadUsername(text, at) = Error /\ \A v \in Username : NameText(v) # NameText(u)
        \/ \E v \in Username : NameText(v) = NameText(u) /\ ReadUsername(text, at) = Got(v, next)
    BY <1>2, ReadUsernameCases
  <2> QED
    BY <2>1, Zenon
<1>4. v = u
  BY <1>3, NameApart
<1> QED
  BY <1>2, <1>3, <1>4, Zenon DEF next

-----------------------------------------------------------------------------
(* ReadUsernames, one name at a time.                                      *)

WithNext(names, text) ==
  LET name == ReadUsername(text, names.next)
  IN IF names.error \/ name.error THEN Error
     ELSE Got(names.value \cup {name.value}, name.next)

AreUsernames(f, size, text, at) ==
  f = [n \in 0..size |-> IF n = 0 THEN Got({}, at) ELSE WithNext(f[n - 1], text)]

LEMMA UsernamesExist ==
  ASSUME NEW size \in Nat, NEW text, NEW at
  PROVE  \E f : AreUsernames(f, size, text, at)
<1> DEFINE S == {k \in 0..size : \E f : AreUsernames(f, k, text, at)}
<1>1. 0 \in S
  <2> DEFINE f == [n \in 0..0 |-> Got({}, at)]
  <2>1. \A n \in 0..0 : n = 0
    OBVIOUS
  <2>2. AreUsernames(f, 0, text, at)
    BY <2>1, Zenon DEF AreUsernames
  <2> HIDE DEF f
  <2> QED
    BY <2>2
<1>2. ASSUME NEW k \in 0..size, k \in S, k < size
      PROVE  k + 1 \in S
  <2>1. PICK f : AreUsernames(f, k, text, at)
    BY <1>2
  <2> DEFINE g == [n \in 0..(k + 1) |-> IF n = k + 1 THEN WithNext(f[k], text) ELSE f[n]]
  <2>2. ASSUME NEW n \in 0..(k + 1)
        PROVE  g[n] = IF n = 0 THEN Got({}, at) ELSE WithNext(g[n - 1], text)
    <3>1. CASE n = k + 1
      <4>1. n # 0 /\ n - 1 = k /\ k \in 0..(k + 1) /\ k # k + 1
        BY <3>1
      <4>2. g[n - 1] = f[k]
        BY <4>1, Zenon
      <4> QED
        BY <3>1, <4>1, <4>2, Zenon
    <3>2. CASE n # k + 1
      <4>1. n \in 0..k /\ (n # 0 => n - 1 \in 0..(k + 1) /\ n - 1 # k + 1)
        BY <3>2
      <4>2. g[n] = f[n] /\ (n # 0 => g[n - 1] = f[n - 1])
        BY <3>2, <4>1, Zenon
      <4>3. f[n] = IF n = 0 THEN Got({}, at) ELSE WithNext(f[n - 1], text)
        BY <2>1, <4>1, Zenon DEF AreUsernames
      <4> QED
        BY <4>2, <4>3, Zenon
    <3> QED
      BY <3>1, <3>2
  <2>3. g = [n \in 0..(k + 1) |-> g[n]]
    OBVIOUS
  <2> HIDE DEF g
  <2>4. AreUsernames(g, k + 1, text, at)
    BY <2>2, <2>3, Zenon DEF AreUsernames
  <2>5. k + 1 \in 0..size
    BY <1>2
  <2> QED
    BY <2>4, <2>5
<1> HIDE DEF S
<1>3. 0..size \subseteq S
  BY <1>1, <1>2, SetInduction
<1>4. size \in 0..size
  OBVIOUS
<1> QED
  BY <1>3, <1>4 DEF S

\* The names read so far.
ReadSoFar(f, size, text, at) ==
  /\ f[0] = Got({}, at) /\ f[size] = ReadUsernames(size, text, at)
  /\ \A n \in 1..size : f[n] = WithNext(f[n - 1], text)

LEMMA ReadUsernamesSteps ==
  ASSUME NEW size \in Nat, NEW text, NEW at
  PROVE  \E f : ReadSoFar(f, size, text, at)
<1> DEFINE f == CHOOSE f : AreUsernames(f, size, text, at)
<1>1. AreUsernames(f, size, text, at)
  <2> HIDE DEF f
  <2> QED
    BY UsernamesExist DEF f
<1>2. ReadUsernames(size, text, at) = f[size]
  BY Zenon DEF ReadUsernames, AreUsernames, WithNext
<1> HIDE DEF f
<1>3. 0 \in 0..size /\ \A n \in 1..size : n \in 0..size /\ n # 0
  OBVIOUS
<1>4. f[0] = Got({}, at) /\ \A n \in 1..size : f[n] = WithNext(f[n - 1], text)
  BY <1>1, <1>3, Zenon DEF AreUsernames
<1>5. ReadSoFar(f, size, text, at)
  BY <1>2, <1>4, Zenon DEF ReadSoFar
<1> QED
  BY <1>5, Zenon

LEMMA WithNextAlike ==
  ASSUME NEW C, NEW text \in Seq(C), NEW part \in Seq(C), Len(part) <= Len(text),
         \A i \in 1..Len(part) : part[i] = text[i],
         NEW x, NEW y, ReadAlike(x, y, SUBSET Username, Len(part))
  PROVE  ReadAlike(WithNext(x, part), WithNext(y, text), SUBSET Username, Len(part))
<1>1. CASE x = Error
  <2>1. WithNext(x, part) = Error
    BY <1>1, ErrorField, Zenon DEF WithNext
  <2> QED
    BY <2>1 DEF ReadAlike
<1>2. CASE x # Error
  <2>1. PICK names \in SUBSET Username, at \in 1..(Len(part) + 1) : x = Got(names, at) /\ y = Got(names, at)
    BY <1>2, Zenon DEF ReadAlike
  <2>2. /\ ~x.error /\ x.value = names /\ x.next = at
        /\ ~y.error /\ y.value = names /\ y.next = at
    BY <2>1, GotFields
  <2>3. ReadAlike(ReadUsername(part, at), ReadUsername(text, at), Username, Len(part))
    BY UsernameReadAlike
  <2>4. CASE ReadUsername(part, at) = Error
    <3>1. WithNext(x, part) = Error
      BY <2>2, <2>4, ErrorField, Zenon DEF WithNext
    <3> QED
      BY <3>1 DEF ReadAlike
  <2>5. CASE ReadUsername(part, at) # Error
    <3>1. PICK u \in Username, next \in 1..(Len(part) + 1) :
            ReadUsername(part, at) = Got(u, next) /\ ReadUsername(text, at) = Got(u, next)
      BY <2>3, <2>5, Zenon DEF ReadAlike
    <3> DEFINE a == ReadUsername(part, at)
               b == ReadUsername(text, at)
    <3>2. /\ ~a.error /\ a.value = u /\ a.next = next
          /\ ~b.error /\ b.value = u /\ b.next = next
      BY <3>1, GotFields
    <3>3. WithNext(x, part) = Got(names \cup {u}, next)
      BY <2>2, <3>2, Zenon DEF WithNext
    <3>4. WithNext(y, text) = Got(names \cup {u}, next)
      BY <2>2, <3>2, Zenon DEF WithNext
    <3>5. names \cup {u} \in SUBSET Username
      OBVIOUS
    <3> QED
      BY <3>3, <3>4, <3>5, Zenon DEF ReadAlike
  <2> QED
    BY <2>4, <2>5
<1> QED
  BY <1>1, <1>2

LEMMA UsernamesReadAlike ==
  ASSUME NEW C, NEW text \in Seq(C), NEW part \in Seq(C), Len(part) <= Len(text),
         \A i \in 1..Len(part) : part[i] = text[i],
         NEW at \in 1..(Len(part) + 1), NEW size \in Nat
  PROVE  ReadAlike(ReadUsernames(size, part, at), ReadUsernames(size, text, at),
                   SUBSET Username, Len(part))
<1>1. PICK f : ReadSoFar(f, size, part, at)
  BY ReadUsernamesSteps
<1>2. PICK g : ReadSoFar(g, size, text, at)
  BY ReadUsernamesSteps
<1> DEFINE Good(n) == ReadAlike(f[n], g[n], SUBSET Username, Len(part))
           S == {n \in 0..size : Good(n)}
<1>3. Good(0)
  <2>1. f[0] = Got({}, at) /\ g[0] = Got({}, at)
    BY <1>1, <1>2, Zenon DEF ReadSoFar
  <2>2. {} \in SUBSET Username
    OBVIOUS
  <2> QED
    BY <2>1, <2>2, Zenon DEF ReadAlike
<1>4. ASSUME NEW n \in 0..size, n \in S, n < size
      PROVE  n + 1 \in S
  <2>1. n + 1 \in 1..size /\ n + 1 \in 0..size /\ (n + 1) - 1 = n
    BY <1>4
  <2>2. f[n + 1] = WithNext(f[n], part) /\ g[n + 1] = WithNext(g[n], text)
    BY <1>1, <1>2, <2>1, Zenon DEF ReadSoFar
  <2>3. Good(n)
    BY <1>4
  <2>4. ReadAlike(WithNext(f[n], part), WithNext(g[n], text), SUBSET Username, Len(part))
    BY <2>3, WithNextAlike
  <2>5. Good(n + 1)
    BY <2>2, <2>4, Zenon
  <2> HIDE DEF Good
  <2> QED
    BY <2>1, <2>5
<1> HIDE DEF Good
<1>5. 0 \in S
  BY <1>3
<1> HIDE DEF S
<1>6. 0..size \subseteq S
  BY <1>4, <1>5, SetInduction
<1>7. Good(size)
  <2>1. size \in 0..size
    OBVIOUS
  <2> QED
    BY <1>6, <2>1 DEF S
<1> QED
  BY <1>1, <1>2, <1>7, Zenon DEF Good, ReadSoFar

LEMMA UsernamesReadBack ==
  ASSUME NEW C, HasOwn(C), NEW T \in SUBSET Username, NEW text \in Seq(C), NEW at \in Nat \ {0},
         At(text, at, WriteMany([u \in T |-> WriteUsername(u)]))
  PROVE  LET written == WriteMany([u \in T |-> WriteUsername(u)])
             start == at + Len(WriteInt(Cardinality(T)))
         IN /\ Cardinality(T) \in Nat /\ start \in Nat \ {0}
            /\ ReadInt(text, at) = Got(Cardinality(T), start)
            /\ ReadUsernames(Cardinality(T), text, start) = Got(T, at + Len(written))
            /\ at + Len(written) \in Nat \ {0}
<1> DEFINE written == [u \in T |-> WriteUsername(u)]
           n == Cardinality(T)
           ordered == Seqs!SetToSeq(T)
           parts == [i \in 1..n |-> written[ordered[i]]]
           start == at + Len(WriteInt(n))
           end == at + Len(WriteMany(written))
<1>1. IsFiniteSet(T)
  BY UsernameAssumption, FS_Subset
<1>2. /\ ordered \in [1..n -> T] /\ n \in Nat
      /\ \A x \in T : \E i \in 1..n : ordered[i] = x
  BY <1>1, SetInOrder
<1>3. written \in [T -> Seq(C)]
  <2>1. \A u \in T : WriteUsername(u) \in Seq(C)
    BY WriteUsernameType
  <2> QED
    BY <2>1
<1>4. /\ ReadInt(text, at) = Got(n, start) /\ start \in Nat \ {0}
      /\ \E pos \in [0..n -> Nat \ {0}] : ArePositions(pos, n, parts, text, start) /\ pos[n] = end
  <2> HIDE DEF written
  <2>1. At(text, at, WriteMany(written))
    BY Zenon DEF written
  <2> QED
    <3>1. AreElementsAt(T, written, text, at)
      BY <1>1, <1>3, <2>1, ManyAt
    <3> QED
      BY <3>1, Zenon DEF AreElementsAt
<1>5. PICK pos \in [0..n -> Nat \ {0}] : ArePositions(pos, n, parts, text, start) /\ pos[n] = end
  BY <1>4, Zenon
<1> HIDE DEF n, start, end
<1>6. \A i \in 1..n : ordered[i] \in T /\ parts[i] = WriteUsername(ordered[i])
  <2>1. \A i \in 1..n : ordered[i] \in T
    BY <1>2
  <2> HIDE DEF ordered
  <2> QED
    BY <2>1, Zenon
<1> HIDE DEF ordered, written, parts
<1>7. PICK f : ReadSoFar(f, n, text, start)
  BY <1>2, ReadUsernamesSteps
<1> DEFINE Read(k) == {ordered[i] : i \in 1..k}
           Good(k) == f[k] = Got(Read(k), pos[k])
           S == {k \in 0..n : Good(k)}
<1>8. Good(0)
  <2>1. Read(0) = {}
    OBVIOUS
  <2>2. f[0] = Got({}, start) /\ pos[0] = start
    BY <1>5, <1>7, Zenon DEF ReadSoFar, ArePositions
  <2> QED
    BY <2>1, <2>2, Zenon
<1>9. ASSUME NEW k \in 0..n, k \in S, k < n
      PROVE  k + 1 \in S
  <2>1. k + 1 \in 1..n /\ k + 1 \in 0..n /\ (k + 1) - 1 = k
    BY <1>2, <1>9
  <2>2. f[k + 1] = WithNext(f[k], text)
    BY <1>7, <2>1, Zenon DEF ReadSoFar
  <2>3. Good(k)
    BY <1>9
  <2> DEFINE u == ordered[k + 1]
  <2>4. u \in T /\ parts[k + 1] = WriteUsername(u)
    BY <1>6, <2>1, Zenon
  <2>5. pos[k + 1] = pos[k] + Len(WriteUsername(u)) /\ At(text, pos[k], WriteUsername(u))
    BY <1>5, <2>1, <2>4, Zenon DEF ArePositions
  <2>6. pos[k] \in Nat \ {0} /\ u \in Username
    BY <2>1, <2>4
  <2> HIDE DEF u
  <2>7. ReadUsername(text, pos[k]) = Got(u, pos[k + 1])
    <3>1. ReadUsername(text, pos[k]) = Got(u, pos[k] + Len(WriteUsername(u)))
      <4> HIDE DEF S, Good
      <4> QED
        BY <2>5, <2>6, UsernameReadBack
    <3> QED
      BY <2>5, <3>1, Zenon
  <2>8. ~f[k].error /\ f[k].value = Read(k) /\ f[k].next = pos[k]
    <3> HIDE DEF Read
    <3> QED
      BY <2>3, GotFields
  <2> DEFINE name == ReadUsername(text, pos[k])
  <2>9. ~name.error /\ name.value = u /\ name.next = pos[k + 1]
    BY <2>7, GotFields
  <2>10. f[k + 1] = Got(Read(k) \cup {u}, pos[k + 1])
    <3> HIDE DEF Read
    <3> QED
      BY <2>2, <2>8, <2>9, Zenon DEF WithNext
  <2>11. Read(k + 1) = Read(k) \cup {u}
    <3>1. \A i : i \in 1..(k + 1) <=> i \in 1..k \/ i = k + 1
      OBVIOUS
    <3> QED
      BY <3>1, Zenon DEF u
  <2>12. Good(k + 1)
    BY <2>10, <2>11, Zenon
  <2> HIDE DEF Good
  <2> QED
    BY <2>1, <2>12
<1> HIDE DEF Good
<1>10. 0 \in S
  BY <1>2, <1>8
<1> HIDE DEF S
<1>11. 0..n \subseteq S
  BY <1>2, <1>9, <1>10, SetInduction
<1>12. Good(n)
  <2>1. n \in 0..n
    BY <1>2
  <2> QED
    BY <1>11, <2>1 DEF S
<1>13. Read(n) = T
  BY <1>2, <1>6, Zenon
<1>14. ReadUsernames(n, text, start) = Got(T, end)
  BY <1>5, <1>7, <1>12, <1>13, Zenon DEF Good, ReadSoFar
<1>15. end \in Nat \ {0}
  <2>1. n \in 0..n
    BY <1>2
  <2>2. pos[n] \in Nat \ {0}
    BY <2>1
  <2> QED
    BY <1>5, <2>2, Zenon
<1> QED
  BY <1>2, <1>4, <1>14, <1>15, Zenon DEF n, start, end, written

-----------------------------------------------------------------------------
(* A profile.                                                              *)

LEMMA ProfileReadAlike ==
  ASSUME NEW C, NEW text \in Seq(C), NEW part \in Seq(C), Len(part) <= Len(text),
         \A i \in 1..Len(part) : part[i] = text[i],
         NEW at \in 1..(Len(part) + 1)
  PROVE  ReadAlike(ReadProfile(part, at), ReadProfile(text, at), SUBSET Username, Len(part))
<1> DEFINE name(t) == ReadUsername(t, at)
           created_at(t) == ReadInt(t, name(t).next)
           size(t) == ReadInt(t, created_at(t).next)
           profile(t) == ReadUsernames(size(t).value, t, size(t).next)
<1>1. \A t : ReadProfile(t, at) = IF name(t).error \/ created_at(t).error \/ size(t).error
                                    THEN Error ELSE profile(t)
  BY Zenon DEF ReadProfile
<1>2. ReadAlike(name(part), name(text), Username, Len(part))
  BY UsernameReadAlike
<1> HIDE DEF name
<1>3. CASE name(part) = Error
  <2>1. ReadProfile(part, at) = Error
    BY <1>1, <1>3, ErrorField, Zenon
  <2> QED
    BY <2>1 DEF ReadAlike
<1>4. CASE name(part) # Error
  <2>1. PICK u \in Username, next \in 1..(Len(part) + 1) :
          name(part) = Got(u, next) /\ name(text) = Got(u, next)
    BY <1>2, <1>4, Zenon DEF ReadAlike
  <2>2. ~name(part).error /\ name(part).next = next /\ ~name(text).error /\ name(text).next = next
    BY <2>1, GotFields
  <2>3. ReadAlike(ReadInt(part, next), ReadInt(text, next), Nat, Len(part))
    BY IntReadAlike
  <2>4. ReadAlike(created_at(part), created_at(text), Nat, Len(part))
    BY <2>2, <2>3, Zenon
  <2> HIDE DEF created_at
  <2>5. CASE created_at(part) = Error
    <3>1. ReadProfile(part, at) = Error
      BY <1>1, <2>5, ErrorField, Zenon
    <3> QED
      BY <3>1 DEF ReadAlike
  <2>6. CASE created_at(part) # Error
    <3>1. PICK c \in Nat, third \in 1..(Len(part) + 1) :
            created_at(part) = Got(c, third) /\ created_at(text) = Got(c, third)
      BY <2>4, <2>6, Zenon DEF ReadAlike
    <3>2. /\ ~created_at(part).error /\ created_at(part).next = third
          /\ ~created_at(text).error /\ created_at(text).next = third
      BY <3>1, GotFields
    <3>3. ReadAlike(ReadInt(part, third), ReadInt(text, third), Nat, Len(part))
      BY IntReadAlike
    <3>4. ReadAlike(size(part), size(text), Nat, Len(part))
      BY <3>2, <3>3, Zenon
    <3> HIDE DEF size
    <3>5. CASE size(part) = Error
      <4>1. ReadProfile(part, at) = Error
        BY <1>1, <3>5, ErrorField, Zenon
      <4> QED
        BY <4>1 DEF ReadAlike
    <3>6. CASE size(part) # Error
      <4>1. PICK n \in Nat, fourth \in 1..(Len(part) + 1) :
              size(part) = Got(n, fourth) /\ size(text) = Got(n, fourth)
        BY <3>4, <3>6, Zenon DEF ReadAlike
      <4>2. /\ ~size(part).error /\ size(part).value = n /\ size(part).next = fourth
            /\ ~size(text).error /\ size(text).value = n /\ size(text).next = fourth
        BY <4>1, GotFields
      <4>3. ReadAlike(ReadUsernames(n, part, fourth), ReadUsernames(n, text, fourth),
                      SUBSET Username, Len(part))
        BY UsernamesReadAlike
      <4>4. ReadAlike(profile(part), profile(text), SUBSET Username, Len(part))
        BY <4>2, <4>3, Zenon
      <4>5. ReadProfile(part, at) = profile(part) /\ ReadProfile(text, at) = profile(text)
        BY <1>1, <2>2, <3>2, <4>2, Zenon
      <4> QED
        BY <4>4, <4>5, Zenon
    <3> QED
      BY <3>5, <3>6
  <2> QED
    BY <2>5, <2>6
<1> QED
  BY <1>3, <1>4

LEMMA WriteManyType ==
  ASSUME NEW C, HasOwn(C), NEW T, IsFiniteSet(T), NEW written \in [T -> Seq(C)]
  PROVE  WriteMany(written) \in Seq(C)
<1> DEFINE n == Cardinality(T)
           ordered == Seqs!SetToSeq(T)
           parts == [i \in 1..n |-> written[ordered[i]]]
<1>1. ordered \in [1..n -> T] /\ n \in Nat /\ Len(ordered) = n
  BY SetInOrder
<1>2. DOMAIN written = T
  OBVIOUS
<1>3. WriteMany(written) = WriteInt(n) \o Concat(parts)
  BY <1>1, <1>2, Zenon DEF WriteMany
<1> HIDE DEF ordered, n
<1>4. parts \in [1..n -> Seq(C)]
  BY <1>1
<1> HIDE DEF parts
<1>5. WriteInt(n) \in Seq(C)
  BY <1>1, WriteIntType
<1>6. Concat(parts) \in Seq(C)
  BY <1>1, <1>4, ConcatType
<1> QED
  BY <1>3, <1>5, <1>6, BothType, Zenon

LEMMA WriteUsernamesType ==
  ASSUME NEW C, HasOwn(C), NEW T \in SUBSET Username
  PROVE  WriteMany([u \in T |-> WriteUsername(u)]) \in Seq(C)
<1> DEFINE written == [u \in T |-> WriteUsername(u)]
<1>1. written \in [T -> Seq(C)]
  <2>1. \A u \in T : WriteUsername(u) \in Seq(C)
    BY WriteUsernameType
  <2> QED
    BY <2>1
<1>2. IsFiniteSet(T)
  BY UsernameAssumption, FS_Subset
<1> HIDE DEF written
<1>3. WriteMany(written) \in Seq(C)
  BY <1>1, <1>2, WriteManyType
<1> QED
  BY <1>3, Zenon DEF written

LEMMA WriteProfileType ==
  ASSUME NEW C, HasOwn(C), NEW u \in Username, NEW data, data.followers[u] \in SUBSET Username
  PROVE  WriteProfile(u, data) \in Seq(C) /\ WriteUsername(u) \o WriteInt(0) \in Seq(C)
<1> DEFINE names == WriteMany([f \in data.followers[u] |-> WriteUsername(f)])
<1>1. names \in Seq(C)
  BY WriteUsernamesType
<1>2. WriteUsername(u) \in Seq(C)
  BY WriteUsernameType
<1>3. WriteInt(0) \in Seq(C)
  BY WriteIntType
<1>4. WriteProfile(u, data) = (WriteUsername(u) \o WriteInt(0)) \o names
  BY Zenon DEF WriteProfile
<1> HIDE DEF names
<1> QED
  BY <1>1, <1>2, <1>3, <1>4, BothType, Zenon

LEMMA ProfileReadBack ==
  ASSUME NEW C, HasOwn(C), NEW u \in Username, NEW data, data.followers[u] \in SUBSET Username,
         NEW text \in Seq(C), NEW at \in Nat \ {0}, At(text, at, WriteProfile(u, data))
  PROVE  /\ ReadProfile(text, at) = Got(data.followers[u], at + Len(WriteProfile(u, data)))
         /\ at + Len(WriteProfile(u, data)) \in Nat \ {0}
<1> DEFINE T == data.followers[u]
           w1 == WriteUsername(u)
           w2 == WriteInt(0)
           w3 == WriteMany([f \in T |-> WriteUsername(f)])
           at2 == at + Len(w1)
           at3 == at2 + Len(w2)
           n == Cardinality(T)
           at4 == at3 + Len(WriteInt(n))
<1>1. w1 \in Seq(C)
  BY WriteUsernameType
<1>2. w2 \in Seq(C)
  BY WriteIntType
<1>3. w3 \in Seq(C)
  BY WriteUsernamesType
<1>4. WriteProfile(u, data) = (w1 \o w2) \o w3
  BY Zenon DEF WriteProfile
<1>5. T \in SUBSET Username
  OBVIOUS
<1> HIDE DEF w1, w2, w3, T
<1>6. w1 \o w2 \in Seq(C) /\ Len(w1 \o w2) = Len(w1) + Len(w2) /\ Len(w1) \in Nat /\ Len(w2) \in Nat
  BY <1>1, <1>2, BothType
<1>7. At(text, at, w1 \o w2) /\ At(text, at + Len(w1 \o w2), w3)
  <2>1. At(text, at, (w1 \o w2) \o w3)
    BY <1>4, Zenon
  <2> DEFINE v == w1 \o w2
  <2>2. v \in Seq(C)
    BY <1>6, Zenon
  <2> HIDE DEF v
  <2>3. At(text, at, v \o w3)
    BY <2>1, Zenon DEF v
  <2>4. At(text, at, v) /\ At(text, at + Len(v), w3)
    BY <1>3, <2>2, <2>3, AtConcat
  <2> QED
    BY <2>4, Zenon DEF v
<1>8. at + Len(w1 \o w2) = at3
  BY <1>6
<1>9. At(text, at, w1) /\ At(text, at2, w2) /\ At(text, at3, w3)
  <2>1. At(text, at, w1) /\ At(text, at2, w2)
    BY <1>1, <1>2, <1>7, AtConcat
  <2> QED
    BY <1>7, <1>8, <2>1, Zenon
<1>10. ReadUsername(text, at) = Got(u, at2) /\ at2 \in Nat \ {0}
  BY <1>9, UsernameReadBack DEF w1
<1> HIDE DEF at2
<1>11. ReadInt(text, at2) = Got(0, at3) /\ at3 \in Nat \ {0}
  BY <1>9, <1>10, IntReadBack DEF w2
<1>12. at + Len(WriteProfile(u, data)) = at3 + Len(w3)
  <2> DEFINE v == w1 \o w2
  <2>1. v \in Seq(C)
    BY <1>6, Zenon
  <2> HIDE DEF v
  <2>2. Len(v \o w3) = Len(v) + Len(w3) /\ Len(v) \in Nat /\ Len(w3) \in Nat
    BY <1>3, <2>1, BothType
  <2>3. Len(WriteProfile(u, data)) = Len(v) + Len(w3)
    BY <1>4, <2>2, Zenon DEF v
  <2>4. at + Len(v) = at3
    BY <1>8 DEF v
  <2> HIDE DEF at3
  <2> QED
    BY <1>11, <2>2, <2>3, <2>4
<1> HIDE DEF at3
<1>13. /\ ReadInt(text, at3) = Got(n, at4)
       /\ ReadUsernames(n, text, at4) = Got(T, at3 + Len(w3))
       /\ at3 + Len(w3) \in Nat \ {0}
  BY <1>5, <1>9, <1>11, UsernamesReadBack DEF w3
<1> HIDE DEF n, at4
<1> DEFINE name == ReadUsername(text, at)
           created_at == ReadInt(text, name.next)
           size == ReadInt(text, created_at.next)
<1>14. ReadProfile(text, at) = IF name.error \/ created_at.error \/ size.error
                                 THEN Error ELSE ReadUsernames(size.value, text, size.next)
  BY Zenon DEF ReadProfile
<1>15. ~name.error /\ name.next = at2
  BY <1>10, GotFields
<1> HIDE DEF name
<1>16. ~created_at.error /\ created_at.next = at3
  <2>1. created_at = Got(0, at3)
    BY <1>11, <1>15, Zenon
  <2> HIDE DEF created_at
  <2> QED
    BY <2>1, GotFields
<1> HIDE DEF created_at
<1>17. ~size.error /\ size.value = n /\ size.next = at4
  <2>1. size = Got(n, at4)
    BY <1>13, <1>16, Zenon
  <2> HIDE DEF size
  <2> QED
    BY <2>1, GotFields
<1> HIDE DEF size
<1>18. ReadProfile(text, at) = Got(T, at + Len(WriteProfile(u, data)))
  BY <1>12, <1>13, <1>14, <1>15, <1>16, <1>17, Zenon
<1> QED
  BY <1>12, <1>13, <1>18, Zenon DEF T

-----------------------------------------------------------------------------
(* ReadProfiles, one profile at a time.                                    *)

WithProfile(table, text) ==
  LET key == ReadUsername(text, table.next)
      profile == ReadProfile(text, key.next)
  IN IF table.error \/ key.error \/ profile.error THEN Error
     ELSE Got(Inserted(table.value, key.value, profile.value), profile.next)

AreProfiles(f, size, text, at) ==
  f = [n \in 0..size |-> IF n = 0 THEN Got(NothingSaved, at) ELSE WithProfile(f[n - 1], text)]

LEMMA ProfilesExist ==
  ASSUME NEW size \in Nat, NEW text, NEW at
  PROVE  \E f : AreProfiles(f, size, text, at)
<1> DEFINE S == {k \in 0..size : \E f : AreProfiles(f, k, text, at)}
<1>1. 0 \in S
  <2> DEFINE f == [n \in 0..0 |-> Got(NothingSaved, at)]
  <2>1. \A n \in 0..0 : n = 0
    OBVIOUS
  <2>2. AreProfiles(f, 0, text, at)
    BY <2>1, Zenon DEF AreProfiles
  <2> HIDE DEF f
  <2> QED
    BY <2>2
<1>2. ASSUME NEW k \in 0..size, k \in S, k < size
      PROVE  k + 1 \in S
  <2>1. PICK f : AreProfiles(f, k, text, at)
    BY <1>2
  <2> DEFINE g == [n \in 0..(k + 1) |-> IF n = k + 1 THEN WithProfile(f[k], text) ELSE f[n]]
  <2>2. ASSUME NEW n \in 0..(k + 1)
        PROVE  g[n] = IF n = 0 THEN Got(NothingSaved, at) ELSE WithProfile(g[n - 1], text)
    <3>1. CASE n = k + 1
      <4>1. n # 0 /\ n - 1 = k /\ k \in 0..(k + 1) /\ k # k + 1
        BY <3>1
      <4>2. g[n - 1] = f[k]
        BY <4>1, Zenon
      <4> QED
        BY <3>1, <4>1, <4>2, Zenon
    <3>2. CASE n # k + 1
      <4>1. n \in 0..k /\ (n # 0 => n - 1 \in 0..(k + 1) /\ n - 1 # k + 1)
        BY <3>2
      <4>2. g[n] = f[n] /\ (n # 0 => g[n - 1] = f[n - 1])
        BY <3>2, <4>1, Zenon
      <4>3. f[n] = IF n = 0 THEN Got(NothingSaved, at) ELSE WithProfile(f[n - 1], text)
        BY <2>1, <4>1, Zenon DEF AreProfiles
      <4> QED
        BY <4>2, <4>3, Zenon
    <3> QED
      BY <3>1, <3>2
  <2>3. g = [n \in 0..(k + 1) |-> g[n]]
    OBVIOUS
  <2> HIDE DEF g
  <2>4. AreProfiles(g, k + 1, text, at)
    BY <2>2, <2>3, Zenon DEF AreProfiles
  <2>5. k + 1 \in 0..size
    BY <1>2
  <2> QED
    BY <2>4, <2>5
<1> HIDE DEF S
<1>3. 0..size \subseteq S
  BY <1>1, <1>2, SetInduction
<1>4. size \in 0..size
  OBVIOUS
<1> QED
  BY <1>3, <1>4 DEF S

\* The table read so far.
LoadedSoFar(f, size, text, at) ==
  /\ f[0] = Got(NothingSaved, at) /\ f[size] = ReadProfiles(size, text, at)
  /\ \A n \in 1..size : f[n] = WithProfile(f[n - 1], text)

LEMMA ReadProfilesSteps ==
  ASSUME NEW size \in Nat, NEW text, NEW at
  PROVE  \E f : LoadedSoFar(f, size, text, at)
<1> DEFINE f == CHOOSE f : AreProfiles(f, size, text, at)
<1>1. AreProfiles(f, size, text, at)
  <2> HIDE DEF f
  <2> QED
    BY ProfilesExist DEF f
<1>2. ReadProfiles(size, text, at) = f[size]
  BY Zenon DEF ReadProfiles, AreProfiles, WithProfile
<1> HIDE DEF f
<1>3. 0 \in 0..size /\ \A n \in 1..size : n \in 0..size /\ n # 0
  OBVIOUS
<1>4. f[0] = Got(NothingSaved, at) /\ \A n \in 1..size : f[n] = WithProfile(f[n - 1], text)
  BY <1>1, <1>3, Zenon DEF AreProfiles
<1>5. LoadedSoFar(f, size, text, at)
  BY <1>2, <1>4, Zenon DEF LoadedSoFar
<1> QED
  BY <1>5, Zenon

LEMMA InsertedType ==
  ASSUME NEW data \in SavedData, NEW u \in Username, NEW T \in SUBSET Username
  PROVE  Inserted(data, u, T) \in SavedData
BY DEF Inserted, SavedData

LEMMA WithProfileAlike ==
  ASSUME NEW C, NEW text \in Seq(C), NEW part \in Seq(C), Len(part) <= Len(text),
         \A i \in 1..Len(part) : part[i] = text[i],
         NEW x, NEW y, ReadAlike(x, y, SavedData, Len(part))
  PROVE  ReadAlike(WithProfile(x, part), WithProfile(y, text), SavedData, Len(part))
<1>1. CASE x = Error
  <2>1. WithProfile(x, part) = Error
    BY <1>1, ErrorField, Zenon DEF WithProfile
  <2> QED
    BY <2>1 DEF ReadAlike
<1>2. CASE x # Error
  <2>1. PICK table \in SavedData, at \in 1..(Len(part) + 1) : x = Got(table, at) /\ y = Got(table, at)
    BY <1>2, Zenon DEF ReadAlike
  <2>2. /\ ~x.error /\ x.value = table /\ x.next = at
        /\ ~y.error /\ y.value = table /\ y.next = at
    BY <2>1, GotFields
  <2>3. ReadAlike(ReadUsername(part, at), ReadUsername(text, at), Username, Len(part))
    BY UsernameReadAlike
  <2>4. CASE ReadUsername(part, at) = Error
    <3>1. WithProfile(x, part) = Error
      BY <2>2, <2>4, ErrorField, Zenon DEF WithProfile
    <3> QED
      BY <3>1 DEF ReadAlike
  <2>5. CASE ReadUsername(part, at) # Error
    <3>1. PICK u \in Username, second \in 1..(Len(part) + 1) :
            ReadUsername(part, at) = Got(u, second) /\ ReadUsername(text, at) = Got(u, second)
      BY <2>3, <2>5, Zenon DEF ReadAlike
    <3> DEFINE a == ReadUsername(part, at)
               b == ReadUsername(text, at)
    <3>2. /\ ~a.error /\ a.value = u /\ a.next = second
          /\ ~b.error /\ b.value = u /\ b.next = second
      BY <3>1, GotFields
    <3>3. ReadAlike(ReadProfile(part, second), ReadProfile(text, second), SUBSET Username, Len(part))
      BY ProfileReadAlike
    <3>4. CASE ReadProfile(part, second) = Error
      <4>1. WithProfile(x, part) = Error
        BY <2>2, <3>2, <3>4, ErrorField, Zenon DEF WithProfile
      <4> QED
        BY <4>1 DEF ReadAlike
    <3>5. CASE ReadProfile(part, second) # Error
      <4>1. PICK T \in SUBSET Username, next \in 1..(Len(part) + 1) :
              ReadProfile(part, second) = Got(T, next) /\ ReadProfile(text, second) = Got(T, next)
        BY <3>3, <3>5, Zenon DEF ReadAlike
      <4> DEFINE p == ReadProfile(part, second)
                 q == ReadProfile(text, second)
      <4>2. /\ ~p.error /\ p.value = T /\ p.next = next
            /\ ~q.error /\ q.value = T /\ q.next = next
        BY <4>1, GotFields
      <4>3. WithProfile(x, part) = Got(Inserted(table, u, T), next)
        BY <2>2, <3>2, <4>2, Zenon DEF WithProfile
      <4>4. WithProfile(y, text) = Got(Inserted(table, u, T), next)
        BY <2>2, <3>2, <4>2, Zenon DEF WithProfile
      <4>5. Inserted(table, u, T) \in SavedData
        BY InsertedType
      <4> QED
        BY <4>3, <4>4, <4>5, Zenon DEF ReadAlike
    <3> QED
      BY <3>4, <3>5
  <2> QED
    BY <2>4, <2>5
<1> QED
  BY <1>1, <1>2

LEMMA ProfilesReadAlike ==
  ASSUME NEW C, NEW text \in Seq(C), NEW part \in Seq(C), Len(part) <= Len(text),
         \A i \in 1..Len(part) : part[i] = text[i],
         NEW at \in 1..(Len(part) + 1), NEW size \in Nat
  PROVE  ReadAlike(ReadProfiles(size, part, at), ReadProfiles(size, text, at),
                   SavedData, Len(part))
<1>1. PICK f : LoadedSoFar(f, size, part, at)
  BY ReadProfilesSteps
<1>2. PICK g : LoadedSoFar(g, size, text, at)
  BY ReadProfilesSteps
<1> DEFINE Good(n) == ReadAlike(f[n], g[n], SavedData, Len(part))
           S == {n \in 0..size : Good(n)}
<1>3. Good(0)
  <2>1. f[0] = Got(NothingSaved, at) /\ g[0] = Got(NothingSaved, at)
    BY <1>1, <1>2, Zenon DEF LoadedSoFar
  <2>2. NothingSaved \in SavedData
    BY DEF NothingSaved, SavedData
  <2> QED
    BY <2>1, <2>2, Zenon DEF ReadAlike
<1>4. ASSUME NEW n \in 0..size, n \in S, n < size
      PROVE  n + 1 \in S
  <2>1. n + 1 \in 1..size /\ n + 1 \in 0..size /\ (n + 1) - 1 = n
    BY <1>4
  <2>2. f[n + 1] = WithProfile(f[n], part) /\ g[n + 1] = WithProfile(g[n], text)
    BY <1>1, <1>2, <2>1, Zenon DEF LoadedSoFar
  <2>3. Good(n)
    BY <1>4
  <2>4. ReadAlike(WithProfile(f[n], part), WithProfile(g[n], text), SavedData, Len(part))
    BY <2>3, WithProfileAlike
  <2>5. Good(n + 1)
    BY <2>2, <2>4, Zenon
  <2> HIDE DEF Good
  <2> QED
    BY <2>1, <2>5
<1> HIDE DEF Good
<1>5. 0 \in S
  BY <1>3
<1> HIDE DEF S
<1>6. 0..size \subseteq S
  BY <1>4, <1>5, SetInduction
<1>7. Good(size)
  <2>1. size \in 0..size
    OBVIOUS
  <2> QED
    BY <1>6, <2>1 DEF S
<1> QED
  BY <1>1, <1>2, <1>7, Zenon DEF Good, LoadedSoFar

-----------------------------------------------------------------------------
(* A table.                                                                *)

\* The table with these profiles alone.
Only(data, T) ==
  [profiles |-> T, followers |-> [u \in Username |-> IF u \in T THEN data.followers[u] ELSE {}]]

LEMMA InsertedOnly ==
  ASSUME NEW data, NEW T, NEW u \in Username, u \notin T
  PROVE  Inserted(Only(data, T), u, data.followers[u]) = Only(data, T \cup {u})
<1> DEFINE F == [v \in Username |-> IF v \in T THEN data.followers[v] ELSE {}]
           G == [v \in Username |-> IF v \in T \cup {u} THEN data.followers[v] ELSE {}]
           new == data.followers[u]
<1>1. [F EXCEPT ![u] = new] = G
  <2> DEFINE H == [F EXCEPT ![u] = new]
  <2>1. ASSUME NEW v \in Username
        PROVE  H[v] = G[v]
    <3>1. CASE v = u
      BY <3>1, Zenon
    <3>2. CASE v # u
      <4>1. v \in T \cup {u} <=> v \in T
        BY <3>2, Zenon
      <4> QED
        BY <3>2, <4>1, Zenon
    <3> QED
      BY <3>1, <3>2
  <2>2. H = [v \in Username |-> H[v]] /\ G = [v \in Username |-> G[v]]
    BY Zenon
  <2> HIDE DEF H, G
  <2>3. H = G
    BY <2>1, <2>2, Zenon
  <2> QED
    BY <2>3 DEF H
<1>2. Only(data, T) = [profiles |-> T, followers |-> F]
  BY Zenon DEF Only
<1> HIDE DEF F
<1>3. Only(data, T).profiles = T /\ Only(data, T).followers = F
  BY <1>2
<1>4. Inserted(Only(data, T), u, new) = [profiles |-> T \cup {u}, followers |-> [F EXCEPT ![u] = new]]
  BY <1>3, Zenon DEF Inserted
<1>5. Only(data, T \cup {u}) = [profiles |-> T \cup {u}, followers |-> G]
  BY Zenon DEF Only
<1> QED
  BY <1>1, <1>4, <1>5, Zenon

LEMMA OnlyNone ==
  ASSUME NEW data
  PROVE  Only(data, {}) = NothingSaved
BY Zenon DEF Only, NothingSaved

LEMMA OnlyAll ==
  ASSUME NEW data \in SavedData, WellFormed(data)
  PROVE  Only(data, data.profiles) = data
<1> DEFINE F == [v \in Username |-> IF v \in data.profiles THEN data.followers[v] ELSE {}]
<1>1. data = [profiles |-> data.profiles, followers |-> data.followers]
      /\ data.followers = [v \in Username |-> data.followers[v]]
  BY DEF SavedData
<1>2. \A v \in Username : data.followers[v] = IF v \in data.profiles THEN data.followers[v] ELSE {}
  BY Zenon DEF WellFormed
<1>3. data.followers = F
  BY <1>1, <1>2, Zenon
<1> HIDE DEF F
<1>4. Only(data, data.profiles) = [profiles |-> data.profiles, followers |-> F]
  BY Zenon DEF Only, F
<1> QED
  BY <1>1, <1>3, <1>4, Zenon

LEMMA WriteEntriesType ==
  ASSUME NEW C, HasOwn(C), NEW data \in SavedData
  PROVE  /\ [u \in data.profiles |-> WriteUsername(u) \o WriteProfile(u, data)]
              \in [data.profiles -> Seq(C)]
         /\ IsFiniteSet(data.profiles) /\ data.profiles \in SUBSET Username
         /\ \A u \in Username : data.followers[u] \in SUBSET Username
<1>1. data.profiles \in SUBSET Username /\ \A u \in Username : data.followers[u] \in SUBSET Username
  BY DEF SavedData
<1>2. IsFiniteSet(data.profiles)
  BY <1>1, UsernameAssumption, FS_Subset
<1>3. ASSUME NEW u \in Username
      PROVE  WriteUsername(u) \o WriteProfile(u, data) \in Seq(C)
  <2>1. WriteUsername(u) \in Seq(C)
    BY WriteUsernameType
  <2>2. data.followers[u] \in SUBSET Username
    BY <1>1, Zenon
  <2>3. WriteProfile(u, data) \in Seq(C)
    BY <2>2, WriteProfileType
  <2> QED
    BY <2>1, <2>3, BothType, Zenon
<1>4. \A u \in data.profiles : WriteUsername(u) \o WriteProfile(u, data) \in Seq(C)
  BY <1>1, <1>3, Zenon
<1> DEFINE entry(u) == WriteUsername(u) \o WriteProfile(u, data)
<1>5. \A u \in data.profiles : entry(u) \in Seq(C)
  BY <1>4, Zenon
<1> HIDE DEF entry
<1>6. [u \in data.profiles |-> entry(u)] \in [data.profiles -> Seq(C)]
  BY <1>5
<1> QED
  BY <1>1, <1>2, <1>6, Zenon DEF entry

LEMMA EntryReadBack ==
  ASSUME NEW C, HasOwn(C), NEW u \in Username, NEW data, data.followers[u] \in SUBSET Username,
         NEW text \in Seq(C), NEW at \in Nat \ {0},
         At(text, at, WriteUsername(u) \o WriteProfile(u, data)),
         NEW read, NEW table, read = Got(table, at)
  PROVE  WithProfile(read, text) =
           Got(Inserted(table, u, data.followers[u]),
               at + Len(WriteUsername(u) \o WriteProfile(u, data)))
<1> DEFINE w1 == WriteUsername(u)
           w2 == WriteProfile(u, data)
           T == data.followers[u]
           at2 == at + Len(w1)
           at3 == at2 + Len(w2)
<1>1. w1 \in Seq(C)
  BY WriteUsernameType
<1>2. w2 \in Seq(C)
  BY WriteProfileType
<1> HIDE DEF w1, w2
<1>3. At(text, at, w1) /\ At(text, at2, w2)
  <2>1. At(text, at, w1 \o w2)
    BY DEF w1, w2
  <2> QED
    BY <1>1, <1>2, <2>1, AtConcat
<1>4. at + Len(w1 \o w2) = at3
  <2>1. Len(w1 \o w2) = Len(w1) + Len(w2) /\ Len(w1) \in Nat /\ Len(w2) \in Nat
    BY <1>1, <1>2, BothType
  <2> QED
    BY <2>1
<1>5. ReadUsername(text, at) = Got(u, at2) /\ at2 \in Nat \ {0}
  BY <1>3, UsernameReadBack DEF w1
<1> HIDE DEF at2
<1>6. ReadProfile(text, at2) = Got(T, at3)
  BY <1>3, <1>5, ProfileReadBack DEF w2
<1> HIDE DEF at3, T
<1> DEFINE key == ReadUsername(text, at)
           profile == ReadProfile(text, at2)
<1>7. ~key.error /\ key.value = u /\ key.next = at2
  BY <1>5, GotFields
<1>8. ~profile.error /\ profile.value = T /\ profile.next = at3
  BY <1>6, GotFields
<1>9. ~read.error /\ read.value = table /\ read.next = at
  BY GotFields
<1>10. WithProfile(read, text) = Got(Inserted(table, u, T), at3)
  BY <1>7, <1>8, <1>9, Zenon DEF WithProfile
<1> QED
  BY <1>4, <1>10, Zenon DEF w1, w2, T

LEMMA ProfilesReadBack ==
  ASSUME NEW C, HasOwn(C), NEW data \in SavedData, WellFormed(data),
         NEW text \in Seq(C), At(text, 1, WriteTable(data))
  PROVE  LET size == Cardinality(data.profiles)
             start == 1 + Len(WriteInt(size))
         IN /\ size \in Nat /\ start \in Nat \ {0}
            /\ ReadInt(text, 1) = Got(size, start)
            /\ ReadProfiles(size, text, start) = Got(data, 1 + Len(WriteTable(data)))
            /\ 1 + Len(WriteTable(data)) \in Nat \ {0}
<1> DEFINE T == data.profiles
           written == [u \in T |-> WriteUsername(u) \o WriteProfile(u, data)]
           n == Cardinality(T)
           ordered == Seqs!SetToSeq(T)
           parts == [i \in 1..n |-> written[ordered[i]]]
           start == 1 + Len(WriteInt(n))
           end == 1 + Len(WriteTable(data))
<1>1. /\ written \in [T -> Seq(C)] /\ IsFiniteSet(T) /\ T \in SUBSET Username
      /\ \A u \in Username : data.followers[u] \in SUBSET Username
  BY WriteEntriesType
<1>2. WriteTable(data) = WriteMany(written)
  BY Zenon DEF WriteTable
<1>3. \A u \in T : written[u] = WriteUsername(u) \o WriteProfile(u, data)
  BY Zenon
<1> HIDE DEF written, T
<1>4. /\ ordered \in [1..n -> T] /\ n \in Nat
      /\ \A i, j \in 1..n : ordered[i] = ordered[j] => i = j
      /\ \A x \in T : \E i \in 1..n : ordered[i] = x
  BY <1>1, SetInOrder
<1>5. AreElementsAt(T, written, text, 1)
  <2>1. At(text, 1, WriteMany(written))
    BY <1>2, Zenon
  <2>2. 1 \in Nat \ {0}
    OBVIOUS
  <2> QED
    BY <1>1, <2>1, <2>2, ManyAt
<1>6. ReadInt(text, 1) = Got(n, start) /\ start \in Nat \ {0}
  BY <1>5, Zenon DEF AreElementsAt
<1>7. PICK pos \in [0..n -> Nat \ {0}] : ArePositions(pos, n, parts, text, start) /\ pos[n] = end
  BY <1>2, <1>5, Zenon DEF AreElementsAt
<1> HIDE DEF n, start, end
<1>8. \A i \in 1..n : ordered[i] \in T
  BY <1>4
<1> HIDE DEF ordered
<1>9. \A i \in 1..n : parts[i] = WriteUsername(ordered[i]) \o WriteProfile(ordered[i], data)
  BY <1>3, <1>8, Zenon
<1> HIDE DEF parts
<1>10. PICK f : LoadedSoFar(f, n, text, start)
  BY <1>4, ReadProfilesSteps
<1> DEFINE Read(k) == {ordered[i] : i \in 1..k}
           Good(k) == f[k] = Got(Only(data, Read(k)), pos[k])
           S == {k \in 0..n : Good(k)}
<1>11. Good(0)
  <2>1. Read(0) = {}
    OBVIOUS
  <2>2. f[0] = Got(NothingSaved, start) /\ pos[0] = start
    BY <1>7, <1>10, Zenon DEF LoadedSoFar, ArePositions
  <2> QED
    BY <2>1, <2>2, OnlyNone, Zenon
<1>12. ASSUME NEW k \in 0..n, k \in S, k < n
       PROVE  k + 1 \in S
  <2>1. k + 1 \in 1..n /\ k + 1 \in 0..n /\ (k + 1) - 1 = k /\ \A i \in 1..k : i \in 1..n /\ i # k + 1
    BY <1>4, <1>12
  <2>2. f[k + 1] = WithProfile(f[k], text)
    BY <1>10, <2>1, Zenon DEF LoadedSoFar
  <2>3. Good(k)
    BY <1>12
  <2> DEFINE u == ordered[k + 1]
             entry == WriteUsername(u) \o WriteProfile(u, data)
  <2>4. u \in T /\ parts[k + 1] = entry
    BY <1>8, <1>9, <2>1, Zenon
  <2>5. pos[k + 1] = pos[k] + Len(entry) /\ At(text, pos[k], entry)
    BY <1>7, <2>1, <2>4, Zenon DEF ArePositions
  <2>6. pos[k] \in Nat \ {0}
    BY <2>1
  <2>7. u \in Username /\ data.followers[u] \in SUBSET Username
    BY <1>1, <2>4, Zenon
  <2>8. u \notin Read(k)
    BY <1>4, <2>1, Zenon
  <2> DEFINE table == Only(data, Read(k))
             new == Inserted(table, u, data.followers[u])
  <2>9. new = Only(data, Read(k) \cup {u})
    <3> HIDE DEF Read, u
    <3> QED
      BY <2>7, <2>8, InsertedOnly
  <2>10. WithProfile(f[k], text) = Got(new, pos[k] + Len(entry))
    <3>1. f[k] = Got(table, pos[k])
      BY <2>3
    <3> HIDE DEF table, u, S, Good
    <3> QED
      BY <2>5, <2>6, <2>7, <3>1, EntryReadBack
  <2>11. Read(k + 1) = Read(k) \cup {u}
    <3>1. \A i : i \in 1..(k + 1) <=> i \in 1..k \/ i = k + 1
      OBVIOUS
    <3> QED
      BY <3>1, Zenon
  <2>12. f[k + 1] = Got(Only(data, Read(k) \cup {u}), pos[k + 1])
    <3> HIDE DEF new, Read, entry, u
    <3> QED
      BY <2>2, <2>5, <2>9, <2>10, Zenon
  <2> HIDE DEF new, entry, table, u
  <2>13. Good(k + 1)
    <3> HIDE DEF Read
    <3> QED
      BY <2>11, <2>12, Zenon
  <2> HIDE DEF Good
  <2> QED
    BY <2>1, <2>13
<1> HIDE DEF Good
<1>13. 0 \in S
  BY <1>4, <1>11
<1> HIDE DEF S
<1>14. 0..n \subseteq S
  BY <1>4, <1>12, <1>13, SetInduction
<1>15. n \in 0..n
  BY <1>4
<1>16. Good(n)
  BY <1>14, <1>15 DEF S
<1>17. Read(n) = T
  <2>1. \A x \in T : x \in Read(n)
    BY <1>4, Zenon
  <2>2. \A x \in Read(n) : x \in T
    BY <1>8, Zenon
  <2> HIDE DEF Read
  <2> QED
    BY <2>1, <2>2, Zenon
<1> HIDE DEF Read
<1>18. Only(data, T) = data
  BY OnlyAll DEF T
<1>19. ReadProfiles(n, text, start) = Got(data, end)
  BY <1>7, <1>10, <1>16, <1>17, <1>18, Zenon DEF Good, LoadedSoFar
<1>20. end \in Nat \ {0}
  <2>1. pos[n] \in Nat \ {0}
    BY <1>15
  <2> QED
    BY <1>7, <2>1, Zenon
<1> QED
  BY <1>4, <1>6, <1>19, <1>20, Zenon DEF T, n, start, end

LEMMA ReadTableCases ==
  ASSUME NEW text, NEW size, NEW start, ReadInt(text, 1) = Got(size, start), NEW table, NEW end
  PROVE  /\ ReadProfiles(size, text, start) = Error => ReadTable(text) = Unreadable
         /\ ReadProfiles(size, text, start) = Got(table, end) =>
              ReadTable(text) = IF \E i \in end..Len(text) : text[i] # "\n" THEN Unreadable ELSE table
<1> DEFINE first == ReadInt(text, 1)
           read == IF first.error THEN Error ELSE ReadProfiles(first.value, text, first.next)
<1>1. ~first.error /\ first.value = size /\ first.next = start
  BY GotFields
<1>2. read = ReadProfiles(size, text, start)
  BY <1>1, Zenon
<1>3. ReadTable(text) = IF read.error \/ \E i \in read.next..Len(text) : text[i] # "\n"
                          THEN Unreadable ELSE read.value
  BY Zenon DEF ReadTable
<1> HIDE DEF read
<1>4. CASE read = Error
  <2>1. ReadTable(text) = Unreadable
    BY <1>3, <1>4, ErrorField, Zenon
  <2>2. Error # Got(table, end)
    BY DEF Error, Got
  <2> QED
    BY <1>2, <1>4, <2>1, <2>2, Zenon
<1>5. CASE read = Got(table, end)
  <2>1. ~read.error /\ read.value = table /\ read.next = end
    BY <1>5, GotFields
  <2>2. ReadTable(text) = IF \E i \in end..Len(text) : text[i] # "\n" THEN Unreadable ELSE table
    BY <1>3, <2>1, Zenon
  <2>3. Error # Got(table, end)
    BY DEF Error, Got
  <2> QED
    BY <1>2, <1>5, <2>2, <2>3, Zenon
<1> QED
  BY <1>2, <1>4, <1>5, Zenon

LEMMA NoSize ==
  ASSUME NEW text, ReadInt(text, 1) = Error
  PROVE  ReadTable(text) = Unreadable
BY ErrorField, Zenon DEF ReadTable

\* The characters of a file.
FileChars == {";", "\\", "@", "\n"} \cup DigitChars \cup Username

LEMMA FileCharsOwn == HasOwn(FileChars) /\ "\n" \in FileChars
BY Zenon DEF HasOwn, HasMarks, FileChars

LEMMA WriteTableType ==
  ASSUME NEW data \in SavedData
  PROVE  WriteTable(data) \in Seq(FileChars)
<1> DEFINE T == data.profiles
           written == [u \in T |-> WriteUsername(u) \o WriteProfile(u, data)]
<1>1. HasOwn(FileChars)
  BY FileCharsOwn
<1>2. written \in [T -> Seq(FileChars)] /\ IsFiniteSet(T)
  BY <1>1, WriteEntriesType
<1>3. WriteTable(data) = WriteMany(written)
  BY Zenon DEF WriteTable
<1> HIDE DEF written, T
<1>4. WriteMany(written) \in Seq(FileChars)
  BY <1>1, <1>2, WriteManyType
<1> QED
  BY <1>3, <1>4, Zenon

LEMMA TornTable ==
  ASSUME NEW data \in SavedData, WellFormed(data),
         NEW n \in 0..Len(WriteTable(data) \o <<"\n">>)
  PROVE  LET text == WriteTable(data) \o <<"\n">> IN
         ReadTable(SubSeq(text, 1, n)) = IF n >= Len(text) - 1 THEN data ELSE Unreadable
<1> DEFINE C == FileChars
           table == WriteTable(data)
           newline == <<"\n">>
           text == table \o newline
           part == SubSeq(text, 1, n)
<1>1. HasOwn(C) /\ "\n" \in C
  BY FileCharsOwn
<1>2. table \in Seq(C)
  BY WriteTableType
<1>3. newline \in Seq(C) /\ Len(newline) = 1 /\ newline[1] = "\n"
  BY <1>1, ShortType, Zenon
<1> HIDE DEF table, newline, C
<1>4. /\ text \in Seq(C) /\ Len(table) \in Nat /\ Len(text) = Len(table) + 1
      /\ \A i \in 1..Len(table) : text[i] = table[i]
      /\ text[Len(table) + 1] = newline[1]
  <2>1. /\ text \in Seq(C) /\ Len(table) \in Nat /\ Len(text) = Len(table) + Len(newline)
        /\ \A i \in 1..Len(table) : text[i] = table[i]
        /\ \A i \in 1..Len(newline) : text[Len(table) + i] = newline[i]
    <3>1. newline \in Seq(C)
      BY <1>3, Zenon
    <3> QED
      BY <1>2, <3>1, BothType, BothElements DEF text
  <2>2. 1 \in 1..1
    OBVIOUS
  <2> QED
    BY <1>3, <2>1, <2>2, Zenon
<1>5. n \in 0..Len(text)
  BY DEF table, newline
<1> HIDE DEF text
<1>6. part \in Seq(C) /\ Len(part) = n /\ \A i \in 1..n : part[i] = text[i]
  BY <1>4, <1>5
<1> HIDE DEF part
<1> DEFINE size == Cardinality(data.profiles)
           start == 1 + Len(WriteInt(size))
           end == 1 + Len(table)
<1>7. ASSUME NEW whole \in Seq(C), At(whole, 1, table)
      PROVE  /\ size \in Nat /\ start \in Nat \ {0}
             /\ ReadInt(whole, 1) = Got(size, start)
             /\ ReadProfiles(size, whole, start) = Got(data, end)
  BY <1>1, <1>7, ProfilesReadBack DEF table
<1> HIDE DEF size, start
<1>8. CASE n >= Len(text) - 1
  <2>1. At(part, 1, table)
    <3>1. ASSUME NEW i \in 1..Len(table)
          PROVE  part[1 + (i - 1)] = table[i]
      <4>1. 1 + (i - 1) = i /\ i \in 1..n
        BY <1>4, <1>5, <1>8
      <4> QED
        BY <1>4, <1>6, <4>1, Zenon
    <3>2. 1 + Len(table) <= Len(part) + 1
      BY <1>4, <1>5, <1>6, <1>8
    <3> QED
      BY <3>1, <3>2, Zenon DEF At
  <2>2. ReadInt(part, 1) = Got(size, start) /\ ReadProfiles(size, part, start) = Got(data, end)
    BY <1>6, <1>7, <2>1, Zenon
  <2>3. ReadTable(part) = IF \E i \in end..Len(part) : part[i] # "\n" THEN Unreadable ELSE data
    BY <2>2, ReadTableCases
  <2>4. ASSUME NEW i \in end..Len(part)
        PROVE  part[i] = "\n"
    <3>1. i = Len(table) + 1 /\ i \in 1..n
      BY <1>4, <1>5, <1>6
    <3> QED
      BY <1>3, <1>4, <1>6, <3>1, Zenon
  <2>5. ReadTable(part) = data
    BY <2>3, <2>4, Zenon
  <2> QED
    BY <1>8, <2>5, Zenon DEF part, text, table, newline
<1>9. CASE ~(n >= Len(text) - 1)
  <2>1. At(text, 1, table)
    <3>1. \A i \in 1..Len(table) : 1 + (i - 1) = i
      OBVIOUS
    <3>2. 1 + Len(table) <= Len(text) + 1
      BY <1>4
    <3> QED
      BY <1>4, <3>1, <3>2, Zenon DEF At
  <2>2. /\ size \in Nat /\ start \in Nat \ {0}
        /\ ReadInt(text, 1) = Got(size, start) /\ ReadProfiles(size, text, start) = Got(data, end)
    BY <1>4, <1>7, <2>1, Zenon
  <2>3. Len(part) <= Len(text) /\ \A i \in 1..Len(part) : part[i] = text[i]
    BY <1>4, <1>5, <1>6
  <2>4. ReadAlike(ReadInt(part, 1), ReadInt(text, 1), Nat, Len(part))
    <3>1. 1 \in 1..(Len(part) + 1)
      BY <1>5, <1>6
    <3> QED
      BY <1>4, <1>6, <2>3, <3>1, IntReadAlike
  <2>5. CASE ReadInt(part, 1) = Error
    <3>1. ReadTable(part) = Unreadable
      BY <2>5, NoSize
    <3> QED
      BY <1>9, <3>1, Zenon DEF part, text, table, newline
  <2>6. CASE ReadInt(part, 1) # Error
    <3>1. PICK v \in Nat, next \in 1..(Len(part) + 1) :
            ReadInt(part, 1) = Got(v, next) /\ ReadInt(text, 1) = Got(v, next)
      BY <2>4, <2>6, Zenon DEF ReadAlike
    <3>2. v = size /\ next = start
      <4>1. Got(v, next) = Got(size, start)
        BY <2>2, <3>1, Zenon
      <4> QED
        BY <4>1 DEF Got
    <3>3. ReadInt(part, 1) = Got(size, start) /\ start \in 1..(Len(part) + 1)
      BY <3>1, <3>2, Zenon
    <3>4. ReadAlike(ReadProfiles(size, part, start), ReadProfiles(size, text, start),
                    SavedData, Len(part))
      BY <1>4, <1>6, <2>2, <2>3, <3>3, ProfilesReadAlike
    <3>5. ReadProfiles(size, part, start) = Error
      <4>1. ASSUME NEW w \in SavedData, NEW last \in 1..(Len(part) + 1),
                   ReadProfiles(size, text, start) = Got(w, last)
            PROVE  FALSE
        <5>1. Got(w, last) = Got(data, end)
          BY <2>2, <4>1, Zenon
        <5>2. last = end
          BY <5>1 DEF Got
        <5> QED
          BY <1>4, <1>5, <1>6, <1>9, <5>2
      <4> QED
        BY <3>4, <4>1, Zenon DEF ReadAlike
    <3>6. ReadTable(part) = Unreadable
      BY <3>3, <3>5, ReadTableCases
    <3> QED
      BY <1>9, <3>6, Zenon DEF part, text, table, newline
  <2> QED
    BY <2>5, <2>6
<1> QED
  BY <1>8, <1>9

(* What is in the file is the saved table or cannot be read, wherever the  *)
(* write of it has ended: for any names and any table that is well formed. *)
THEOREM TornFileRefusedCorrect == Spec => []TornFileRefused
<1>1. TypeOK /\ TableInv => TornFileRefused
  <2> SUFFICES ASSUME TypeOK, TableInv
               PROVE  TornFileRefused
    OBVIOUS
  <2>1. snapshot \in SavedData
    BY DEF TypeOK
  <2>2. WellFormed(snapshot)
    BY DEF TableInv
  <2> QED
    BY <2>1, <2>2, TornTable, Zenon DEF TornFileRefused
<1> QED
  BY <1>1, TypeCorrect, TableCorrect, PTL

=============================================================================
