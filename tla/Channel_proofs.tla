--------------------------- MODULE Channel_proofs ---------------------------
(***************************************************************************)
(* Proofs about Channel: its type invariant, that the counts are those of  *)
(* the ends that exist, and that no wake-up is lost, for any finite sets   *)
(* of ends, any Inners and any bounds.                                     *)
(***************************************************************************)
EXTENDS Channel, FiniteSetTheorems, TLAPS

USE DEF countVars, End

-----------------------------------------------------------------------------
(* Type correctness.                                                       *)

\* What a wake-up leaves: sleepers of the Inner are woken, the others as they
\* were.
LEMMA NotifyAllThread ==
  ASSUME TypeOK, NEW c, NotifyAll(c)
  PROVE  /\ thread' \in [ReceiverEnd -> {"running", "waiting", "woken"}]
         /\ \A r \in ReceiverEnd : thread'[r] = "running" <=> thread[r] = "running"
BY DEF NotifyAll, Sleeping, Pointing, TypeOK

LEMMA NotifyOneThread ==
  ASSUME TypeOK, NEW c, NotifyOne(c)
  PROVE  /\ thread' \in [ReceiverEnd -> {"running", "waiting", "woken"}]
         /\ \A r \in ReceiverEnd : thread'[r] = "running" <=> thread[r] = "running"
BY DEF NotifyOne, Sleeping, Pointing, TypeOK

LEMMA ConnectedType ==
  ASSUME TypeOK, NEW e, NEW c, Connected(e, c)
  PROVE  senders' \in [Inner -> Nat] /\ receivers' \in [Inner -> Nat]
BY DEF Connected, Incremented, TypeOK

LEMMA DisconnectedType ==
  ASSUME TypeOK, NEW e, NEW c, Disconnected(e, c)
  PROVE  /\ senders' \in [Inner -> Nat] /\ receivers' \in [Inner -> Nat]
         /\ thread' \in [ReceiverEnd -> {"running", "waiting", "woken"}]
         /\ \A r \in ReceiverEnd : thread'[r] = "running" <=> thread[r] = "running"
<1>1. senders' \in [Inner -> Nat] /\ receivers' \in [Inner -> Nat]
  BY DEF Disconnected, Decremented, TypeOK
<1>2. CASE UNCHANGED thread
  BY <1>1, <1>2 DEF TypeOK
<1>3. CASE NotifyAll(c)
  BY <1>1, <1>3, NotifyAllThread
<1> QED
  BY <1>2, <1>3 DEF Disconnected, WakeUp

\* An end that is used, or about to be made, has a thread that does not wait
\* for it.
LEMMA UsedThread ==
  ASSUME TypeOK, NEW r \in ReceiverEnd, Usable(r) \/ inner[r] = Gone \/ r \in assigning
  PROVE  thread[r] = "running"
BY InnerAssumption DEF Usable, TypeOK

LEMMA TypeLife ==
  ASSUME TypeOK, NEW ends \in {SenderEnd, ReceiverEnd}, Lives(ends)
  PROVE  TypeOK'
<1> USE InnerAssumption
<1>1. ASSUME NEW e \in ends, NEW f \in ends, CopyConstruct(e, f)
      PROVE  TypeOK'
  <2>1. senders' \in [Inner -> Nat] /\ receivers' \in [Inner -> Nat]
    BY <1>1, ConnectedType DEF CopyConstruct
  <2>2. /\ inner' \in [End -> Inner \cup {Null, Gone}]
        /\ assigning' \subseteq {x \in End : inner'[x] # Gone}
    BY <1>1 DEF CopyConstruct, Usable, TypeOK
  <2>3. \A r \in ReceiverEnd :
          thread'[r] # "running" => inner'[r] \in Inner /\ r \notin assigning'
    BY <1>1, UsedThread DEF CopyConstruct, TypeOK
  <2> QED
    BY <1>1, <2>1, <2>2, <2>3 DEF CopyConstruct, TypeOK
<1>2. ASSUME NEW e \in ends, NEW f \in ends, MoveConstruct(e, f)
      PROVE  TypeOK'
  <2>2. /\ inner' \in [End -> Inner \cup {Null, Gone}]
        /\ assigning' \subseteq {x \in End : inner'[x] # Gone}
    BY <1>2 DEF MoveConstruct, Usable, TypeOK
  <2>3. \A r \in ReceiverEnd :
          thread'[r] # "running" => inner'[r] \in Inner /\ r \notin assigning'
    BY <1>2, UsedThread DEF MoveConstruct, TypeOK
  <2> QED
    BY <1>2, <2>2, <2>3 DEF MoveConstruct, TypeOK
<1>3. ASSUME NEW e \in ends, NEW f \in ends, CopyAssign(e, f)
      PROVE  TypeOK'
  <2>1. /\ senders' \in [Inner -> Nat] /\ receivers' \in [Inner -> Nat]
        /\ thread' \in [ReceiverEnd -> {"running", "waiting", "woken"}]
        /\ \A r \in ReceiverEnd : thread'[r] = "running" <=> thread[r] = "running"
    BY <1>3, DisconnectedType DEF CopyAssign
  <2>2. /\ inner' \in [End -> Inner \cup {Null, Gone}]
        /\ assigning' \subseteq {x \in End : inner'[x] # Gone}
    BY <1>3 DEF CopyAssign, Usable, TypeOK
  <2>3. \A r \in ReceiverEnd :
          thread'[r] # "running" => inner'[r] \in Inner /\ r \notin assigning'
    BY <1>3, <2>1, UsedThread DEF CopyAssign, TypeOK
  <2> QED
    BY <1>3, <2>1, <2>2, <2>3 DEF CopyAssign, TypeOK
<1>4. ASSUME NEW e \in ends, NEW f \in ends, MoveAssignWithin(e, f)
      PROVE  TypeOK'
  <2>1. leaked' \in [Inner -> [senders : 0..MaxLeaks, receivers : 0..MaxLeaks]]
    BY <1>4, BoundAssumption DEF MoveAssignWithin, TypeOK
  <2>2. /\ inner' \in [End -> Inner \cup {Null, Gone}]
        /\ assigning' \subseteq {x \in End : inner'[x] # Gone}
    BY <1>4 DEF MoveAssignWithin, Usable, TypeOK
  <2>3. \A r \in ReceiverEnd :
          thread'[r] # "running" => inner'[r] \in Inner /\ r \notin assigning'
    BY <1>4, UsedThread DEF MoveAssignWithin, TypeOK
  <2> QED
    BY <1>4, <2>1, <2>2, <2>3 DEF MoveAssignWithin, TypeOK
<1>5. ASSUME NEW e \in ends, NEW f \in ends, MoveAssignAcross(e, f)
      PROVE  TypeOK'
  <2>1. /\ senders' \in [Inner -> Nat] /\ receivers' \in [Inner -> Nat]
        /\ thread' \in [ReceiverEnd -> {"running", "waiting", "woken"}]
        /\ \A r \in ReceiverEnd : thread'[r] = "running" <=> thread[r] = "running"
    BY <1>5, DisconnectedType DEF MoveAssignAcross
  <2>2. /\ inner' \in [End -> Inner \cup {Null, Gone}]
        /\ assigning' \subseteq {x \in End : inner'[x] # Gone}
    BY <1>5 DEF MoveAssignAcross, Usable, TypeOK
  <2>3. \A r \in ReceiverEnd :
          thread'[r] # "running" => inner'[r] \in Inner /\ r \notin assigning'
    BY <1>5, <2>1, UsedThread DEF MoveAssignAcross, TypeOK
  <2> QED
    BY <1>5, <2>1, <2>2, <2>3 DEF MoveAssignAcross, TypeOK
<1>6. ASSUME NEW e \in ends, CopyAssigned(e)
      PROVE  TypeOK'
  <2>1. senders' \in [Inner -> Nat] /\ receivers' \in [Inner -> Nat]
    BY <1>6, ConnectedType DEF CopyAssigned
  <2> QED
    BY <1>6, <2>1 DEF CopyAssigned, TypeOK
<1>7. ASSUME NEW e \in ends, Destroy(e)
      PROVE  TypeOK'
  <2>1. /\ senders' \in [Inner -> Nat] /\ receivers' \in [Inner -> Nat]
        /\ thread' \in [ReceiverEnd -> {"running", "waiting", "woken"}]
        /\ \A r \in ReceiverEnd : thread'[r] = "running" <=> thread[r] = "running"
    BY <1>7, DisconnectedType DEF Destroy
  <2>2. /\ inner' \in [End -> Inner \cup {Null, Gone}]
        /\ assigning' \subseteq {x \in End : inner'[x] # Gone}
    BY <1>7 DEF Destroy, Usable, TypeOK
  <2>3. \A r \in ReceiverEnd :
          thread'[r] # "running" => inner'[r] \in Inner /\ r \notin assigning'
    BY <1>7, <2>1, UsedThread DEF Destroy, TypeOK
  <2> QED
    BY <1>7, <2>1, <2>2, <2>3 DEF Destroy, TypeOK
<1> QED
  BY <1>1, <1>2, <1>3, <1>4, <1>5, <1>6, <1>7 DEF Lives

LEMMA TypeInit == Init => TypeOK
BY BoundAssumption DEF Init, TypeOK

LEMMA TypeStep == TypeOK /\ [Next]_vars => TypeOK'
<1> SUFFICES ASSUME TypeOK, [Next]_vars
             PROVE  TypeOK'
  OBVIOUS
<1> USE InnerAssumption, BoundAssumption
<1>1. ASSUME NEW c \in Inner, NEW s \in SenderEnd, NEW r \in ReceiverEnd, NewChannel(c, s, r)
      PROVE  TypeOK'
  <2>1. /\ inner' \in [End -> Inner \cup {Null, Gone}]
        /\ assigning' \subseteq {x \in End : inner'[x] # Gone}
        /\ \A x \in ReceiverEnd :
              thread'[x] # "running" => inner'[x] \in Inner /\ x \notin assigning'
    BY <1>1 DEF NewChannel, TypeOK
  <2>2. /\ senders' \in [Inner -> Nat] /\ receivers' \in [Inner -> Nat]
        /\ messages' \in [Inner -> 0..MaxMessages]
        /\ leaked' \in [Inner -> [senders : 0..MaxLeaks, receivers : 0..MaxLeaks]]
    BY <1>1 DEF NewChannel, TypeOK
  <2> QED
    BY <1>1, <2>1, <2>2 DEF NewChannel, TypeOK
<1>2. ASSUME NEW c \in Inner, Disconnect(c)
      PROVE  TypeOK'
  BY <1>2, NotifyAllThread DEF Disconnect, TypeOK
<1>3. ASSUME NEW s \in SenderEnd, Send(s)
      PROVE  TypeOK'
  <2>1. messages' \in [Inner -> 0..MaxMessages]
    BY <1>3 DEF Send, TypeOK
  <2> QED
    BY <1>3, <2>1, NotifyOneThread DEF Send, Notify, TypeOK
<1>4. ASSUME NEW r \in ReceiverEnd, Receive(r)
      PROVE  TypeOK'
  <2>1. messages' \in [Inner -> 0..MaxMessages]
    BY <1>4 DEF Receive, Take, FindNoSender, Wait, TypeOK
  <2>2. /\ thread' \in [ReceiverEnd -> {"running", "waiting", "woken"}]
        /\ \A x \in ReceiverEnd : thread'[x] # "running" => thread[x] # "running" \/ x = r
    BY <1>4 DEF Receive, Take, FindNoSender, Wait, TypeOK
  <2> QED
    BY <1>4, <2>1, <2>2 DEF Receive, TypeOK
<1>5. CASE UNCHANGED vars
  BY <1>5 DEF vars, TypeOK
<1> QED
  BY <1>1, <1>2, <1>3, <1>4, <1>5, TypeLife DEF Next, Sender, Receiver

(* Ends, counts and sleeping threads are well typed: in particular no      *)
(* thread sleeps on an end that is being assigned or does not exist.       *)
THEOREM TypeCorrect == Spec => []TypeOK
BY TypeInit, TypeStep, PTL DEF Spec
-----------------------------------------------------------------------------
(* The counts.  The two kinds of ends are treated alike: KindInv is what   *)
(* CountsExact says of one kind, by its name in `leaked'.                  *)

Kind == {"senders", "receivers"}
Ends(k) == IF k = "senders" THEN SenderEnd ELSE ReceiverEnd
Count(k) == IF k = "senders" THEN senders ELSE receivers

\* The ends of a kind that c should count.
Living(k, c) == Pointing(Ends(k), c) \ assigning

Agrees(k, c) ==
  LET n == Cardinality(Living(k, c)) + leaked[c][k]
  IN IF c \in cut THEN Count(k)[c] <= n ELSE Count(k)[c] = n

KindInv(k) == \A c \in Inner : Pointing(End, c) # {} => Agrees(k, c)

CountInv == \A k \in Kind : KindInv(k)

LEMMA CountInvExact == CountInv <=> CountsExact
BY DEF CountInv, KindInv, Agrees, Living, Alive, Kind, Ends, Count, CountsExact

LEMMA CountType ==
  ASSUME TypeOK, NEW k \in Kind, NEW c \in Inner
  PROVE  Count(k)[c] \in Nat /\ leaked[c][k] \in Nat
BY BoundAssumption DEF TypeOK, Kind, Count

LEMMA LivingFinite ==
  ASSUME NEW k \in Kind, NEW c
  PROVE  /\ IsFiniteSet(Living(k, c)) /\ IsFiniteSet(Living(k, c)')
         /\ Cardinality(Living(k, c)) \in Nat /\ Cardinality(Living(k, c)') \in Nat
<1>1. Living(k, c) \subseteq End /\ Living(k, c)' \subseteq End
  BY DEF Living, Pointing, Ends, Kind
<1> QED
  BY <1>1, EndAssumption, FS_Subset, FS_CardinalityType

\* One end more, one less, or one in the place of another.
LEMMA OneMore ==
  ASSUME NEW S, IsFiniteSet(S), NEW e, e \notin S
  PROVE  Cardinality(S \cup {e}) = Cardinality(S) + 1
BY FS_AddElement

LEMMA OneLessEnd ==
  ASSUME NEW S, IsFiniteSet(S), NEW e \in S
  PROVE  Cardinality(S \ {e}) = Cardinality(S) - 1
BY FS_RemoveElement

LEMMA Swapped ==
  ASSUME NEW S, IsFiniteSet(S), NEW e, e \notin S, NEW f \in S
  PROVE  Cardinality((S \ {f}) \cup {e}) = Cardinality(S)
<1>1. IsFiniteSet(S \ {f}) /\ Cardinality(S \ {f}) = Cardinality(S) - 1
  BY FS_RemoveElement
<1>2. Cardinality((S \ {f}) \cup {e}) = Cardinality(S \ {f}) + 1
  BY <1>1, OneMore
<1> QED
  BY <1>1, <1>2, FS_CardinalityType

\* Counting an end in, or out, by kind.
LEMMA ConnectedCount ==
  ASSUME TypeOK, NEW e \in End, NEW c, Connected(e, c), NEW k \in Kind, NEW d \in Inner
  PROVE  Count(k)'[d] = IF d = c /\ e \in Ends(k) THEN Count(k)[d] + 1 ELSE Count(k)[d]
BY DEF Connected, Incremented, Count, Ends, Kind, TypeOK

LEMMA DisconnectedCount ==
  ASSUME TypeOK, NEW e \in End, NEW c, Disconnected(e, c), NEW k \in Kind, NEW d \in Inner
  PROVE  Count(k)'[d] = IF d = c /\ e \in Ends(k) /\ Count(k)[d] > 0
                          THEN Count(k)[d] - 1 ELSE Count(k)[d]
BY DEF Disconnected, Decremented, Count, Ends, Kind, TypeOK

\* What is not touched keeps agreeing.
LEMMA AgreesStill ==
  ASSUME TypeOK, NEW k \in Kind, NEW c \in Inner, Agrees(k, c),
         Living(k, c)' = Living(k, c), Count(k)'[c] = Count(k)[c],
         leaked'[c][k] = leaked[c][k], c \in cut' <=> c \in cut
  PROVE  Agrees(k, c)'
BY DEF Agrees

\* An end is made, or finishes its assignment.
LEMMA AgreesOneMore ==
  ASSUME TypeOK, NEW k \in Kind, NEW c \in Inner, Agrees(k, c),
         NEW e, e \notin Living(k, c), Living(k, c)' = Living(k, c) \cup {e},
         Count(k)'[c] = Count(k)[c] + 1,
         leaked'[c][k] = leaked[c][k], c \in cut' <=> c \in cut
  PROVE  Agrees(k, c)'
<1>1. Cardinality(Living(k, c)') = Cardinality(Living(k, c)) + 1
  BY LivingFinite, OneMore
<1> QED
  BY <1>1, CountType, LivingFinite DEF Agrees

\* An end goes, or begins an assignment.
LEMMA AgreesOneLess ==
  ASSUME TypeOK, NEW k \in Kind, NEW c \in Inner, Agrees(k, c),
         NEW e \in Living(k, c), Living(k, c)' = Living(k, c) \ {e},
         Count(k)'[c] = IF Count(k)[c] > 0 THEN Count(k)[c] - 1 ELSE Count(k)[c],
         leaked'[c][k] = leaked[c][k], c \in cut' <=> c \in cut
  PROVE  Agrees(k, c)'
<1>1. Cardinality(Living(k, c)') = Cardinality(Living(k, c)) - 1
  BY LivingFinite, OneLessEnd
<1> QED
  BY <1>1, CountType, LivingFinite DEF Agrees

\* An end takes the place of another.
LEMMA AgreesSwapped ==
  ASSUME TypeOK, NEW k \in Kind, NEW c \in Inner, Agrees(k, c),
         NEW e, e \notin Living(k, c), NEW f \in Living(k, c),
         Living(k, c)' = (Living(k, c) \ {f}) \cup {e},
         Count(k)'[c] = Count(k)[c],
         leaked'[c][k] = leaked[c][k], c \in cut' <=> c \in cut
  PROVE  Agrees(k, c)'
<1>1. Cardinality(Living(k, c)') = Cardinality(Living(k, c))
  BY LivingFinite, Swapped
<1> QED
  BY <1>1 DEF Agrees

\* An end is lost.
LEMMA AgreesLeaked ==
  ASSUME TypeOK, NEW k \in Kind, NEW c \in Inner, Agrees(k, c),
         NEW f \in Living(k, c), Living(k, c)' = Living(k, c) \ {f},
         Count(k)'[c] = Count(k)[c],
         leaked'[c][k] = leaked[c][k] + 1, c \in cut' <=> c \in cut
  PROVE  Agrees(k, c)'
<1>1. Cardinality(Living(k, c)') = Cardinality(Living(k, c)) - 1
  BY LivingFinite, OneLessEnd
<1> QED
  BY <1>1, CountType, LivingFinite DEF Agrees

LEMMA CountLife ==
  ASSUME TypeOK, NEW ends \in {SenderEnd, ReceiverEnd}, Lives(ends),
         NEW k \in Kind, KindInv(k), NEW c \in Inner, Pointing(End, c)' # {}
  PROVE  Agrees(k, c)'
<1> USE InnerAssumption, EndAssumption DEF Kind, Ends
<1>0. Ends(k) \subseteq End /\ ends \subseteq End
      /\ (ends = Ends(k) \/ ends \cap Ends(k) = {})
  OBVIOUS
<1>1. ASSUME NEW e \in ends, NEW f \in ends, CopyConstruct(e, f)
      PROVE  Agrees(k, c)'
  <2>1. Pointing(End, c) # {} /\ Agrees(k, c)
    BY <1>0, <1>1 DEF CopyConstruct, Usable, Pointing, KindInv, TypeOK
  <2>2. Count(k)'[c] = IF c = inner[f] /\ e \in Ends(k) THEN Count(k)[c] + 1 ELSE Count(k)[c]
    BY <1>0, <1>1, ConnectedCount DEF CopyConstruct
  <2>3. /\ leaked' = leaked /\ cut' = cut
        /\ e \notin Living(k, c)
        /\ Living(k, c)' = IF c = inner[f] /\ e \in Ends(k)
                             THEN Living(k, c) \cup {e} ELSE Living(k, c)
    BY <1>0, <1>1 DEF CopyConstruct, Living, Pointing, TypeOK
  <2> QED
    BY <2>1, <2>2, <2>3, AgreesStill, AgreesOneMore
<1>2. ASSUME NEW e \in ends, NEW f \in ends, MoveConstruct(e, f)
      PROVE  Agrees(k, c)'
  <2>1. Pointing(End, c) # {} /\ Agrees(k, c)
    BY <1>0, <1>2 DEF MoveConstruct, Usable, Pointing, KindInv, TypeOK
  <2>2. /\ Count(k)'[c] = Count(k)[c] /\ leaked' = leaked /\ cut' = cut
        /\ e \notin Living(k, c)
        /\ c = inner[f] /\ f \in Ends(k) => f \in Living(k, c)
        /\ Living(k, c)' = IF c = inner[f] /\ f \in Ends(k)
                             THEN (Living(k, c) \ {f}) \cup {e} ELSE Living(k, c)
    BY <1>0, <1>2 DEF MoveConstruct, Usable, Living, Pointing, Count, TypeOK
  <2> QED
    BY <2>1, <2>2, AgreesStill, AgreesSwapped
<1>3. ASSUME NEW e \in ends, NEW f \in ends, CopyAssign(e, f)
      PROVE  Agrees(k, c)'
  <2>1. Pointing(End, c) # {} /\ Agrees(k, c)
    BY <1>0, <1>3 DEF CopyAssign, Usable, Pointing, KindInv, TypeOK
  <2>2. Count(k)'[c] = IF c = inner[e] /\ e \in Ends(k) /\ Count(k)[c] > 0
                         THEN Count(k)[c] - 1 ELSE Count(k)[c]
    BY <1>0, <1>3, DisconnectedCount DEF CopyAssign
  <2>3. /\ leaked' = leaked /\ cut' = cut
        /\ c = inner[e] /\ e \in Ends(k) => e \in Living(k, c)
        /\ Living(k, c)' = IF c = inner[e] /\ e \in Ends(k)
                             THEN Living(k, c) \ {e} ELSE Living(k, c)
    BY <1>0, <1>3 DEF CopyAssign, Usable, Living, Pointing, TypeOK
  <2> QED
    BY <2>1, <2>2, <2>3, AgreesStill, AgreesOneLess
<1>4. ASSUME NEW e \in ends, NEW f \in ends, MoveAssignWithin(e, f)
      PROVE  Agrees(k, c)'
  <2>1. Pointing(End, c) # {} /\ Agrees(k, c)
    BY <1>0, <1>4 DEF MoveAssignWithin, Usable, Pointing, KindInv, TypeOK
  <2>2. /\ Count(k)'[c] = Count(k)[c] /\ cut' = cut
        /\ c = inner[f] /\ f \in Ends(k) => f \in Living(k, c)
        /\ Living(k, c)' = IF c = inner[f] /\ f \in Ends(k)
                             THEN Living(k, c) \ {f} ELSE Living(k, c)
    BY <1>0, <1>4 DEF MoveAssignWithin, Usable, Living, Pointing, Count, TypeOK
  <2>3. leaked'[c][k] = IF c = inner[f] /\ f \in Ends(k) THEN leaked[c][k] + 1
                                                         ELSE leaked[c][k]
    BY <1>0, <1>4 DEF MoveAssignWithin, TypeOK
  <2> QED
    BY <2>1, <2>2, <2>3, AgreesStill, AgreesLeaked
<1>5. ASSUME NEW e \in ends, NEW f \in ends, MoveAssignAcross(e, f)
      PROVE  Agrees(k, c)'
  <2>1. Pointing(End, c) # {} /\ Agrees(k, c)
    BY <1>0, <1>5 DEF MoveAssignAcross, Usable, Pointing, KindInv, TypeOK
  <2>2. Count(k)'[c] = IF c = inner[e] /\ e \in Ends(k) /\ Count(k)[c] > 0
                         THEN Count(k)[c] - 1 ELSE Count(k)[c]
    BY <1>0, <1>5, DisconnectedCount DEF MoveAssignAcross
  <2>3. leaked' = leaked /\ cut' = cut /\ inner[e] # inner[f]
    BY <1>5 DEF MoveAssignAcross
  <2>4. CASE c = inner[e] /\ e \in Ends(k)
    <3>1. e \in Living(k, c) /\ Living(k, c)' = Living(k, c) \ {e}
      BY <1>0, <1>5, <2>4 DEF MoveAssignAcross, Usable, Living, Pointing, TypeOK
    <3> QED
      BY <2>1, <2>2, <2>3, <2>4, <3>1, AgreesOneLess
  <2>5. CASE c = inner[f] /\ f \in Ends(k)
    <3>1. /\ f \in Living(k, c) /\ e \notin Living(k, c)
          /\ Living(k, c)' = (Living(k, c) \ {f}) \cup {e}
      BY <1>0, <1>5, <2>5 DEF MoveAssignAcross, Usable, Living, Pointing, TypeOK
    <3> QED
      BY <2>1, <2>2, <2>3, <2>5, <3>1, AgreesSwapped
  <2>6. CASE ~(c = inner[e] /\ e \in Ends(k)) /\ ~(c = inner[f] /\ f \in Ends(k))
    <3>1. Living(k, c)' = Living(k, c)
      BY <1>0, <1>5, <2>6 DEF MoveAssignAcross, Usable, Living, Pointing, TypeOK
    <3> QED
      BY <2>1, <2>2, <2>3, <2>6, <3>1, AgreesStill
  <2> QED
    BY <2>4, <2>5, <2>6
<1>6. ASSUME NEW e \in ends, CopyAssigned(e)
      PROVE  Agrees(k, c)'
  <2>1. Pointing(End, c) # {} /\ Agrees(k, c)
    BY <1>6 DEF CopyAssigned, Pointing, KindInv, TypeOK
  <2>2. Count(k)'[c] = IF c = inner[e] /\ e \in Ends(k) THEN Count(k)[c] + 1 ELSE Count(k)[c]
    BY <1>0, <1>6, ConnectedCount DEF CopyAssigned
  <2>3. /\ leaked' = leaked /\ cut' = cut
        /\ e \notin Living(k, c)
        /\ Living(k, c)' = IF c = inner[e] /\ e \in Ends(k)
                             THEN Living(k, c) \cup {e} ELSE Living(k, c)
    BY <1>0, <1>6 DEF CopyAssigned, Living, Pointing, TypeOK
  <2> QED
    BY <2>1, <2>2, <2>3, AgreesStill, AgreesOneMore
<1>7. ASSUME NEW e \in ends, Destroy(e)
      PROVE  Agrees(k, c)'
  <2>1. Pointing(End, c) # {} /\ Agrees(k, c)
    BY <1>0, <1>7 DEF Destroy, Usable, Pointing, KindInv, TypeOK
  <2>2. Count(k)'[c] = IF c = inner[e] /\ e \in Ends(k) /\ Count(k)[c] > 0
                         THEN Count(k)[c] - 1 ELSE Count(k)[c]
    BY <1>0, <1>7, DisconnectedCount DEF Destroy
  <2>3. /\ leaked' = leaked /\ cut' = cut
        /\ c = inner[e] /\ e \in Ends(k) => e \in Living(k, c)
        /\ Living(k, c)' = IF c = inner[e] /\ e \in Ends(k)
                             THEN Living(k, c) \ {e} ELSE Living(k, c)
    BY <1>0, <1>7 DEF Destroy, Usable, Living, Pointing, TypeOK
  <2> QED
    BY <2>1, <2>2, <2>3, AgreesStill, AgreesOneLess
<1> QED
  BY <1>1, <1>2, <1>3, <1>4, <1>5, <1>6, <1>7 DEF Lives

LEMMA CountInit == Init => CountInv
BY InnerAssumption DEF Init, CountInv, KindInv, Pointing

LEMMA CountStep == TypeOK /\ CountInv /\ [Next]_vars => CountInv'
<1> SUFFICES ASSUME TypeOK, CountInv, [Next]_vars,
                    NEW k \in Kind, NEW c \in Inner, Pointing(End, c)' # {}
             PROVE  Agrees(k, c)'
  BY DEF CountInv, KindInv
<1>0. KindInv(k)
  BY DEF CountInv
<1>1. ASSUME NEW d \in Inner, NEW s \in SenderEnd, NEW r \in ReceiverEnd, NewChannel(d, s, r)
      PROVE  Agrees(k, c)'
  <2>1. CASE c = d
    <3> DEFINE e == IF k = "senders" THEN s ELSE r
    <3>1. Living(k, c)' = {e}
      BY <1>1, <2>1, EndAssumption, InnerAssumption
      DEF NewChannel, Living, Pointing, Ends, Kind, TypeOK
    <3>2. Count(k)'[c] = 1 /\ leaked'[c][k] = 0
      BY <1>1, <2>1 DEF NewChannel, Count, Kind, TypeOK
    <3>3. Cardinality({e}) = 1
      BY FS_Singleton
    <3> QED
      BY <3>1, <3>2, <3>3 DEF Agrees
  <2>2. CASE c # d
    <3>1. Pointing(End, c) # {} /\ Agrees(k, c)
      BY <1>0, <1>1, <2>2 DEF NewChannel, Pointing, KindInv, TypeOK
    <3>2. /\ Living(k, c)' = Living(k, c) /\ Count(k)'[c] = Count(k)[c]
          /\ leaked'[c][k] = leaked[c][k] /\ (c \in cut' <=> c \in cut)
      BY <1>1, <2>2, InnerAssumption
      DEF NewChannel, Living, Pointing, Ends, Count, Kind, TypeOK
    <3> QED
      BY <3>1, <3>2, AgreesStill
  <2> QED
    BY <2>1, <2>2
<1>2. ASSUME NEW d \in Inner, Disconnect(d)
      PROVE  Agrees(k, c)'
  <2>1. Pointing(End, c) # {} /\ Agrees(k, c) /\ Living(k, c)' = Living(k, c)
    BY <1>0, <1>2 DEF Disconnect, Living, Pointing, KindInv
  <2>2. CASE c = d
    <3>1. Count(k)'[c] = 0 /\ c \in cut' /\ leaked' = leaked
      BY <1>2, <2>2 DEF Disconnect, Count, TypeOK
    <3> QED
      BY <2>1, <3>1, LivingFinite, CountType DEF Agrees
  <2>3. CASE c # d
    <3>1. Count(k)'[c] = Count(k)[c] /\ (c \in cut' <=> c \in cut) /\ leaked' = leaked
      BY <1>2, <2>3 DEF Disconnect, Count, TypeOK
    <3> QED
      BY <2>1, <3>1, AgreesStill
  <2> QED
    BY <2>2, <2>3
<1>3. ASSUME UNCHANGED <<inner, assigning, countVars, cut, leaked>>
      PROVE  Agrees(k, c)'
  BY <1>0, <1>3 DEF KindInv, Agrees, Living, Pointing, Count
<1>4. ASSUME NEW s \in SenderEnd, Send(s)
      PROVE  Agrees(k, c)'
  BY <1>3, <1>4 DEF Send
<1>5. ASSUME NEW r \in ReceiverEnd, Receive(r)
      PROVE  Agrees(k, c)'
  BY <1>3, <1>5 DEF Receive
<1> QED
  BY <1>0, <1>1, <1>2, <1>3, <1>4, <1>5, CountLife DEF Next, Sender, Receiver, vars

(* The counts are those of the ends that exist, as many ends as there may  *)
(* be, through every copy, move and assignment.                            *)
THEOREM CountsExactCorrect == Spec => []CountsExact
BY TypeInit, TypeStep, CountInit, CountStep, CountInvExact, PTL DEF Spec
-----------------------------------------------------------------------------
(* Wake-ups.                                                               *)

Woken(c) == {r \in Pointing(ReceiverEnd, c) : thread[r] = "woken"}

LEMMA WokenFinite ==
  ASSUME NEW c
  PROVE  /\ IsFiniteSet(Woken(c)) /\ IsFiniteSet(Woken(c)')
         /\ Cardinality(Woken(c)) \in Nat /\ Cardinality(Woken(c)') \in Nat
<1>1. Woken(c) \subseteq End /\ Woken(c)' \subseteq End
  BY DEF Woken, Pointing
<1> QED
  BY <1>1, EndAssumption, FS_Subset, FS_CardinalityType

\* NoLostWakeup for one Inner.
Awake(c) ==
  Sleeping(c) # {} => senders[c] > 0 /\ messages[c] <= Cardinality(Woken(c))

\* An end whose thread waits stays where it is, whatever happens to the others.
LEMMA LifeThreads ==
  ASSUME TypeOK, NEW ends \in {SenderEnd, ReceiverEnd}, Lives(ends)
  PROVE  \A r \in ReceiverEnd : thread[r] # "running" => inner'[r] = inner[r]
<1>1. ASSUME NEW r \in ReceiverEnd, thread[r] # "running"
      PROVE  inner'[r] = inner[r]
  <2>1. ~Usable(r) /\ inner[r] # Gone /\ r \notin assigning
    BY <1>1, UsedThread
  <2>2. \A e, f \in ends :
          /\ CopyConstruct(e, f) => inner'[r] = inner[r]
          /\ MoveConstruct(e, f) => inner'[r] = inner[r]
          /\ CopyAssign(e, f) => inner'[r] = inner[r]
          /\ MoveAssignWithin(e, f) => inner'[r] = inner[r]
          /\ MoveAssignAcross(e, f) => inner'[r] = inner[r]
    BY <2>1 DEF CopyConstruct, MoveConstruct, CopyAssign, MoveAssignWithin,
                MoveAssignAcross, TypeOK
  <2>3. \A e \in ends :
          (CopyAssigned(e) => inner'[r] = inner[r]) /\ (Destroy(e) => inner'[r] = inner[r])
    BY <2>1 DEF CopyAssigned, Destroy, TypeOK
  <2> QED
    BY <2>2, <2>3 DEF Lives
<1> QED
  BY <1>1

\* What it does to the sleepers: nothing, or all those of one Inner are woken.
LEMMA AwakeStill ==
  ASSUME TypeOK, NEW c \in Inner, Awake(c),
         \A r \in ReceiverEnd : thread[r] # "running" => inner'[r] = inner[r],
         messages' = messages, UNCHANGED thread,
         senders'[c] > 0 \/ senders'[c] = senders[c]
  PROVE  Awake(c)'
<1>1. Sleeping(c)' = Sleeping(c) /\ Woken(c)' = Woken(c)
  <2>1. ASSUME NEW r \in ReceiverEnd, thread[r] # "running"
        PROVE  inner'[r] = c <=> inner[r] = c
    BY <2>1
  <2> QED
    BY <2>1 DEF Sleeping, Woken, Pointing
<1> QED
  BY <1>1 DEF Awake

LEMMA AwakeNotified ==
  ASSUME TypeOK, NEW c \in Inner, Awake(c), NEW d, NotifyAll(d),
         \A r \in ReceiverEnd : thread[r] # "running" => inner'[r] = inner[r],
         messages' = messages, c # d => senders'[c] = senders[c]
  PROVE  Awake(c)'
<1>1. CASE c = d
  <2>1. Sleeping(c)' = {}
    BY <1>1, NotifyAllThread DEF NotifyAll, Sleeping, Pointing, TypeOK
  <2> QED
    BY <2>1 DEF Awake
<1>2. CASE c # d
  <2>1. Sleeping(c)' = Sleeping(c) /\ Woken(c)' = Woken(c)
    <3>1. ASSUME NEW r \in ReceiverEnd
          PROVE  /\ inner'[r] = c /\ thread'[r] = "waiting" <=> inner[r] = c /\ thread[r] = "waiting"
                 /\ inner'[r] = c /\ thread'[r] = "woken" <=> inner[r] = c /\ thread[r] = "woken"
      BY <1>2 DEF NotifyAll, Sleeping, Pointing, TypeOK
    <3> QED
      BY <3>1 DEF Sleeping, Woken, Pointing
  <2> QED
    BY <1>2, <2>1 DEF Awake
<1> QED
  BY <1>1, <1>2

LEMMA AwakeConnected ==
  ASSUME TypeOK, NEW c \in Inner, Awake(c), NEW e \in End, NEW d, Connected(e, d),
         \A r \in ReceiverEnd : thread[r] # "running" => inner'[r] = inner[r],
         messages' = messages, UNCHANGED thread
  PROVE  Awake(c)'
<1>1. senders'[c] > 0 \/ senders'[c] = senders[c]
  BY DEF Connected, Incremented, TypeOK
<1> QED
  BY <1>1, AwakeStill

LEMMA AwakeDisconnected ==
  ASSUME TypeOK, NEW c \in Inner, Awake(c), NEW e \in End, NEW d, Disconnected(e, d),
         \A r \in ReceiverEnd : thread[r] # "running" => inner'[r] = inner[r],
         messages' = messages
  PROVE  Awake(c)'
<1>1. c # d => senders'[c] = senders[c]
  BY DEF Disconnected, Decremented, TypeOK
<1>2. CASE d \in Inner /\ (senders'[d] = 0 \/ receivers'[d] = 0)
  BY <1>1, <1>2, AwakeNotified DEF Disconnected, WakeUp
<1>3. CASE ~(d \in Inner /\ (senders'[d] = 0 \/ receivers'[d] = 0))
  <2>1. UNCHANGED thread
    BY <1>3 DEF Disconnected, WakeUp
  <2>2. senders'[c] > 0 \/ senders'[c] = senders[c]
    BY <1>1, <1>3, DisconnectedType
  <2> QED
    BY <2>1, <2>2, AwakeStill
<1> QED
  BY <1>2, <1>3

LEMMA AwakeLife ==
  ASSUME TypeOK, NEW ends \in {SenderEnd, ReceiverEnd}, Lives(ends),
         NEW c \in Inner, Awake(c)
  PROVE  Awake(c)'
<1>0. /\ \A r \in ReceiverEnd : thread[r] # "running" => inner'[r] = inner[r]
      /\ ends \subseteq End
  BY LifeThreads
<1>1. ASSUME NEW e \in ends, NEW f \in ends, CopyConstruct(e, f)
      PROVE  Awake(c)'
  BY <1>0, <1>1, AwakeConnected DEF CopyConstruct
<1>2. ASSUME NEW e \in ends, NEW f \in ends, MoveConstruct(e, f) \/ MoveAssignWithin(e, f)
      PROVE  Awake(c)'
  BY <1>0, <1>2, AwakeStill DEF MoveConstruct, MoveAssignWithin
<1>3. ASSUME NEW e \in ends, NEW f \in ends, CopyAssign(e, f)
      PROVE  Awake(c)'
  BY <1>0, <1>3, AwakeDisconnected DEF CopyAssign
<1>4. ASSUME NEW e \in ends, NEW f \in ends, MoveAssignAcross(e, f)
      PROVE  Awake(c)'
  BY <1>0, <1>4, AwakeDisconnected DEF MoveAssignAcross
<1>5. ASSUME NEW e \in ends, CopyAssigned(e)
      PROVE  Awake(c)'
  BY <1>0, <1>5, AwakeConnected DEF CopyAssigned
<1>6. ASSUME NEW e \in ends, Destroy(e)
      PROVE  Awake(c)'
  BY <1>0, <1>6, AwakeDisconnected DEF Destroy
<1> QED
  BY <1>1, <1>2, <1>3, <1>4, <1>5, <1>6 DEF Lives

\* A message more has a thread woken for it, if any thread sleeps.
LEMMA AwakeSend ==
  ASSUME TypeOK, NEW s \in SenderEnd, Send(s), NEW c \in Inner, Awake(c)
  PROVE  Awake(c)'
<1> DEFINE d == inner[s]
<1>0. d \in Inner /\ inner' = inner /\ senders' = senders /\ NotifyOne(d)
      /\ messages' = [messages EXCEPT ![d] = @ + 1]
  BY DEF Send, Notify
<1>1. CASE Sleeping(d) = {} /\ UNCHANGED thread
  <2>1. Sleeping(c)' = Sleeping(c) /\ Woken(c)' = Woken(c)
    BY <1>0, <1>1 DEF Sleeping, Woken, Pointing
  <2> QED
    BY <1>0, <1>1, <2>1 DEF Awake, TypeOK
<1>2. ASSUME NEW r \in Sleeping(d), thread' = [thread EXCEPT ![r] = "woken"]
      PROVE  Awake(c)'
  <2>1. CASE c = d
    <3>1. r \notin Woken(c) /\ Woken(c)' = Woken(c) \cup {r} /\ Sleeping(c)' \subseteq Sleeping(c)
      BY <1>0, <1>2, <2>1 DEF Sleeping, Woken, Pointing, TypeOK
    <3>2. Cardinality(Woken(c)') = Cardinality(Woken(c)) + 1
      BY <3>1, WokenFinite, OneMore
    <3>3. messages'[c] = messages[c] + 1 /\ messages[c] \in Nat
      BY <1>0, <2>1, BoundAssumption DEF TypeOK
    <3>4. messages[c] <= Cardinality(Woken(c)) /\ senders[c] > 0
      BY <1>2, <2>1 DEF Awake
    <3> QED
      BY <1>0, <3>2, <3>3, <3>4, WokenFinite DEF Awake
  <2>2. CASE c # d
    <3>1. Sleeping(c)' = Sleeping(c) /\ Woken(c)' = Woken(c)
      BY <1>0, <1>2, <2>2 DEF Sleeping, Woken, Pointing, TypeOK
    <3> QED
      BY <1>0, <2>2, <3>1 DEF Awake, TypeOK
  <2> QED
    BY <2>1, <2>2
<1> QED
  BY <1>0, <1>1, <1>2 DEF NotifyOne

\* A woken thread takes a message or finds none, and one that goes to sleep
\* finds none and a sender.
LEMMA AwakeReceive ==
  ASSUME TypeOK, NEW r \in ReceiverEnd, Receive(r), NEW c \in Inner, Awake(c)
  PROVE  Awake(c)'
<1> DEFINE d == inner[r]
<1>0. d \in Inner /\ thread[r] # "waiting" /\ inner' = inner /\ senders' = senders
  BY DEF Receive
<1>1. CASE c # d
  <2>1. Sleeping(c)' = Sleeping(c) /\ Woken(c)' = Woken(c) /\ messages'[c] = messages[c]
    BY <1>0, <1>1 DEF Receive, Take, FindNoSender, Wait, Sleeping, Woken, Pointing, TypeOK
  <2> QED
    BY <1>0, <2>1 DEF Awake
<1>2. CASE c = d /\ (Take(r) \/ FindNoSender(r))
  <2>1. thread' = [thread EXCEPT ![r] = "running"]
    BY <1>2 DEF Take, FindNoSender
  <2>2. Sleeping(c)' = Sleeping(c) /\ Woken(c)' = Woken(c) \ {r}
    BY <1>0, <1>2, <2>1 DEF Sleeping, Woken, Pointing, TypeOK
  <2>3. Cardinality(Woken(c)') \in Nat /\ Cardinality(Woken(c)) \in Nat
        /\ Cardinality(Woken(c)') >= Cardinality(Woken(c)) - 1
    <3>1. CASE r \in Woken(c)
      BY <2>2, <3>1, WokenFinite, OneLessEnd
    <3>2. CASE r \notin Woken(c)
      <4>1. Woken(c)' = Woken(c)
        BY <2>2, <3>2
      <4> QED
        BY <4>1, WokenFinite
    <3> QED
      BY <3>1, <3>2
  <2>4. messages[c] \in Nat /\ messages'[c] \in Nat
        /\ (messages'[c] = messages[c] - 1 \/ messages'[c] = 0)
    BY <1>0, <1>2, BoundAssumption DEF Take, FindNoSender, TypeOK
  <2> QED
    BY <1>0, <2>2, <2>3, <2>4 DEF Awake
<1>3. CASE c = d /\ Wait(r)
  <2>1. senders'[c] > 0 /\ messages'[c] = 0
    BY <1>0, <1>3 DEF Wait
  <2> QED
    BY <2>1, WokenFinite DEF Awake
<1> QED
  BY <1>1, <1>2, <1>3 DEF Receive

WakeInv == \A c \in Inner : Awake(c)

LEMMA WakeInit == Init => WakeInv
BY InnerAssumption DEF Init, WakeInv, Awake, Sleeping, Pointing

LEMMA WakeStep == TypeOK /\ WakeInv /\ [Next]_vars => WakeInv'
<1> SUFFICES ASSUME TypeOK, WakeInv, [Next]_vars, NEW c \in Inner
             PROVE  Awake(c)'
  BY DEF WakeInv
<1>0. Awake(c)
  BY DEF WakeInv
<1>1. ASSUME NEW d \in Inner, NEW s \in SenderEnd, NEW r \in ReceiverEnd, NewChannel(d, s, r)
      PROVE  Awake(c)'
  <2>1. CASE c = d
    <3>1. thread[r] = "running"
      BY <1>1, UsedThread DEF NewChannel
    <3>2. Sleeping(c)' = {}
      BY <1>1, <2>1, <3>1, EndAssumption DEF NewChannel, Sleeping, Pointing, TypeOK
    <3> QED
      BY <3>2 DEF Awake
  <2>2. CASE c # d
    <3>1. Sleeping(c)' = Sleeping(c) /\ Woken(c)' = Woken(c)
      BY <1>1, <2>2, InnerAssumption DEF NewChannel, Sleeping, Woken, Pointing, TypeOK
    <3>2. senders'[c] = senders[c] /\ messages'[c] = messages[c]
      BY <1>1, <2>2 DEF NewChannel, TypeOK
    <3> QED
      BY <1>0, <3>1, <3>2 DEF Awake
  <2> QED
    BY <2>1, <2>2
<1>2. ASSUME NEW d \in Inner, Disconnect(d)
      PROVE  Awake(c)'
  <2>1. /\ \A r \in ReceiverEnd : thread[r] # "running" => inner'[r] = inner[r]
        /\ messages' = messages /\ NotifyAll(d)
        /\ c # d => senders'[c] = senders[c]
    BY <1>2 DEF Disconnect, TypeOK
  <2> QED
    BY <1>0, <2>1, AwakeNotified
<1>3. ASSUME NEW s \in SenderEnd, Send(s)
      PROVE  Awake(c)'
  BY <1>0, <1>3, AwakeSend
<1>4. ASSUME NEW r \in ReceiverEnd, Receive(r)
      PROVE  Awake(c)'
  BY <1>0, <1>4, AwakeReceive
<1>5. CASE UNCHANGED vars
  BY <1>0, <1>5 DEF vars, Awake, Sleeping, Woken, Pointing
<1> QED
  BY <1>0, <1>1, <1>2, <1>3, <1>4, <1>5, AwakeLife DEF Next, Sender, Receiver

(* No thread sleeps through a wake-up, however many threads receive from   *)
(* however many channels.                                                  *)
THEOREM NoLostWakeupCorrect == Spec => []NoLostWakeup
<1>1. WakeInv => NoLostWakeup
  BY DEF WakeInv, Awake, Woken, NoLostWakeup
<1> QED
  BY <1>1, TypeInit, TypeStep, WakeInit, WakeStep, PTL DEF Spec
=============================================================================
