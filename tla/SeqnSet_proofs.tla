--------------------------- MODULE SeqnSet_proofs ---------------------------
(***************************************************************************)
(* Proofs about SeqnSet: its blocks stay apart and in range, so that no    *)
(* arithmetic on their bounds wraps around, and it implements a set of     *)
(* numbers, for any largest number.                                        *)
(***************************************************************************)
EXTENDS SeqnSet, WellFoundedInduction, TLAPS

Inv == TypeOK /\ BlocksApart

-----------------------------------------------------------------------------
(* What `query' finds when the blocks are apart.                           *)

LEMMA BlockType ==
  ASSUME TypeOK, NEW e \in DOMAIN ranges
  PROVE  e \in Nat /\ e <= Last /\ ranges[e] \in Nat /\ ranges[e] <= Last
BY LastAssumption DEF TypeOK, Seqn

\* A number is covered exactly when `query' finds a block that contains it.
LEMMA ContainingBlock ==
  ASSUME Inv, NEW seqn \in Seqn
  PROVE  /\ \A e \in DOMAIN ranges : e \in Containing(seqn) <=> ranges[e] <= seqn /\ seqn <= e
         /\ Containing(seqn) \subseteq DOMAIN ranges
         /\ Containing(seqn) # {} <=> seqn \in Covered
<1>1. seqn \in Nat
  BY LastAssumption DEF Seqn
<1>2. \A e \in DOMAIN ranges : e \in Containing(seqn) <=> ranges[e] <= seqn /\ seqn <= e
  <2> TAKE e \in DOMAIN ranges
  <2>1. ASSUME ranges[e] <= seqn, seqn <= e, NEW f \in DOMAIN ranges, f >= seqn
        PROVE  e <= f
    BY <1>1, <2>1, BlockType DEF Inv, BlocksApart
  <2> QED
    BY <1>1, <2>1, BlockType DEF Containing, LowerBound, Inv
<1>3. Containing(seqn) \subseteq DOMAIN ranges
  BY DEF Containing, LowerBound
<1>4. seqn \in Covered <=> \E e \in DOMAIN ranges : ranges[e] <= seqn /\ seqn <= e
  BY <1>1, BlockType DEF Covered, Inv
<1> QED
  BY <1>2, <1>3, <1>4

\* The blocks that `add' joins to a new number are those next to it.
LEMMA JoinedBlocks ==
  ASSUME Inv, NEW seqn \in Seqn, Containing(seqn) = {}
  PROVE  /\ JoinedAbove(seqn) = {e \in DOMAIN ranges : ranges[e] = seqn + 1}
         /\ JoinedBelow(seqn) = {e \in DOMAIN ranges : e + 1 = seqn}
<1>1. seqn \in Nat
  BY LastAssumption DEF Seqn
<1>2. ASSUME NEW e \in DOMAIN ranges
      PROVE  e \in JoinedAbove(seqn) <=> ranges[e] = seqn + 1
  <2>1. ASSUME ranges[e] = seqn + 1, NEW f \in DOMAIN ranges, f >= seqn
        PROVE  e <= f
    BY <1>1, <2>1, BlockType DEF Inv, BlocksApart
  <2>2. ranges[e] = seqn + 1 => e >= seqn /\ ranges[e] > seqn
    BY <1>1, BlockType DEF Inv, BlocksApart
  <2> QED
    BY <1>1, <2>1, <2>2, BlockType DEF JoinedAbove, Above, LowerBound, Inv
<1>3. ASSUME NEW e \in DOMAIN ranges
      PROVE  e \in JoinedBelow(seqn) <=> e + 1 = seqn
  BY <1>1, BlockType DEF JoinedBelow, Below, Inv
<1>4. JoinedAbove(seqn) \subseteq DOMAIN ranges /\ JoinedBelow(seqn) \subseteq DOMAIN ranges
  BY DEF JoinedAbove, Above, LowerBound, JoinedBelow, Below
<1> QED
  BY <1>2, <1>3, <1>4

-----------------------------------------------------------------------------
(* `add'.  The new block is [start, end]; whatever other block there is    *)
(* lies beyond a gap on its side.                                          *)

LEMMA AddNewBlock ==
  ASSUME Inv, NEW seqn \in Seqn, Containing(seqn) = {}, AddNew(seqn)
  PROVE  \E start, end \in Seqn :
           /\ start <= seqn /\ seqn <= end
           /\ DOMAIN ranges' = (DOMAIN ranges \ JoinedBelow(seqn)) \cup {end}
           /\ ranges'[end] = start
           /\ \A e \in DOMAIN ranges \ (JoinedBelow(seqn) \cup {end}) : ranges'[e] = ranges[e]
           /\ \/ end = seqn /\ \A e \in DOMAIN ranges : ranges[e] # seqn + 1
              \/ end \in DOMAIN ranges /\ ranges[end] = seqn + 1
           /\ \/ start = seqn /\ \A e \in DOMAIN ranges : e + 1 # seqn
              \/ seqn - 1 \in DOMAIN ranges /\ start = ranges[seqn - 1]
<1>1. seqn \in Nat /\ Seqn \subseteq Nat
  BY LastAssumption DEF Seqn
<1>2. /\ JoinedAbove(seqn) = {e \in DOMAIN ranges : ranges[e] = seqn + 1}
      /\ JoinedBelow(seqn) = {e \in DOMAIN ranges : e + 1 = seqn}
  BY JoinedBlocks
<1>3. PICK end \in IF JoinedAbove(seqn) = {} THEN {seqn} ELSE JoinedAbove(seqn) :
      \E start \in IF JoinedBelow(seqn) = {} THEN {seqn}
                                             ELSE {ranges[e] : e \in JoinedBelow(seqn)} :
        ranges' = [e \in (DOMAIN ranges \ JoinedBelow(seqn)) \cup {end} |->
                     IF e = end THEN start ELSE ranges[e]]
  BY DEF AddNew
<1>4. PICK start \in IF JoinedBelow(seqn) = {} THEN {seqn}
                                               ELSE {ranges[e] : e \in JoinedBelow(seqn)} :
        ranges' = [e \in (DOMAIN ranges \ JoinedBelow(seqn)) \cup {end} |->
                     IF e = end THEN start ELSE ranges[e]]
  BY <1>3
<1>5. /\ end \in Seqn /\ seqn <= end
      /\ \/ end = seqn /\ \A e \in DOMAIN ranges : ranges[e] # seqn + 1
         \/ end \in DOMAIN ranges /\ ranges[end] = seqn + 1
  <2>1. CASE JoinedAbove(seqn) = {}
    BY <1>1, <1>2, <2>1
  <2>2. CASE JoinedAbove(seqn) # {}
    <3>1. end \in DOMAIN ranges /\ ranges[end] = seqn + 1
      BY <1>2, <2>2
    <3>2. ranges[end] <= end /\ end \in Nat /\ end \in Seqn
      BY <3>1, BlockType DEF Inv, BlocksApart, TypeOK
    <3> QED
      BY <1>1, <3>1, <3>2
  <2> QED
    BY <2>1, <2>2
<1>6. /\ start \in Seqn /\ start <= seqn
      /\ \/ start = seqn /\ \A e \in DOMAIN ranges : e + 1 # seqn
         \/ seqn - 1 \in DOMAIN ranges /\ start = ranges[seqn - 1]
  <2>1. CASE JoinedBelow(seqn) = {}
    BY <1>1, <1>2, <2>1
  <2>2. CASE JoinedBelow(seqn) # {}
    <3>1. PICK e \in JoinedBelow(seqn) : start = ranges[e]
      BY <2>2
    <3>2. e \in DOMAIN ranges /\ e + 1 = seqn /\ e \in Nat
      BY <1>2, BlockType DEF Inv
    <3>3. e = seqn - 1
      BY <1>1, <3>2
    <3>4. ranges[e] <= e /\ ranges[e] \in Nat /\ ranges[e] \in Seqn
      BY <3>2, BlockType DEF Inv, BlocksApart, TypeOK
    <3> QED
      BY <1>1, <3>1, <3>2, <3>3, <3>4
  <2> QED
    BY <2>1, <2>2
<1>7. /\ DOMAIN ranges' = (DOMAIN ranges \ JoinedBelow(seqn)) \cup {end}
      /\ ranges'[end] = start
      /\ \A e \in DOMAIN ranges \ (JoinedBelow(seqn) \cup {end}) : ranges'[e] = ranges[e]
      /\ ranges' = [e \in DOMAIN ranges' |-> ranges'[e]]
  BY <1>4
<1> QED
  BY <1>5, <1>6, <1>7

LEMMA AddNewCorrect ==
  ASSUME Inv, NEW seqn \in Seqn, Containing(seqn) = {}, AddNew(seqn), answer' \in BOOLEAN
  PROVE  Inv' /\ Covered' = Covered \cup {seqn}
<1>1. PICK start \in Seqn, end \in Seqn :
           /\ start <= seqn /\ seqn <= end
           /\ DOMAIN ranges' = (DOMAIN ranges \ JoinedBelow(seqn)) \cup {end}
           /\ ranges'[end] = start
           /\ \A e \in DOMAIN ranges \ (JoinedBelow(seqn) \cup {end}) : ranges'[e] = ranges[e]
           /\ \/ end = seqn /\ \A e \in DOMAIN ranges : ranges[e] # seqn + 1
              \/ end \in DOMAIN ranges /\ ranges[end] = seqn + 1
           /\ \/ start = seqn /\ \A e \in DOMAIN ranges : e + 1 # seqn
              \/ seqn - 1 \in DOMAIN ranges /\ start = ranges[seqn - 1]
  BY AddNewBlock
<1>2. seqn \in Nat /\ start \in Nat /\ end \in Nat
  BY LastAssumption DEF Seqn
<1>3. JoinedBelow(seqn) = {e \in DOMAIN ranges : e + 1 = seqn}
  BY JoinedBlocks
\* No old block holds seqn.
<1>4. \A e \in DOMAIN ranges : e < seqn \/ ranges[e] > seqn
  BY <1>2, BlockType, ContainingBlock DEF Inv
<1>5. \A e \in DOMAIN ranges : /\ e \in Nat /\ ranges[e] \in Nat /\ ranges[e] <= e
                               /\ e \in Seqn /\ ranges[e] \in Seqn
  BY BlockType DEF Inv, BlocksApart, TypeOK
<1>6. \A e, f \in DOMAIN ranges : e < f => e + 1 < ranges[f]
  BY DEF Inv, BlocksApart
\* The blocks the new one does not replace.
<1> DEFINE kept == DOMAIN ranges \ (JoinedBelow(seqn) \cup {end})
<1>7. /\ DOMAIN ranges' = kept \cup {end}
      /\ \A e \in kept : e \in DOMAIN ranges /\ ranges'[e] = ranges[e] /\ e # end /\ e + 1 # seqn
  BY <1>1, <1>3
<1>8. ranges' = [e \in DOMAIN ranges' |-> ranges'[e]]
  BY DEF AddNew
<1> HIDE DEF kept
<1>9. TypeOK'
  BY <1>1, <1>5, <1>7, <1>8 DEF TypeOK
<1>10. ASSUME NEW e \in kept, e < end
       PROVE  e + 1 < start
  <2>1. e < seqn /\ e + 1 # seqn
    BY <1>1, <1>2, <1>4, <1>5, <1>6, <1>7, <1>10
  <2>2. CASE start = seqn
    BY <1>2, <1>5, <1>7, <2>1, <2>2
  <2>3. CASE seqn - 1 \in DOMAIN ranges /\ start = ranges[seqn - 1]
    <3>1. e < seqn - 1
      BY <1>2, <1>5, <1>7, <2>1
    <3> QED
      BY <1>6, <1>7, <2>3, <3>1
  <2> QED
    BY <1>1, <2>2, <2>3
<1>11. ASSUME NEW f \in kept, end < f
       PROVE  end + 1 < ranges[f]
  <2>1. CASE end = seqn /\ \A e \in DOMAIN ranges : ranges[e] # seqn + 1
    BY <1>2, <1>4, <1>5, <1>7, <1>11, <2>1
  <2>2. CASE end \in DOMAIN ranges
    BY <1>6, <1>7, <1>11, <2>2
  <2> QED
    BY <1>1, <2>1, <2>2
<1>12. BlocksApart'
  <2>1. \A e \in DOMAIN ranges' : ranges'[e] <= e
    BY <1>1, <1>2, <1>5, <1>7
  <2>2. ASSUME NEW e \in DOMAIN ranges', NEW f \in DOMAIN ranges', e < f
        PROVE  e + 1 < ranges'[f]
    <3>1. CASE e \in kept /\ f \in kept
      BY <1>6, <1>7, <2>2, <3>1
    <3>2. CASE e \in kept /\ f = end
      BY <1>1, <1>10, <2>2, <3>2
    <3>3. CASE e = end /\ f \in kept
      BY <1>7, <1>11, <2>2, <3>3
    <3>4. ~(e = end /\ f = end)
      BY <1>2, <2>2
    <3> QED
      BY <1>7, <3>1, <3>2, <3>3, <3>4
  <2> QED
    BY <2>1, <2>2 DEF BlocksApart
<1>13. ASSUME NEW x \in Nat
       PROVE  (\E e \in DOMAIN ranges' : ranges'[e] <= x /\ x <= e) <=>
                x = seqn \/ \E e \in DOMAIN ranges : ranges[e] <= x /\ x <= e
  <2>1. ASSUME NEW e \in DOMAIN ranges', ranges'[e] <= x, x <= e, x # seqn
        PROVE  \E f \in DOMAIN ranges : ranges[f] <= x /\ x <= f
    <3>1. CASE e \in kept
      BY <1>7, <2>1, <3>1
    <3>2. CASE e = end /\ x < seqn
      <4>1. seqn - 1 \in DOMAIN ranges /\ start = ranges[seqn - 1]
        BY <1>1, <1>2, <2>1, <3>2
      <4>2. ranges[seqn - 1] <= x /\ x <= seqn - 1
        BY <1>1, <1>2, <2>1, <3>2, <4>1
      <4> QED
        BY <4>1, <4>2
    <3>3. CASE e = end /\ x > seqn
      BY <1>1, <1>2, <2>1, <3>3
    <3> QED
      BY <1>2, <1>7, <2>1, <3>1, <3>2, <3>3
  <2>2. ASSUME x = seqn
        PROVE  \E e \in DOMAIN ranges' : ranges'[e] <= x /\ x <= e
    BY <1>1, <1>7, <2>2
  <2>3. ASSUME NEW e \in DOMAIN ranges, ranges[e] <= x, x <= e
        PROVE  \E f \in DOMAIN ranges' : ranges'[f] <= x /\ x <= f
    <3>1. CASE e \in kept
      BY <1>7, <2>3, <3>1
    <3>2. CASE e = end
      <4>1. start <= ranges[end]
        BY <1>1, <1>2, <1>4, <1>5, <2>3, <3>2
      <4> QED
        BY <1>1, <1>2, <1>5, <1>7, <2>3, <3>2, <4>1
    <3>3. CASE e + 1 = seqn
      <4>1. start = ranges[e]
        BY <1>1, <1>2, <1>5, <2>3, <3>3
      <4>2. start <= x /\ x <= end
        BY <1>1, <1>2, <1>5, <2>3, <3>3, <4>1
      <4> QED
        BY <1>1, <1>7, <4>2
    <3> QED
      BY <1>3, <2>3, <3>1, <3>2, <3>3 DEF kept
  <2> QED
    BY <2>1, <2>2, <2>3
<1>14. Covered' = Covered \cup {seqn}
  <2>1. \A x : x \in Covered <=> x \in Nat /\ \E e \in DOMAIN ranges : ranges[e] <= x /\ x <= e
    BY <1>5 DEF Covered
  <2>2. \A x : x \in Covered' <=> x \in Nat /\ \E e \in DOMAIN ranges' : ranges'[e] <= x /\ x <= e
    <3>1. \A e \in DOMAIN ranges' : e \in Nat /\ ranges'[e] \in Nat
      BY <1>1, <1>2, <1>5, <1>7
    <3> QED
      BY <3>1 DEF Covered
  <2> QED
    BY <1>2, <1>13, <2>1, <2>2
<1> QED
  BY <1>9, <1>12, <1>14 DEF Inv

-----------------------------------------------------------------------------
(* `remove'.  Of the block that holds seqn at most two parts remain, with  *)
(* seqn between them.                                                      *)

LEMMA RemoveCorrect ==
  ASSUME Inv, NEW seqn \in Seqn, NEW end \in Containing(seqn), ranges' = Split(end, seqn),
         answer' \in BOOLEAN
  PROVE  Inv' /\ Covered' = Covered \ {seqn}
<1>1. seqn \in Nat /\ seqn <= Last
  BY LastAssumption DEF Seqn
<1>2. end \in DOMAIN ranges /\ ranges[end] <= seqn /\ seqn <= end
  BY ContainingBlock
<1>3. \A e \in DOMAIN ranges : /\ e \in Nat /\ ranges[e] \in Nat /\ ranges[e] <= e
                               /\ e \in Seqn /\ ranges[e] \in Seqn
  BY BlockType DEF Inv, BlocksApart, TypeOK
<1>4. \A e, f \in DOMAIN ranges : e < f => e + 1 < ranges[f]
  BY DEF Inv, BlocksApart
<1> DEFINE others == DOMAIN ranges \ {end}
           above == IF end = seqn THEN {} ELSE {end}
           below == IF ranges[end] = seqn THEN {} ELSE {seqn - 1}
<1>5. \A e \in others : \/ e + 1 < ranges[end] /\ e + 1 < seqn
                        \/ end + 1 < ranges[e] /\ seqn + 1 < ranges[e]
  BY <1>1, <1>2, <1>3, <1>4
<1>6. DOMAIN ranges' = others \cup above \cup below
  BY <1>2 DEF Split
<1>7. \A e \in others : ranges'[e] = ranges[e]
  <2>1. \A e \in others : e # seqn - 1
    BY <1>1, <1>2, <1>3, <1>5
  <2> QED
    BY <1>6, <2>1 DEF Split
<1>8. \A e \in above : e = end /\ ranges'[e] = seqn + 1 /\ seqn < end
  BY <1>1, <1>2, <1>3, <1>6 DEF Split
<1>9. \A e \in below : e = seqn - 1 /\ ranges'[e] = ranges[end] /\ ranges[end] < seqn
  <2>1. seqn - 1 # end
    BY <1>1, <1>2, <1>3
  <2> QED
    BY <1>1, <1>2, <1>3, <1>6, <2>1 DEF Split
<1>10. ranges' = [e \in DOMAIN ranges' |-> ranges'[e]]
  BY DEF Split
<1>11. above = {} <=> end = seqn
  OBVIOUS
<1>12. below = {} <=> ranges[end] = seqn
  OBVIOUS
<1>13. \A e \in others : e \in DOMAIN ranges /\ e # end
  OBVIOUS
<1>14. \A e \in DOMAIN ranges : e = end \/ e \in others
  OBVIOUS
<1> HIDE DEF others, above, below
<1>15. \A e \in DOMAIN ranges' : e \in Seqn /\ ranges'[e] \in Seqn /\ ranges'[e] <= e
  <2>1. ASSUME NEW e \in above
        PROVE  e \in Seqn /\ ranges'[e] \in Seqn /\ ranges'[e] <= e
    BY <1>1, <1>2, <1>3, <1>8, LastAssumption DEF Seqn
  <2>2. ASSUME NEW e \in below
        PROVE  e \in Seqn /\ ranges'[e] \in Seqn /\ ranges'[e] <= e
    BY <1>1, <1>2, <1>3, <1>9, LastAssumption DEF Seqn
  <2> QED
    BY <1>3, <1>6, <1>7, <1>13, <2>1, <2>2
<1>16. TypeOK'
  BY <1>10, <1>15 DEF TypeOK
<1>17. ASSUME NEW e \in DOMAIN ranges', NEW f \in DOMAIN ranges', e < f
       PROVE  e + 1 < ranges'[f]
  <2>1. CASE f \in others
    BY <1>1, <1>2, <1>3, <1>4, <1>5, <1>6, <1>7, <1>8, <1>9, <1>13, <1>17, <2>1
  <2>2. CASE f \in above
    BY <1>1, <1>2, <1>3, <1>5, <1>6, <1>8, <1>9, <1>13, <1>17, <2>2
  <2>3. CASE f \in below
    BY <1>1, <1>2, <1>3, <1>5, <1>6, <1>8, <1>9, <1>13, <1>17, <2>3
  <2> QED
    BY <1>6, <2>1, <2>2, <2>3
<1>18. ASSUME NEW x \in Nat
       PROVE  (\E e \in DOMAIN ranges' : ranges'[e] <= x /\ x <= e) <=>
                x # seqn /\ \E e \in DOMAIN ranges : ranges[e] <= x /\ x <= e
  <2>1. ASSUME NEW e \in DOMAIN ranges', ranges'[e] <= x, x <= e
        PROVE  x # seqn /\ \E f \in DOMAIN ranges : ranges[f] <= x /\ x <= f
    <3>1. CASE e \in others
      BY <1>1, <1>2, <1>3, <1>5, <1>7, <1>13, <2>1, <3>1
    <3>2. CASE e \in above
      BY <1>1, <1>2, <1>3, <1>8, <2>1, <3>2
    <3>3. CASE e \in below
      BY <1>1, <1>2, <1>3, <1>9, <2>1, <3>3
    <3> QED
      BY <1>6, <2>1, <3>1, <3>2, <3>3
  <2>2. ASSUME NEW e \in DOMAIN ranges, ranges[e] <= x, x <= e, x # seqn
        PROVE  \E f \in DOMAIN ranges' : ranges'[f] <= x /\ x <= f
    <3>1. CASE e \in others
      BY <1>6, <1>7, <2>2, <3>1
    <3>2. CASE e = end /\ x > seqn
      <4>1. end \in above
        BY <1>1, <1>2, <1>3, <1>8, <1>11, <2>2, <3>2
      <4> QED
        BY <1>1, <1>3, <1>6, <1>8, <2>2, <3>2, <4>1
    <3>3. CASE e = end /\ x < seqn
      <4>1. seqn - 1 \in below
        BY <1>1, <1>2, <1>3, <1>9, <1>12, <2>2, <3>3
      <4> QED
        BY <1>1, <1>3, <1>6, <1>9, <2>2, <3>3, <4>1
    <3> QED
      BY <1>1, <1>14, <2>2, <3>1, <3>2, <3>3
  <2> QED
    BY <2>1, <2>2
<1>19. Covered' = Covered \ {seqn}
  <2>1. \A x : x \in Covered <=> x \in Nat /\ \E e \in DOMAIN ranges : ranges[e] <= x /\ x <= e
    BY <1>3 DEF Covered
  <2>2. \A x : x \in Covered' <=> x \in Nat /\ \E e \in DOMAIN ranges' : ranges'[e] <= x /\ x <= e
    <3>1. \A e \in DOMAIN ranges' : e \in Nat /\ ranges'[e] \in Nat
      BY <1>15, LastAssumption DEF Seqn
    <3> QED
      BY <3>1 DEF Covered
  <2> QED
    BY <1>18, <2>1, <2>2
<1> QED
  BY <1>15, <1>16, <1>17, <1>19 DEF Inv, BlocksApart

-----------------------------------------------------------------------------
(* Every step.                                                             *)

LEMMA InitCorrect == Init => Inv /\ Promise!Init
BY DEF Init, Inv, TypeOK, BlocksApart, Covered, Promise!Init

LEMMA StepCorrect ==
  Inv /\ [Next]_vars => Inv' /\ [Promise!Next]_Promise!setVars
<1> SUFFICES ASSUME Inv, [Next]_vars
             PROVE  Inv' /\ [Promise!Next]_Promise!setVars
  OBVIOUS
<1>1. ASSUME UNCHANGED ranges
      PROVE  Covered' = Covered
  BY <1>1 DEF Covered
<1>2. ASSUME UNCHANGED ranges, answer' \in BOOLEAN
      PROVE  Inv'
  BY <1>2 DEF Inv, TypeOK, BlocksApart
<1>3. ASSUME NEW seqn \in Seqn, Add(seqn)
      PROVE  Inv' /\ Promise!Add(seqn)
  <2>1. CASE Containing(seqn) # {}
    <3>1. answer' = FALSE /\ UNCHANGED ranges /\ seqn \in Covered
      BY <1>3, <2>1, ContainingBlock DEF Add
    <3>2. Covered' = Covered \cup {seqn}
      BY <1>1, <3>1
    <3> QED
      BY <1>2, <3>1, <3>2 DEF Promise!Add
  <2>2. CASE Containing(seqn) = {}
    <3>1. answer' = TRUE /\ AddNew(seqn) /\ seqn \notin Covered
      BY <1>3, <2>2, ContainingBlock DEF Add
    <3> QED
      BY <2>2, <3>1, AddNewCorrect DEF Promise!Add
  <2> QED
    BY <2>1, <2>2
<1>4. ASSUME NEW seqn \in Seqn, Remove(seqn)
      PROVE  Inv' /\ Promise!Remove(seqn)
  <2>1. CASE Containing(seqn) = {}
    <3>1. answer' = FALSE /\ UNCHANGED ranges /\ seqn \notin Covered
      BY <1>4, <2>1, ContainingBlock DEF Remove
    <3>2. Covered' = Covered \ {seqn}
      BY <1>1, <3>1
    <3>3. (seqn \in Covered) = FALSE
      BY <3>1
    <3> QED
      BY <1>2, <3>1, <3>2, <3>3 DEF Promise!Remove
  <2>2. CASE Containing(seqn) # {}
    <3>1. answer' = TRUE /\ seqn \in Covered
      BY <1>4, <2>2, ContainingBlock DEF Remove
    <3>2. PICK end \in Containing(seqn) : ranges' = Split(end, seqn)
      BY <1>4, <2>2 DEF Remove
    <3> QED
      BY <3>1, <3>2, RemoveCorrect DEF Promise!Remove
  <2> QED
    BY <2>1, <2>2
<1>5. ASSUME NEW seqn \in Seqn, Contains(seqn)
      PROVE  Inv' /\ Promise!Contains(seqn)
  <2>1. UNCHANGED ranges /\ answer' = (Containing(seqn) # {})
    BY <1>5 DEF Contains
  <2>2. answer' = (seqn \in Covered)
    BY <2>1, ContainingBlock
  <2> QED
    BY <1>1, <1>2, <2>1, <2>2 DEF Promise!Contains
<1>6. CASE UNCHANGED vars
  <2>1. UNCHANGED ranges /\ answer' = answer /\ answer \in BOOLEAN
    BY <1>6 DEF vars, Inv, TypeOK
  <2> QED
    BY <1>1, <1>2, <2>1 DEF Promise!setVars
<1> QED
  BY <1>3, <1>4, <1>5, <1>6 DEF Next, Promise!Next, Seqn

(* The bounds of blocks are numbers of the code's width, so the increments *)
(* and decrements of `add' and `remove' never wrap around.                 *)
THEOREM TypeCorrect == Spec => []TypeOK
<1>1. Inv => TypeOK
  BY DEF Inv
<1> QED
  BY <1>1, InitCorrect, StepCorrect, PTL DEF Spec

(* Blocks never overlap nor touch: the map stays as small as the set       *)
(* allows, in whatever order numbers are added and removed.                *)
THEOREM BlocksApartCorrect == Spec => []BlocksApart
<1>1. Inv => BlocksApart
  BY DEF Inv
<1> QED
  BY <1>1, InitCorrect, StepCorrect, PTL DEF Spec

(* SeqnSet implements a set of numbers: `add' answers whether the number   *)
(* is new, which is what lets a request through to the application once.   *)
THEOREM SetImplementedCorrect == Spec => SetImplemented
BY InitCorrect, StepCorrect, PTL DEF Spec, SetImplemented, Promise!SetSpec

-----------------------------------------------------------------------------
(* `missing_below'.                                                        *)

LEMMA LeastNatural ==
  ASSUME NEW T \in SUBSET Nat, T # {}
  PROVE  \E x \in T : \A y \in T : x <= y
<1> DEFINE R == OpToRel(<, Nat)
<1>1. \E x \in T : \A y \in T : ~(<<y, x>> \in R)
  <2>1. IsWellFoundedOn(R, Nat)
    BY NatLessThanWellFounded
  <2> HIDE DEF R
  <2> QED
    BY <2>1, WFMin
<1>2. \A x, y \in Nat : y < x => <<y, x>> \in R
  BY DEF OpToRel
<1> HIDE DEF R
<1>3. PICK x \in T : \A y \in T : ~(<<y, x>> \in R)
  BY <1>1
<1>4. \A y \in T : ~(y < x)
  BY <1>2, <1>3, Zenon
<1>5. \A y \in T : x <= y
  BY <1>4
<1> QED
  BY <1>5

\* The first block that ends behind a number of the set's range.
LEMMA FirstBlockAbove ==
  ASSUME TypeOK, NEW i \in Seqn, \E e \in DOMAIN ranges : i <= e
  PROVE  \E end \in DOMAIN ranges : i <= end /\ \A e \in DOMAIN ranges : e < end => e < i
<1> DEFINE ends == {e \in DOMAIN ranges : i <= e}
<1>1. ends \in SUBSET Nat /\ ends # {} /\ i \in Nat
  BY BlockType, LastAssumption DEF Seqn
<1>2. PICK end \in ends : \A e \in ends : end <= e
  BY <1>1, LeastNatural
<1> QED
  BY <1>1, <1>2, BlockType

LEMMA MissingIsExact == Inv => MissingExact
<1> SUFFICES ASSUME Inv
             PROVE  MissingExact
  OBVIOUS
<1>1. ASSUME NEW i \in MissingBelow
      PROVE  i \in Seqn /\ i \notin Covered /\ \E j \in Covered : i < j
  <2>1. PICK end \in DOMAIN ranges : i \in MissingBefore(end)
    BY DEF MissingBelow
  <2>2. /\ i \in Nat /\ i < ranges[end] /\ ranges[end] <= end
        /\ \A e \in DOMAIN ranges : e < end => e + 1 <= i
    BY <2>1, BlockType DEF MissingBefore, Inv, BlocksApart
  <2>3. ASSUME NEW e \in DOMAIN ranges, i \in ranges[e]..e
        PROVE  FALSE
    <3>1. CASE e < end
      BY <2>2, <2>3, <3>1, BlockType DEF Inv
    <3>2. CASE e = end
      BY <2>2, <2>3, <3>2, BlockType DEF Inv
    <3>3. CASE end < e
      BY <2>2, <2>3, <3>3, BlockType DEF Inv, BlocksApart
    <3> QED
      BY <3>1, <3>2, <3>3, BlockType DEF Inv
  <2>4. end \in Covered
    BY <2>2, BlockType DEF Covered, Inv
  <2> QED
    BY <2>2, <2>3, <2>4, BlockType, LastAssumption DEF Covered, Seqn, Inv
<1>2. ASSUME NEW i \in Seqn, i \notin Covered, NEW j \in Covered, i < j
      PROVE  i \in MissingBelow
  <2>1. PICK f \in DOMAIN ranges : j \in ranges[f]..f
    BY DEF Covered
  <2>2. i \in Nat /\ i <= f
    BY <1>2, <2>1, BlockType, LastAssumption DEF Seqn, Inv
  <2>3. PICK end \in DOMAIN ranges : i <= end /\ \A e \in DOMAIN ranges : e < end => e < i
    BY <2>1, <2>2, FirstBlockAbove DEF Inv
  <2>4. i < ranges[end]
    <3>1. i \notin ranges[end]..end
      BY <1>2 DEF Covered
    <3> QED
      BY <2>2, <2>3, <3>1, BlockType DEF Inv
  <2>5. i \in MissingBefore(end)
    BY <2>2, <2>3, <2>4, BlockType DEF MissingBefore, Inv
  <2> QED
    BY <2>5 DEF MissingBelow
<1> QED
  BY <1>1, <1>2 DEF MissingExact

(* missing_below finds every gap and nothing else, for any blocks that are *)
(* apart: what it returns are the numbers not received that some received  *)
(* number exceeds.                                                         *)
THEOREM MissingExactCorrect == Spec => []MissingExact
BY MissingIsExact, InitCorrect, StepCorrect, PTL DEF Spec
=============================================================================
