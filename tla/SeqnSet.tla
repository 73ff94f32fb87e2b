------------------------------- MODULE SeqnSet -------------------------------
(***************************************************************************)
(* Class SeqnSet (shared/seqn_set.cpp), in which a connection remembers    *)
(* the sequence numbers of the requests it has received: a set kept as a   *)
(* map from the last number of each block of consecutive numbers to its    *)
(* first.  An iterator or an optional of the code is here a set of at most *)
(* one key of that map.                                                    *)
(*                                                                         *)
(* An operator named Mutant... is a wrong version of the definition below  *)
(* it, no part of the specification.                                       *)
(***************************************************************************)
EXTENDS Integers

CONSTANT Last          \* the largest number, 2^64 - 1 in the code

ASSUME LastAssumption == Last \in Nat

VARIABLES ranges,      \* end of a block -> its start
          answer       \* what the last operation returned

vars == <<ranges, answer>>

Seqn == 0..Last

\* The numbers in the set.
Covered == UNION {ranges[e]..e : e \in DOMAIN ranges}

-----------------------------------------------------------------------------
\* The blocks that `query' finds; lower_bound is the first key not below seqn.
LowerBound(seqn) ==
  {e \in DOMAIN ranges : e >= seqn /\ \A f \in DOMAIN ranges : f >= seqn => e <= f}
Containing(seqn) == {e \in LowerBound(seqn) : ranges[e] <= seqn}
Above(seqn) == {e \in LowerBound(seqn) : ranges[e] > seqn}
Below(seqn) ==
  {e \in DOMAIN ranges : e < seqn /\ \A f \in DOMAIN ranges : f < seqn => f <= e}

\* The blocks next to seqn, that `add' merges with the new one.
JoinedAbove(seqn) == {e \in Above(seqn) : ranges[e] - 1 = seqn}
MutantJoinedBelow(seqn) == {e \in Below(seqn) : e + 2 = seqn}   \* off by one
JoinedBelow(seqn) == {e \in Below(seqn) : e + 1 = seqn}

Init ==
  /\ ranges = [e \in {} |-> 0]
  /\ answer = FALSE

\* The key of the new block and its start are those of the blocks it joins.
AddNew(seqn) ==
  \E end \in IF JoinedAbove(seqn) = {} THEN {seqn} ELSE JoinedAbove(seqn) :
  \E start \in IF JoinedBelow(seqn) = {} THEN {seqn} ELSE {ranges[e] : e \in JoinedBelow(seqn)} :
    ranges' = [e \in (DOMAIN ranges \ JoinedBelow(seqn)) \cup {end} |->
                 IF e = end THEN start ELSE ranges[e]]

Add(seqn) ==
  \/ /\ Containing(seqn) # {}
     /\ answer' = FALSE
     /\ UNCHANGED ranges
  \/ /\ Containing(seqn) = {}
     /\ answer' = TRUE
     /\ AddNew(seqn)

\* What remains of the block that ends at `end' without seqn.
MutantSplit(end, seqn) ==   \* forgets the part below seqn
  [e \in IF end = seqn THEN DOMAIN ranges \ {end} ELSE DOMAIN ranges |->
     IF e = end THEN seqn + 1 ELSE ranges[e]]
MutantUnguardedSplit(end, seqn) ==   \* a part below seqn even where the block starts
  [e \in (IF end = seqn THEN DOMAIN ranges \ {end} ELSE DOMAIN ranges) \cup {seqn - 1} |->
     IF e = end THEN seqn + 1 ELSE IF e = seqn - 1 THEN ranges[end] ELSE ranges[e]]
Split(end, seqn) ==
  [e \in (IF end = seqn THEN DOMAIN ranges \ {end} ELSE DOMAIN ranges)
           \cup (IF ranges[end] = seqn THEN {} ELSE {seqn - 1}) |->
     IF e = end THEN seqn + 1 ELSE IF e = seqn - 1 THEN ranges[end] ELSE ranges[e]]

Remove(seqn) ==
  \/ /\ Containing(seqn) = {}
     /\ answer' = FALSE
     /\ UNCHANGED ranges
  \/ /\ answer' = TRUE
     /\ \E end \in Containing(seqn) : ranges' = Split(end, seqn)

Contains(seqn) ==
  /\ answer' = (Containing(seqn) # {})
  /\ UNCHANGED ranges

Next == \E seqn \in Seqn : Add(seqn) \/ Remove(seqn) \/ Contains(seqn)

Spec == Init /\ [][Next]_vars

-----------------------------------------------------------------------------
\* missing_below: the gap before each block, in ascending order of the keys.
MutantMissingBefore(end) ==   \* starts at the end of the previous block, which it holds
  {i \in 0..ranges[end] - 1 : \A e \in DOMAIN ranges : e < end => e <= i}
MissingBefore(end) ==
  {i \in 0..ranges[end] - 1 : \A e \in DOMAIN ranges : e < end => e + 1 <= i}
MissingBelow == UNION {MissingBefore(end) : end \in DOMAIN ranges}

-----------------------------------------------------------------------------
(* Properties.                                                             *)

TypeOK ==
  /\ DOMAIN ranges \subseteq Seqn
  /\ ranges \in [DOMAIN ranges -> Seqn]
  /\ answer \in BOOLEAN

(* No block is empty, and a number lies between any two: blocks never      *)
(* overlap and neighbours are always merged, so that a peer that sends     *)
(* every number once costs one entry, however they arrive.                 *)
BlocksApart ==
  /\ \A e \in DOMAIN ranges : ranges[e] <= e
  /\ \A e, f \in DOMAIN ranges : e < f => e + 1 < ranges[f]

(* Adding, removing and looking up answer and act as on the set of the     *)
(* numbers covered by blocks.                                              *)
Promise == INSTANCE NumberSet WITH elements <- Covered
SetImplemented == Promise!SetSpec

(* missing_below is the numbers not in the set that some number of the set *)
(* exceeds.                                                                *)
MissingExact ==
  MissingBelow = {i \in Seqn : i \notin Covered /\ \E j \in Covered : i < j}
=============================================================================
