------------------------------ MODULE NumberSet ------------------------------
(***************************************************************************)
(* A set of numbers, and what its operations answer: the promise of class  *)
(* SeqnSet (shared/seqn_set.h).                                            *)
(***************************************************************************)
EXTENDS Naturals

CONSTANT Last          \* the numbers are 0..Last

VARIABLES elements,
          answer       \* what the last operation returned

setVars == <<elements, answer>>

Init == elements = {} /\ answer = FALSE

Add(seqn) ==
  /\ answer' = (seqn \notin elements)
  /\ elements' = elements \cup {seqn}

Remove(seqn) ==
  /\ answer' = (seqn \in elements)
  /\ elements' = elements \ {seqn}

Contains(seqn) ==
  /\ answer' = (seqn \in elements)
  /\ UNCHANGED elements

Next == \E seqn \in 0..Last : Add(seqn) \/ Remove(seqn) \/ Contains(seqn)

SetSpec == Init /\ [][Next]_setVars
=============================================================================
