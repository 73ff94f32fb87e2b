--------------------------- MODULE Shutdown_proofs ---------------------------
(***************************************************************************)
(* Proofs about Shutdown: the type invariant, which says who holds the     *)
(* mutex, and that nobody stops waiting unasked, for any finite set of     *)
(* threads.                                                                *)
(***************************************************************************)
EXTENDS Shutdown, TLAPS

USE DEF ActiveEof

-----------------------------------------------------------------------------
LEMMA TypeStep == TypeOK /\ [Next]_vars => TypeOK'
<1> SUFFICES ASSUME TypeOK, [Next]_vars
             PROVE  TypeOK'
  OBVIOUS
<1>1. CASE Main
  BY <1>1, ZenonT(40) DEF Main, Lock, InstallHandler, StoreSet, Test, Wake, Join, TypeOK
<1>2. CASE Reader
  BY <1>2 DEF Reader, Check, Poll, ReadChars, ReadEof, Stop, TypeOK
<1>3. CASE Environment
  BY <1>3, ZenonT(40) DEF Environment, Type, CtrlD, CtrlC, EndThread, TypeOK
<1>4. CASE UNCHANGED vars
  BY <1>4 DEF vars, TypeOK
<1> QED
  BY <1>1, <1>2, <1>3, <1>4 DEF Next

(* The main thread holds the mutex exactly where the code has the lock.    *)
THEOREM TypeCorrect == Spec => []TypeOK
<1>1. Init => TypeOK
  BY DEF Init, TypeOK
<1> QED
  BY <1>1, TypeStep, PTL DEF Spec

-----------------------------------------------------------------------------
(* The state is "exiting" only because somebody asked for it; the end of   *)
(* the input that a thread has seen is the end of the input; and a client's *)
(* reader stops only there.                                                *)
Asked == interrupted \/ stdin = "eof" \/ ended # {}

StopInv ==
  /\ state = "exiting" => Asked
  /\ main \in {"joining", "returned"} => Asked
  /\ eof => stdin = "eof"
  /\ reader = "stopping" /\ ~ActiveEof => eof

LEMMA StopStep == TypeOK /\ StopInv /\ [Next]_vars => StopInv'
<1> SUFFICES ASSUME TypeOK, StopInv, [Next]_vars
             PROVE  StopInv'
  OBVIOUS
<1>1. CASE Main
  BY <1>1 DEF Main, Lock, InstallHandler, StoreSet, Test, Wake, Join, StopInv, Asked
<1>2. CASE Reader
  BY <1>2 DEF Reader, Check, Poll, ReadChars, ReadEof, Stop, StopInv, Asked
<1>3. CASE Environment
  BY <1>3 DEF Environment, Type, CtrlD, CtrlC, EndThread, StopInv, Asked
<1>4. CASE UNCHANGED vars
  BY <1>4 DEF vars, StopInv, Asked
<1> QED
  BY <1>1, <1>2, <1>3, <1>4 DEF Next

(* Neither program stops waiting unless it was interrupted, its input has  *)
(* ended, or one of its threads has, however many threads it has.          *)
THEOREM StopsWhenAskedCorrect == Spec => []StopsWhenAsked
<1>1. Init => TypeOK /\ StopInv
  BY DEF Init, TypeOK, StopInv
<1>2. StopInv => StopsWhenAsked
  BY DEF StopInv, Asked, StopsWhenAsked
<1> QED
  BY <1>1, <1>2, TypeStep, StopStep, PTL DEF Spec
=============================================================================
