------------------------- MODULE RequestTimer_proofs -------------------------
(***************************************************************************)
(* Proof that a request is given up on time, for every configuration of    *)
(* the socket: any number of attempts, any growth of the cooldown and any  *)
(* patience with a silent peer.                                            *)
(***************************************************************************)
EXTENDS RequestTimer, FiniteSetTheorems, WellFoundedInduction, TLAPS

-----------------------------------------------------------------------------
(* Induction, for sets of numbers.                                         *)

LEMMA LeastNatural ==
  ASSUME NEW T \in SUBSET Nat, T # {}
  PROVE  \E x \in T : \A y \in T : x <= y
<1> DEFINE R == OpToRel(<, Nat)
<1>1. \E x \in T : \A y \in T : ~(<<y, x>> \in R)
  <2>1. IsWellFoundedOn(R, Nat)
    BY NatLessThanWellFounded
  <2> HIDE DEF R
  <2> QED
    BY <2>1, WFMin
<1>2. \A x, y \in Nat : y < x => <<y, x>> \in R
  BY DEF OpToRel
<1> HIDE DEF R
<1>3. \E x \in T : \A y \in T : ~(y < x)
  BY <1>1, <1>2, Zenon
<1> QED
  BY <1>3

LEMMA SetInduction ==
  ASSUME NEW n \in Nat, NEW S, 0 \in S, \A i \in 0..n : i \in S /\ i < n => i + 1 \in S
  PROVE  0..n \subseteq S
<1> DEFINE T == {i \in 0..n : i \notin S}
<1> SUFFICES ASSUME T # {}
             PROVE  FALSE
  OBVIOUS
<1>1. PICK x \in T : \A y \in T : x <= y
  <2>1. T \in SUBSET Nat
    OBVIOUS
  <2> HIDE DEF T
  <2> QED
    BY <2>1, LeastNatural
<1>2. x - 1 \in 0..n /\ x - 1 < n /\ x - 1 \in S
  BY <1>1
<1> QED
  BY <1>2

-----------------------------------------------------------------------------
(* The cooldowns and their sum.                                            *)

LEMMA CooldownType ==
  ASSUME NEW attempt \in Nat
  PROVE  Cooldown(attempt) \in Nat
<1> DEFINE exponent == (attempt * CooldownNumer) \div CooldownDenom
<1>1. exponent \in Nat
  <2>1. attempt * CooldownNumer \in Nat /\ CooldownDenom \in Nat \ {0}
    BY ConfigAssumption
  <2> QED
    BY <2>1
<1> HIDE DEF exponent
<1>2. IsFiniteSet(1..exponent) /\ Cardinality(1..exponent) = exponent
  BY <1>1, FS_Interval
<1>3. 2 ^ exponent = Cardinality(SUBSET (1..exponent)) /\ IsFiniteSet(SUBSET (1..exponent))
  BY <1>2, FS_SUBSET
<1>4. 2 ^ exponent \in Nat
  BY <1>3, FS_CardinalityType
<1> QED
  BY <1>4 DEF Cooldown, exponent

LEMMA FirstCooldown == Cooldown(0) = 1
<1>1. (0 * CooldownNumer) \div CooldownDenom = 0
  BY ConfigAssumption
<1>2. 2 ^ 0 = 1
  OBVIOUS
<1> QED
  BY <1>1, <1>2 DEF Cooldown

\* There is a function that the recursion of TotalCooldown describes.
IsTotal(f, n) ==
  f = [i \in 0..n |-> Cooldown(i) + IF i = 0 THEN 0 ELSE f[i - 1]]

LEMMA TotalExists == \E f : IsTotal(f, MaxReqAttempts)
<1> DEFINE S == {n \in 0..MaxReqAttempts : \E f : IsTotal(f, n)}
<1>0. MaxReqAttempts \in Nat
  BY ConfigAssumption
<1>1. 0 \in S
  <2> DEFINE f == [i \in 0..0 |-> Cooldown(0)]
  <2>1. f = [i \in 0..0 |-> Cooldown(i) + IF i = 0 THEN 0 ELSE f[i - 1]]
    BY FirstCooldown
  <2> HIDE DEF f
  <2> QED
    BY <1>0, <2>1 DEF IsTotal
<1>2. ASSUME NEW n \in 0..MaxReqAttempts, n \in S, n < MaxReqAttempts
      PROVE  n + 1 \in S
  <2>1. PICK f : IsTotal(f, n)
    BY <1>2
  <2> DEFINE g == [i \in 0..(n + 1) |-> IF i = n + 1 THEN Cooldown(n + 1) + f[n] ELSE f[i]]
  <2>2. ASSUME NEW i \in 0..(n + 1)
        PROVE  g[i] = Cooldown(i) + IF i = 0 THEN 0 ELSE g[i - 1]
    <3>1. CASE i = n + 1
      BY <1>0, <3>1
    <3>2. CASE i \in 0..n
      BY <1>0, <2>1, <3>2 DEF IsTotal
    <3> QED
      BY <1>0, <3>1, <3>2
  <2>3. IsTotal(g, n + 1)
    BY <2>2 DEF IsTotal
  <2> QED
    BY <1>0, <1>2, <2>3
<1> HIDE DEF S
<1>3. 0..MaxReqAttempts \subseteq S
  BY <1>0, <1>1, <1>2, SetInduction
<1> QED
  BY <1>0, <1>3 DEF S

LEMMA TotalStep ==
  /\ TotalCooldown[0] = 1
  /\ \A i \in 0..MaxReqAttempts :
       /\ TotalCooldown[i] \in Nat
       /\ i > 0 => TotalCooldown[i] = TotalCooldown[i - 1] + Cooldown(i)
<1>1. IsTotal(TotalCooldown, MaxReqAttempts)
  BY TotalExists DEF IsTotal, TotalCooldown
<1>2. MaxReqAttempts \in Nat
  BY ConfigAssumption
<1>3. \A i \in 0..MaxReqAttempts :
        TotalCooldown[i] = Cooldown(i) + IF i = 0 THEN 0 ELSE TotalCooldown[i - 1]
  BY <1>1 DEF IsTotal
<1> HIDE DEF TotalCooldown
<1>4. TotalCooldown[0] = 1
  BY <1>2, <1>3, FirstCooldown
<1> DEFINE S == {i \in 0..MaxReqAttempts : TotalCooldown[i] \in Nat}
<1>5. ASSUME NEW i \in 0..MaxReqAttempts, i \in S, i < MaxReqAttempts
      PROVE  i + 1 \in S
  <2>1. /\ i + 1 \in 0..MaxReqAttempts /\ i + 1 # 0 /\ (i + 1) - 1 = i
        /\ Cooldown(i + 1) \in Nat /\ TotalCooldown[i] \in Nat
    BY <1>2, <1>5, CooldownType
  <2>2. TotalCooldown[i + 1] = Cooldown(i + 1) + TotalCooldown[i]
    BY <1>3, <2>1
  <2> QED
    BY <2>1, <2>2
<1>6. 0 \in S
  BY <1>2, <1>4
<1>7. 0..MaxReqAttempts \subseteq S
  <2> HIDE DEF S
  <2> QED
    BY <1>2, <1>5, <1>6, SetInduction
<1>8. ASSUME NEW i \in 0..MaxReqAttempts, i > 0
      PROVE  TotalCooldown[i] = TotalCooldown[i - 1] + Cooldown(i)
  <2>1. i - 1 \in 0..MaxReqAttempts /\ TotalCooldown[i - 1] \in Nat /\ Cooldown(i) \in Nat
    BY <1>2, <1>7, <1>8, CooldownType
  <2> QED
    BY <1>3, <1>8, <2>1
<1> QED
  BY <1>4, <1>7, <1>8

-----------------------------------------------------------------------------
(* A request that was resent `attempt' times has waited out the cooldowns  *)
(* before that, one more bump for each time it was resent, and as much of  *)
(* the present cooldown as its counter has counted down.                   *)

PendingInv ==
  LET p == conn.pending[0]
      attempt == p.cooldown_attempt
  IN /\ conn.pending \in [{0} -> [type : {"CONN", "DATA"}, cooldown_attempt : 0..MaxReqAttempts,
                                 cooldown_counter : Nat, remaining_attempts : 0..MaxReqAttempts]]
     /\ attempt + p.remaining_attempts = MaxReqAttempts
     /\ sends = attempt + 1
     /\ age + p.cooldown_counter = TotalCooldown[attempt] + attempt

TimerInv ==
  /\ conn \in [pending : {conn.pending}, disconnect_counter : Nat]
  /\ age \in Nat /\ sends \in Nat /\ silence \in Nat
  /\ outcome \in {"pending", "expired", "disconnected"}
  /\ outcome = "pending" => PendingInv /\ silence = conn.disconnect_counter
  /\ ExpiresOnTime

LEMMA TimerInit == Init => TimerInv
<1> SUFFICES ASSUME Init
             PROVE  TimerInv
  OBVIOUS
<1>1. PICK type \in {"CONN", "DATA"} :
        conn = [pending |-> [s \in {0} |-> NewPending(type)], disconnect_counter |-> 0]
  BY DEF Init
<1>2. conn.pending[0] = NewPending(type) /\ MaxReqAttempts \in Nat
  BY <1>1, ConfigAssumption
<1>3. PendingInv
  BY <1>1, <1>2, TotalStep DEF Init, PendingInv, NewPending
<1> QED
  BY <1>1, <1>3 DEF Init, TimerInv, ExpiresOnTime

LEMMA HearStep == TimerInv /\ Hear => TimerInv'
BY DEF TimerInv, Hear, PendingInv, ExpiresOnTime

LEMMA BumpStep == TimerInv /\ Bump => TimerInv'
<1> SUFFICES ASSUME TimerInv, Bump
             PROVE  TimerInv'
  OBVIOUS
<1> DEFINE p == conn.pending[0]
           count == conn.disconnect_counter
<1>1. /\ PendingInv /\ silence = count /\ count \in Nat
      /\ age \in Nat /\ sends \in Nat
      /\ MaxReqAttempts \in Nat /\ MaxDisconnectCount \in Nat
  BY ConfigAssumption DEF TimerInv, Bump
<1>2. /\ DOMAIN conn.pending = {0}
      /\ conn = [pending |-> conn.pending, disconnect_counter |-> count]
      /\ p = [type |-> p.type, cooldown_attempt |-> p.cooldown_attempt,
              cooldown_counter |-> p.cooldown_counter,
              remaining_attempts |-> p.remaining_attempts]
      /\ p.type \in {"CONN", "DATA"}
      /\ p.cooldown_attempt \in 0..MaxReqAttempts
      /\ p.remaining_attempts \in 0..MaxReqAttempts
      /\ p.cooldown_counter \in Nat
      /\ p.cooldown_attempt + p.remaining_attempts = MaxReqAttempts
      /\ sends = p.cooldown_attempt + 1
      /\ age + p.cooldown_counter = TotalCooldown[p.cooldown_attempt] + p.cooldown_attempt
  BY <1>1 DEF TimerInv, PendingInv
<1>3. /\ age' = age + 1 /\ silence' = count + 1
      /\ conn' = BumpConnection(conn)
      /\ sends' = IF Resent(p) THEN sends + 1 ELSE sends
      /\ GivenUp(conn) <=> (Exhausted(p) /\ p.type # "DATA") \/ count + 1 > MaxDisconnectCount
      /\ outcome' = IF GivenUp(conn) THEN "disconnected"
                    ELSE IF Exhausted(p) THEN "expired" ELSE "pending"
  BY <1>1, <1>2 DEF Bump, Request, GivenUp
<1>4. conn' \in [pending : {conn'.pending}, disconnect_counter : Nat]
      /\ conn'.disconnect_counter = count + 1
  <2>1. PICK pending : conn' = [conn EXCEPT !.pending = pending, !.disconnect_counter = count + 1]
    BY <1>3 DEF BumpConnection
  <2>2. PICK old : conn = [pending |-> old, disconnect_counter |-> count]
    BY <1>2
  <2>3. count + 1 \in Nat
    BY <1>1
  <2> HIDE DEF count
  <2>4. conn' = [pending |-> pending, disconnect_counter |-> count + 1]
    BY <2>1, <2>2
  <2> QED
    BY <2>3, <2>4
<1>5. ~Exhausted(p) => conn'.pending = [s \in {0} |-> BumpPending(p)]
  BY <1>2, <1>3 DEF BumpConnection
<1> HIDE DEF p, count
<1>6. age' \in Nat /\ silence' \in Nat /\ sends' \in Nat
  BY <1>1, <1>3
<1>7. CASE Exhausted(p)
  <2>1. p.cooldown_attempt = MaxReqAttempts /\ p.cooldown_counter = 0 /\ ~Resent(p)
    BY <1>1, <1>2, <1>7 DEF Exhausted, Resent
  <2>2. age' = MinResponseTimeout + MaxReqAttempts + 1 /\ sends' = MaxReqAttempts + 1
    BY <1>1, <1>2, <1>3, <2>1, TotalStep DEF MinResponseTimeout
  <2>3. outcome' \in {"expired", "disconnected"}
    BY <1>3, <1>7
  <2> QED
    BY <1>4, <1>6, <2>2, <2>3 DEF TimerInv, ExpiresOnTime
<1>8. CASE ~Exhausted(p)
  <2>1. outcome' \in {"pending", "disconnected"}
        /\ (outcome' = "disconnected" => silence' > MaxDisconnectCount)
    BY <1>1, <1>3, <1>8
  <2>2. ExpiresOnTime'
    BY <1>1, <1>6, <2>1 DEF ExpiresOnTime
  <2>3. PendingInv'
    <3> DEFINE q == BumpPending(p)
    <3>1. conn'.pending = [s \in {0} |-> q] /\ conn'.pending[0] = q
      BY <1>5, <1>8
    <3>2. CASE p.cooldown_counter > 0
      <4>1. /\ ~Resent(p)
            /\ q = [p EXCEPT !.cooldown_counter = p.cooldown_counter - 1]
        BY <3>2 DEF Resent, BumpPending
      <4>2. /\ q = [type |-> p.type, cooldown_attempt |-> p.cooldown_attempt,
                    cooldown_counter |-> p.cooldown_counter - 1,
                    remaining_attempts |-> p.remaining_attempts]
            /\ p.cooldown_counter - 1 \in Nat
        BY <1>2, <3>2, <4>1
      <4> HIDE DEF q
      <4>3. age' + (p.cooldown_counter - 1) = TotalCooldown[p.cooldown_attempt] + p.cooldown_attempt
        BY <1>1, <1>2, <1>3
      <4> QED
        BY <1>2, <1>3, <3>1, <4>1, <4>2, <4>3 DEF PendingInv
    <3>3. CASE ~(p.cooldown_counter > 0)
      <4> DEFINE attempt == p.cooldown_attempt + 1
                 left == p.remaining_attempts - 1
      <4>1. /\ p.cooldown_counter = 0 /\ p.remaining_attempts > 0 /\ Resent(p)
            /\ attempt \in 0..MaxReqAttempts /\ left \in 0..MaxReqAttempts
            /\ attempt + left = MaxReqAttempts
        BY <1>1, <1>2, <1>8, <3>3 DEF Exhausted, Resent
      <4>2. q = [p EXCEPT !.remaining_attempts = left, !.cooldown_attempt = attempt,
                          !.cooldown_counter = Cooldown(attempt)]
        BY <3>3, <4>1 DEF BumpPending
      <4>3. q = [type |-> p.type, cooldown_attempt |-> attempt,
                 cooldown_counter |-> Cooldown(attempt), remaining_attempts |-> left]
        BY <1>2, <4>2
      <4>4. /\ Cooldown(attempt) \in Nat
            /\ TotalCooldown[attempt] = TotalCooldown[p.cooldown_attempt] + Cooldown(attempt)
            /\ TotalCooldown[p.cooldown_attempt] \in Nat
        BY <1>1, <1>2, <4>1, CooldownType, TotalStep
      <4>5. /\ sends' = attempt + 1
            /\ age' + Cooldown(attempt) = TotalCooldown[attempt] + attempt
        BY <1>1, <1>2, <1>3, <4>1, <4>4
      <4> HIDE DEF q, attempt, left
      <4> QED
        BY <1>2, <3>1, <4>1, <4>3, <4>4, <4>5 DEF PendingInv
    <3> QED
      BY <3>2, <3>3
  <2> QED
    BY <1>3, <1>4, <1>6, <2>1, <2>2, <2>3 DEF TimerInv
<1> QED
  BY <1>7, <1>8

(* Whatever the configuration, a request of a peer that is heard from is   *)
(* given up exactly when the timeout that Config::report prints has        *)
(* passed, and one bump more per attempt.                                  *)
THEOREM ExpiresOnTimeCorrect == Spec => []ExpiresOnTime
<1>1. TimerInv /\ UNCHANGED vars => TimerInv'
  BY DEF TimerInv, PendingInv, ExpiresOnTime, vars
<1>2. TimerInv => ExpiresOnTime
  BY DEF TimerInv
<1> QED
  BY <1>1, <1>2, TimerInit, HearStep, BumpStep, PTL DEF Spec, Next
=============================================================================
