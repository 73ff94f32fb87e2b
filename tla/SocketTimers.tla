---------------------------- MODULE SocketTimers ----------------------------
(***************************************************************************)
(* The counters that ReliableSocket::Inner::bump (shared/socket.cpp)       *)
(* advances once per bump_interval_nanos: those of each pending request,   *)
(* which decide when it is resent and given up, and the one of each        *)
(* connection, which decides when to ping and when to disconnect.  Time is *)
(* counted in bumps.                                                       *)
(*                                                                         *)
(* An operator named Mutant... is a wrong version of the definition below  *)
(* it, no part of the specification: with it in that definition's place    *)
(* TLC refutes the properties that depend on it.                           *)
(***************************************************************************)
EXTENDS Integers

CONSTANTS MaxReqAttempts,     \* Config::max_req_attempts
          CooldownNumer,      \* Config::req_cooldown_numer
          CooldownDenom,      \* Config::req_cooldown_denom
          MaxDisconnectCount, \* Config::max_disconnect_count
          PingStart,          \* Config::ping_start
          PingInterval,       \* Config::ping_interval
          Word                \* 2^64: arithmetic on uint64_t is modulo this

ASSUME ConfigAssumption ==
  /\ {MaxReqAttempts, CooldownNumer, MaxDisconnectCount, PingStart} \subseteq Nat
  /\ {CooldownDenom, PingInterval, Word} \subseteq Nat \ {0}

\* The largest shift of bump() is one that an int can hold.
ASSUME ShiftAssumption == ((MaxReqAttempts + 1) * CooldownNumer) \div CooldownDenom <= 30

-----------------------------------------------------------------------------
\* 1 << exponent, where the exponent grows by numer / denom per attempt.
Cooldown(attempt) == 2 ^ ((attempt * CooldownNumer) \div CooldownDenom)

NewPending(type) ==
  [type |-> type, cooldown_attempt |-> 0, cooldown_counter |-> 1,
   remaining_attempts |-> MaxReqAttempts]

Exhausted(p) == p.cooldown_counter = 0 /\ p.remaining_attempts = 0
Resent(p) == p.cooldown_counter = 0 /\ p.remaining_attempts > 0

MutantBumpPending(p) ==   \* waits as long as before the last attempt
  IF p.cooldown_counter > 0
    THEN [p EXCEPT !.cooldown_counter = @ - 1]
    ELSE [p EXCEPT !.remaining_attempts = IF @ = 0 THEN 0 ELSE @ - 1,
                   !.cooldown_attempt = @ + 1,
                   !.cooldown_counter = Cooldown(p.cooldown_attempt)]
BumpPending(p) ==
  IF p.cooldown_counter > 0
    THEN [p EXCEPT !.cooldown_counter = @ - 1]
    ELSE [p EXCEPT !.remaining_attempts = IF @ = 0 THEN 0 ELSE @ - 1,
                   !.cooldown_attempt = @ + 1,
                   !.cooldown_counter = Cooldown(p.cooldown_attempt + 1)]

MutantGivenUp(c) ==   \* off by one
  \/ \E s \in DOMAIN c.pending : Exhausted(c.pending[s]) /\ c.pending[s].type # "DATA"
  \/ c.disconnect_counter > MaxDisconnectCount

\* Giving up a CONN or a DISCONNECT gives up the connection, as silence does.
GivenUp(c) ==
  \/ \E s \in DOMAIN c.pending : Exhausted(c.pending[s]) /\ c.pending[s].type # "DATA"
  \/ c.disconnect_counter + 1 > MaxDisconnectCount

\* `disconnect_counter >= ping_start == 0' compares the comparison with 0, so
\* the test is the opposite of what it reads like and the offset wraps around.
PingDue(counter) ==
  /\ counter <= MaxDisconnectCount
  /\ counter < PingStart
  /\ ((counter - PingStart) % Word) % PingInterval = 0

MutantBumpConnection(c) ==   \* counts the silence only while a request waits
  LET kept == {s \in DOMAIN c.pending : ~Exhausted(c.pending[s])} IN
  [c EXCEPT !.pending = [s \in kept |-> BumpPending(c.pending[s])],
            !.disconnect_counter = IF kept = {} THEN @ ELSE @ + 1]
BumpConnection(c) ==
  LET kept == {s \in DOMAIN c.pending : ~Exhausted(c.pending[s])} IN
  [c EXCEPT !.pending = [s \in kept |-> BumpPending(c.pending[s])],
            !.disconnect_counter = @ + 1]

-----------------------------------------------------------------------------
(* What Config::report prints when the server and the client start, in     *)
(* bumps.                                                                  *)

TotalCooldown[attempt \in 0..MaxReqAttempts] ==
  Cooldown(attempt) + IF attempt = 0 THEN 0 ELSE TotalCooldown[attempt - 1]

MinResponseTimeout == TotalCooldown[MaxReqAttempts]

MinPingTimeout == MaxDisconnectCount
=============================================================================
