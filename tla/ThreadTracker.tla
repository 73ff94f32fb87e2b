--------------------------- MODULE ThreadTracker ---------------------------
(***************************************************************************)
(* The threads of a process (shared/tracker.cpp): the map of those that    *)
(* run, the channel to a joiner thread, and join_all, which the main       *)
(* thread calls before it returns.  Modules ClientProcess and              *)
(* ServerProcess say what the threads do.                                  *)
(*                                                                         *)
(* A std::thread has one owner at a time: the map or the joiner.  To       *)
(* destroy it while it is joinable, or to let an exception leave a thread  *)
(* or a destructor, ends the process by std::terminate.                    *)
(*                                                                         *)
(* An operator named Mutant... is a wrong version of the definition below  *)
(* it, no part of the specification.                                       *)
(***************************************************************************)
CONSTANT Task   \* what the threads run; each is spawned once

VARIABLES
  task,        \* task[t]: "unspawned", "running", or "ended" with its ThreadGuard
  threads,     \* threads[t]: the map holds "nothing" for t, its "thread", or
               \* an object that was "moved" away
  to_joiner,   \* the threads that were sent to the joiner
  closed,      \* the sender of the channel to the joiner is gone
  terminated   \* std::terminate was called

trackerVars == <<task, threads, to_joiner, closed, terminated>>

TrackerTypeOK ==
  /\ task \in [Task -> {"unspawned", "running", "ended"}]
  /\ threads \in [Task -> {"nothing", "thread", "moved"}]
  /\ to_joiner \subseteq Task
  /\ closed \in BOOLEAN /\ terminated \in BOOLEAN

TrackerInit ==
  /\ task = [t \in Task |-> "unspawned"]
  /\ threads = [t \in Task |-> "nothing"]
  /\ to_joiner = {}
  /\ closed = FALSE
  /\ terminated = FALSE

Terminate == terminated' = TRUE /\ UNCHANGED <<task, threads, to_joiner, closed>>

\* Each thread starts, and goes into the map, under control_mutex, which its
\* guard takes at its end.  The main thread spawns them one after another;
\* that is one step: no thread depends on another being there already.
Spawn ==
  /\ task = [t \in Task |-> "unspawned"]
  /\ task' = [t \in Task |-> "running"]
  /\ threads' = [t \in Task |-> "thread"]
  /\ UNCHANGED <<to_joiner, closed, terminated>>

\* unsafe_finish, in the destructor of the ThreadGuard.  What the map still
\* has is sent to the joiner; without the sender it is destroyed.
MutantFinish(t) ==   \* leaves the entry in the map
  /\ task[t] = "running"
  /\ task' = [task EXCEPT ![t] = "ended"]
  /\ threads' = [threads EXCEPT ![t] = "moved"]
  /\ to_joiner' = IF threads[t] = "thread" /\ ~closed THEN to_joiner \cup {t} ELSE to_joiner
  /\ UNCHANGED <<closed, terminated>>
Finish(t) ==
  /\ task[t] = "running"
  /\ task' = [task EXCEPT ![t] = "ended"]
  /\ threads' = [threads EXCEPT ![t] = "nothing"]
  /\ to_joiner' = IF threads[t] = "thread" /\ ~closed THEN to_joiner \cup {t} ELSE to_joiner
  /\ terminated' = (threads[t] = "thread" /\ closed)
  /\ UNCHANGED closed

\* join_all up to its wait: every thread of the map is sent, its entry stays,
\* and the sender goes.  A second call finds no sender: it must find no entry.
JoinAll ==
  IF closed
    THEN /\ terminated' = (\E t \in Task : threads[t] # "nothing")
         /\ UNCHANGED <<task, threads, to_joiner, closed>>
    ELSE LET held == {t \in Task : threads[t] = "thread"} IN
         /\ to_joiner' = to_joiner \cup held
         /\ threads' = [t \in Task |-> IF t \in held THEN "moved" ELSE threads[t]]
         /\ closed' = TRUE
         /\ UNCHANGED <<task, terminated>>

\* The joiner joins what it is sent, one after another, and ends with the
\* channel: join_all returns when each of those threads has ended.
AllJoined == closed /\ \A t \in to_joiner : task[t] = "ended"
=============================================================================
