------------------------------ MODULE Shutdown ------------------------------
(***************************************************************************)
(* How a process waits to be told to stop (shared/shutdown.cpp): the main  *)
(* thread in wait_for_graceful_shutdown, the thread that watches standard  *)
(* input, the handler of SIGINT and the other threads of the process that  *)
(* call signal_graceful_shutdown when they end (the client's output thread *)
(* and the server's saving thread do not, and are left out).  The server   *)
(* watches its input with the thread that waiting starts                   *)
(* (SHUTDOWN_ACTIVE_EOF); the client's input is read by its interface      *)
(* thread (client/interface.cpp), and waiting only looks at the flag       *)
(* (SHUTDOWN_PASSIVE_EOF).  Standard input is a terminal.                  *)
(*                                                                         *)
(* An operator named Mutant... is a wrong version of the definition below  *)
(* it, no part of the specification.                                       *)
(***************************************************************************)
EXTENDS FiniteSets

CONSTANTS Programs,      \* which programs to look at
          Thread         \* the other threads

ASSUME ProgramsAssumption == Programs \subseteq {"server", "client"}
ASSUME ThreadAssumption == IsFiniteSet(Thread)

VARIABLES
  program,      \* which program this is
  state,        \* the atomic: "unset", "set" or "exiting"
  mutex,        \* who holds control_mutex: "main" or "nobody"
  main,         \* control state of wait_for_graceful_shutdown
  reader,       \* control state of the thread that reads the input
  handler,      \* signal_handler is installed
  stdin,        \* what the terminal has: "nothing", "chars" or "eof"
  eof,          \* std::cin.eof()
  ended,        \* threads that have called signal_graceful_shutdown
  interrupted   \* Ctrl-C has been pressed

vars == <<program, state, mutex, main, reader, handler, stdin, eof, ended, interrupted>>

ActiveEof == program = "server"

TypeOK ==
  /\ program \in Programs
  /\ state \in {"unset", "set", "exiting"}
  /\ mutex \in {"main", "nobody"}
  /\ main \in {"start", "installing", "storing", "testing", "sleeping", "joining", "returned"}
  /\ mutex = "main" <=> main \in {"installing", "storing", "testing"}
  /\ reader \in {"checking", "polling", "reading", "stopping", "done"}
  /\ handler \in BOOLEAN /\ eof \in BOOLEAN
  /\ stdin \in {"nothing", "chars", "eof"}
  /\ ended \subseteq Thread
  /\ interrupted \in BOOLEAN

Init ==
  /\ program \in Programs
  /\ state = "unset" /\ mutex = "nobody"
  /\ main = "start" /\ reader = "checking"
  /\ handler = FALSE
  /\ stdin = "nothing" /\ eof = FALSE
  /\ ended = {} /\ interrupted = FALSE

-----------------------------------------------------------------------------
(* The main thread.                                                        *)

Lock ==
  /\ main = "start" /\ mutex = "nobody"
  /\ mutex' = "main"
  /\ main' = IF state = "unset" THEN "installing" ELSE "testing"
  /\ UNCHANGED <<program, state, reader, handler, stdin, eof, ended, interrupted>>

InstallHandler ==
  /\ main = "installing"
  /\ handler' = TRUE
  /\ main' = "storing"
  /\ UNCHANGED <<program, state, mutex, reader, stdin, eof, ended, interrupted>>

\* Whatever was stored since the test is lost.
StoreSet ==
  /\ main = "storing"
  /\ state' = "set"
  /\ main' = "testing"
  /\ UNCHANGED <<program, mutex, reader, handler, stdin, eof, ended, interrupted>>

\* After the loop the server joins the thread that watches the input.
MutantTest ==   \* a wake-up from wait_for is taken for the end
  /\ main = "testing"
  /\ main' = IF state = "set" /\ ~eof THEN "sleeping" ELSE "joining"
  /\ state' \in {state, "exiting"}
  /\ mutex' = "nobody"
  /\ UNCHANGED <<program, reader, handler, stdin, eof, ended, interrupted>>
Test ==
  /\ main = "testing"
  /\ \/ /\ state = "exiting"
        /\ main' = "joining" /\ mutex' = "nobody"
        /\ UNCHANGED state
     \/ /\ state # "exiting" /\ eof
        /\ state' = "exiting"
        /\ UNCHANGED <<main, mutex>>
     \/ /\ state # "exiting" /\ ~eof
        /\ main' = "sleeping" /\ mutex' = "nobody"
        /\ UNCHANGED state
  /\ UNCHANGED <<program, reader, handler, stdin, eof, ended, interrupted>>

MutantWake ==   \* wait instead of wait_for; only the server's reader notifies
  /\ main = "sleeping" /\ mutex = "nobody"
  /\ ActiveEof /\ reader = "done"
  /\ main' = "testing" /\ mutex' = "main"
  /\ UNCHANGED <<program, state, reader, handler, stdin, eof, ended, interrupted>>
\* wait_for returns after 10 ms, or when it is notified.
Wake ==
  /\ main = "sleeping" /\ mutex = "nobody"
  /\ main' = "testing" /\ mutex' = "main"
  /\ UNCHANGED <<program, state, reader, handler, stdin, eof, ended, interrupted>>

Join ==
  /\ main = "joining"
  /\ ActiveEof => reader = "done"
  /\ main' = "returned"
  /\ UNCHANGED <<program, state, mutex, reader, handler, stdin, eof, ended, interrupted>>

-----------------------------------------------------------------------------
(* The reader.                                                             *)

\* Only the server's looks whether the process is about to stop.
Check ==
  /\ reader = "checking"
  /\ ActiveEof => mutex = "nobody"
  /\ reader' = CASE ActiveEof /\ state = "exiting" -> "stopping"
                 [] ~ActiveEof /\ eof -> "stopping"
                 [] OTHER -> "polling"
  /\ UNCHANGED <<program, state, mutex, main, handler, stdin, eof, ended, interrupted>>

Poll ==
  /\ reader = "polling"
  /\ reader' = IF stdin = "nothing" THEN "checking" ELSE "reading"
  /\ UNCHANGED <<program, state, mutex, main, handler, stdin, eof, ended, interrupted>>

\* The client reads a line; the server's `ignore' reads on until the end of
\* the input, and blocks as long as there is none.
ReadChars ==
  /\ reader = "reading" /\ stdin = "chars"
  /\ stdin' = "nothing"
  /\ reader' = IF ActiveEof THEN "reading" ELSE "checking"
  /\ UNCHANGED <<program, state, mutex, main, handler, eof, ended, interrupted>>

MutantReadEof ==   \* the reader alone learns of the end
  /\ reader = "reading" /\ stdin = "eof"
  /\ reader' = "done"
  /\ UNCHANGED <<program, state, mutex, main, handler, stdin, eof, ended, interrupted>>
ReadEof ==
  /\ reader = "reading" /\ stdin = "eof"
  /\ eof' = TRUE
  /\ reader' = "stopping"
  /\ UNCHANGED <<program, state, mutex, main, handler, stdin, ended, interrupted>>

\* The server's thread stores the state with the mutex held and only at the
\* end of the input; the client's stores it always, without the mutex.
Stop ==
  /\ reader = "stopping"
  /\ ActiveEof => mutex = "nobody"
  /\ state' = IF ActiveEof /\ ~eof THEN state ELSE "exiting"
  /\ reader' = "done"
  /\ UNCHANGED <<program, mutex, main, handler, stdin, eof, ended, interrupted>>

-----------------------------------------------------------------------------
(* The user and the other threads.                                         *)

Type ==
  /\ stdin = "nothing"
  /\ stdin' = "chars"
  /\ UNCHANGED <<program, state, mutex, main, reader, handler, eof, ended, interrupted>>

CtrlD ==
  /\ stdin # "eof"
  /\ stdin' = "eof"
  /\ UNCHANGED <<program, state, mutex, main, reader, handler, eof, ended, interrupted>>

\* Before there is a handler, Ctrl-C ends the process, and nothing follows.
CtrlC ==
  /\ handler
  /\ state' = "exiting"
  /\ interrupted' = TRUE
  /\ UNCHANGED <<program, mutex, main, reader, handler, stdin, eof, ended>>

\* signal_graceful_shutdown, which does not take the mutex.
EndThread(t) ==
  /\ t \notin ended
  /\ ended' = ended \cup {t}
  /\ state' = "exiting"
  /\ UNCHANGED <<program, mutex, main, reader, handler, stdin, eof, interrupted>>

-----------------------------------------------------------------------------
Main == Lock \/ InstallHandler \/ StoreSet \/ Test \/ Wake \/ Join
Reader == Check \/ Poll \/ ReadChars \/ ReadEof \/ Stop
Environment == Type \/ CtrlD \/ CtrlC \/ \E t \in Thread : EndThread(t)

Next == Main \/ Reader \/ Environment

Spec == Init /\ [][Next]_vars

\* Threads run.  The main thread holds the mutex again and again, but lets go
\* of it for up to 10 ms each time, in which the reader gets it.
FairSpec ==
  /\ Spec
  /\ WF_vars(Main)
  /\ WF_vars(Poll \/ ReadChars \/ ReadEof)
  /\ SF_vars(Check \/ Stop)

-----------------------------------------------------------------------------
(* Properties.                                                             *)

(* Nobody stops waiting unless somebody asked for it: Ctrl-C, the end of   *)
(* the input, or a thread that ended.                                      *)
StopsWhenAsked ==
  main \in {"joining", "returned"} => interrupted \/ stdin = "eof" \/ ended # {}

(* Ctrl-D stops the process at any time, even when the store of the state  *)
(* is overwritten while the handler is being installed.                    *)
CtrlDStops == stdin = "eof" ~> main = "returned"

(* Once main waits, whoever signals the shutdown makes it return.          *)
SignalStops ==
  state = "exiting" /\ main \notin {"start", "installing", "storing"} ~>
    main = "returned"

(* All that can keep the process from returning is the thread that main    *)
(* joins in the server, when something has been typed.                     *)
SignalStopsUnlessReading ==
  state = "exiting" /\ main \notin {"start", "installing", "storing"} ~>
    main = "returned" \/ (program = "server" /\ main = "joining" /\ reader = "reading")
=============================================================================
