# A verification of udpfeed in TLA+

udpfeed is a small social network over UDP: clients connect to a server under a
profile name, follow each other and send notifications, which the server queues
and delivers to the followers. This directory holds TLA+ models of its parts,
TLC configurations that check them on small instances, and TLAPS proofs of what
matters most for every instance. All paths below are relative to the
repository's `src/`.

`tlc -config X.cfg M` runs a check of module `M`; `tlapm M_proofs.tla` checks
the proofs. `PROJECT.json` lists, for each definition, the lines of code it
stands for; for each hazard, the properties that would notice it; and for each
property, a *mutant*: an operator `Mutant...` that stands in the module just
above the definition it would replace, is no part of the specification, and
with which TLC refutes the property.

## 1. Inventory: the parts of the system

| Part | Source | State it keeps | Operations | Modelled |
|---|---|---|---|---|
| Profile table | `server/data.*` | profiles, followers, sessions, stored and queued notifications; `dirty`, `active`; a file | connect, disconnect, follow, notify, consume_one_notif, shutdown, persist_on_dirty, load | yes, with the text of its file |
| Profile manager | `server/prof_manager.*` | none of its own | one thread serves requests; one saves the table; a guard calls `shutdown` | yes |
| Notification manager | `server/notif_manager.*` | the name it has taken, what it has consumed | receive a wake-up, consume, pass on | yes |
| Communication manager | `server/comm_manager.*` | the call it waits for | one thread delivers and waits for each response, one feeds the profile manager | yes |
| Server main | `server/main.cpp` | the three channels, the socket | load, start, wait, disconnect everything in order, join | yes |
| Reliable socket | `shared/socket.*` | connections: pending requests, received numbers, cached responses, counters | send_req, receive_req, send_resp, disconnect; threads input, handler, bumper | all but the raw UDP class and an unused counter |
| Sequence number set | `shared/seqn_set.*` | a map of ranges | add, remove, contains, missing_below | yes |
| Graceful shutdown | `shared/shutdown.*` | an atomic state, a mutex, a condition variable, a SIGINT handler | wait_for_graceful_shutdown, signal_graceful_shutdown | yes |
| Channel | `shared/channel.*` | a queue, counts of senders and receivers | send, receive, disconnect, copy and move of the ends | yes |
| Thread tracker | `shared/tracker.*` | a map of running threads, a joiner thread | spawn, finish, join_all | as the two programs use it |
| Client session manager | `client/session_manager.*`, `client/main.cpp`, `client/data.*` | the session with the server | connect, command loop, receive loop, disconnect guards | yes |
| Client interface | `client/interface.*` | none | read commands, print notices | its threads, not its texts |
| Messages | `shared/message.*` | a process-wide number counter | fill_req; codes of types and errors; serialize, deserialize | the counter, and the messages the two programs exchange |
| Serialization | `shared/serialization.*` | none | write and read strings, numbers, maps | what the file and the messages use |
| Value types | `shared/address.*`, `username.*`, `notif_message.*`, `string_ext.*` | none | parse and print | how names and notification texts are written and read |
| Cooldowns | `shared/cooldown.*` | counters | tick | no; no other file uses it |
| Server coordination | `server/coordination.*`, `shared/rms.*` | the group of servers and its primary | connect, add, remove | no; unfinished code that nothing uses |
| Log, time, input | `shared/log.*`, `time.*`, `input.h` | none | output and clocks | no |
| Client socket wrapper | `client/socket.*` | none | none implemented | no |

How they interact. A datagram reaches the socket's `input` thread, its handler
takes it under `net_control_mutex`, and a new request goes through a channel to
the communication manager, through another to the profile manager, which calls
the profile table (one mutex, `data_control_mutex`) and responds through the
socket. `notify` queues a notification for each follower and sends each one's
name through a third channel to the notification manager, which consumes one
queued notification per name and hands a request per session to the
communication manager, which sends it to the client. A separate thread saves
the table whenever it is dirty. Every thread but this one, and but the client's
output thread, calls `signal_graceful_shutdown` when it ends; the main thread
waits for that, for Ctrl-C or for the end of the input, and then disconnects the
channels and the socket one after another.

What is hard here, and what makes each part correct:

- *Profile table*: saving releases the mutex before it writes, the file is
  empty for a while, a write may fail, the process may crash anywhere. No change
  may be forgotten; the file may never be ahead of memory. Notifications are
  kept in two places (stored with a count, queued by id) and a third, the
  channel of wake-ups, must agree with both, also when it is closed in the
  middle of a `notify`.
- *Reliable socket*: three threads and the application, over a network that
  loses, duplicates and reorders. Each request reaches the application at most
  once per connection; each call ends, once, with its own response or with a
  `MissedResponse`; silence ends connections. Both sides number their requests
  independently, and a socket makes up DISCONNECT requests for silent peers.
- *Shutdown*: an atomic written without the mutex, a thread that blocks on its
  input and is joined, a signal handler.
- *Sequence number set*: merging and splitting blocks at their edges.
- *Channel*: ends are counted in and out one at a time while they are copied,
  moved and assigned; a count that is wrong, or a notification that is lost, is a
  thread that sleeps for ever.
- *Server and client processes*: each thread ends when a channel or the socket
  is cut, and cuts others when it ends. Whatever the order, every thread must
  end, be joined once, and leave no promise behind: an answer to a client, a
  notification that was acknowledged, a DISCONNECT for the server.
- *Texts*: what is written must be read back as it was, whatever the user typed
  into it, and a file that is not whole must not load as another table.

`PROJECT.json`, "hazards", gives all of these with their lines.

## 2. Modules

| Module | Models | Uses |
|---|---|---|
| `ServerProfileTable` | the table, its saving thread, crashes and restarts | |
| `Plaintext` | the serializer and the deserializer | |
| `TableText` | the text of the file | `ServerProfileTable`, `Plaintext` |
| `MCServerProfileTable` | symmetry, and next-state relations without the file | `TableText` |
| `ThreadTracker` | the tracker of either process | |
| `ServerProcess` | the server: its managers, channels and main thread | `ServerProfileTable`, `ThreadTracker` |
| `MessageText` | the text of messages | `ServerProcess`, `TableText` |
| `MCServerProcess` | the scripts of the clients | `MessageText` |
| `ClientProcess` | the client: interface, session manager, main thread | `ThreadTracker` |
| `Channel` | the ends of channels, their counts, and waiting in `receive` | |
| `SeqnSet` | the map of ranges | `NumberSet` (refined) |
| `NumberSet` | abstract: a set of numbers and what its operations answer | |
| `Shutdown` | waiting for the end of a process, server and client | |
| `SocketTimers` | the counters that `bump` advances, as operators | |
| `RequestTimer` | one pending request against what the configuration reports | `SocketTimers` |
| `ReliableSocket` | sockets, the network, what the application calls | `SocketTimers`, `Calls` (refined) |
| `Calls` | abstract: calls that end once, with a reply given to them or not at all | |
| `MCReliableSocket` | the scripts of the users | `ReliableSocket` |

`..._proofs` holds the theorems about the module it is named for:
`ServerProfileTable_proofs`, `ServerProcess_proofs`, `ClientProcess_proofs`,
`Channel_proofs`, `SeqnSet_proofs`, `Shutdown_proofs`, `ReliableSocket_proofs`,
`RequestTimer_proofs`. The theorems about a text stand with the program that
writes it: the file's in the first of these, the datagrams' in the second.

The models are layered as the code is. `ServerProcess` and `ClientProcess` use
the socket as `Calls` promises it (a call ends with its response, or with one
to another request, or is missed), channels as `Channel` justifies it (a queue
that hands out what it holds and then reports that it was cut), and the end of
the wait as `Shutdown` has it. What `ServerProcess` does to the table are the
actions of `ServerProfileTable` themselves.

### ServerProfileTable, TableText

One action per operation of the class, since each holds `data_control_mutex`
from end to end, except `persist_on_dirty`, which is three: `PersistSnapshot`
(with the mutex: wait, clear `dirty`, serialize), `PersistTruncate` (opening
the file empties it) and `PersistWrite` (which may fail; the failure is only
logged). `PersistCannotOpen` stands for the last two when the file cannot be
opened: it stays as it was. `Restart` is a crash at any point, or a regular end, followed by
`load`. Refused requests change nothing and are no actions. The code keeps the
sessions of a profile and the profile of a session in two maps and so does the
model, because they disagree: an address that connects again over its own
session under another name is listed under both profiles, as `map::insert`
does not overwrite.

`notify` first stores the notification with the number of followers, then goes
through them. `Notify` is the whole loop; `NotifyInterrupted` is the loop that
finds the channel of wake-ups disconnected at some follower, throws, and ends
the profile manager, whose guard calls `shutdown`. The channel may be
disconnected only after the one to the communication manager
(`server/main.cpp`), hence `deliveries_open`. The channel of wake-ups is a bag:
it is a queue in the code, and no property depends on the order in which
different names are woken.

Timestamps and message texts are left out; a notification is its sender and
its id. `save_failed` is history: the last write of this process has failed.

`file` is a table, or `Unreadable`. That a write which breaks off leaves one
of these two, and never a smaller table, is what `TornFileRefused` says of the
text that `TableText` writes and reads, character by character, as `Plaintext`
serializes: strings with their escapes and their terminator, numbers in decimal
digits. A name is "@" and one more character, which stands for the rest of it;
`created_at` is 0. The readers are recursive functions on positions of the text,
not recursive operators, so that they can be proved about.

### ServerProcess, MessageText

Five threads and the main thread. A thread takes a message from its channel in
the step that uses it, or leaves it at the head while it works on it, and
signals the end of the process in the step that ends it: no other thread can
tell. Steps that others see in between are actions of their own: the profile
manager serves a request (`ServeReq`) and answers it (`Answer`), since its
client may fall silent meanwhile; the notification manager receives a wake-up,
consumes, and passes the requests on one at a time; the communication manager
sends a request and waits for its call, which ends with a response or is missed
with the connection. The main thread cuts the two channels to the managers,
then the wake-ups, then the socket, then joins.

A client is a script: it sends its next request when the previous one was
answered. The clients of `Lossy` have a network that is slow and loses what they
send. `GiveUpClient` is the bumper that has not heard of such a client: its
connection goes, and a DISCONNECT is made up for it (`made_up`; the response to
one ends no waiting). `StrayDisconnect` is a DISCONNECT response, which takes the
connection along whatever its number (`shared/socket.cpp:565-567`). `LateRequest` is
a request, new or repeated, that the handler takes after `disconnect()`: a CONN makes
a connection before the push to the channel that was cut ends the handler
(`shared/socket.cpp:489-497`, 938-945; `handler_ended`). `connected` are the
addresses the socket has a connection to; `send_resp` makes one where there is
none (`shared/socket.cpp:393`). `attempted` is history: what was sent to an
address, in order.

That main leaves its wait once it is asked to is not taken for granted: `StopWaiting`
is possible when `asked`, and no fairness drives it, since `Shutdown` shows
that typed input can keep a server in its wait. `ServerEnds` therefore starts where
main has left the wait, and `Shutdown`'s properties say when it does. No store
of `shared/shutdown.cpp:72` can overwrite a thread's signal in the server: none of its
threads ends before main has cut a channel, and the reader of standard input stores
under the mutex. A Ctrl-C may be overwritten, which is the same as none.

The saving thread is reduced to its end here: its steps are in
`ServerProfileTable`, and the two share nothing but the table.

`MessageText` writes and reads each message of the state with the codes of its
enumerations; `DatagramsReadBack` adds the response to each, every error, and
every text of a notification in `NotifMessages`, over any set of characters
(`Character`); the run's are made of a letter, the terminator and the escape.
The number of a message is 30, the timestamp and the election counter 0: what
is proved about numbers holds for all of them.

### ClientProcess, ThreadTracker

The interface's two threads, the session manager's two, and the main thread. The
session thread logs in, takes commands one at a time, and leaves through two
guards, the second of which says goodbye and waits for the response. The
receiver answers notifications and the server's DISCONNECT. An exception that
leaves a thread or a destructor ends the process (`Terminate`).

A command is a count, a notice is the number of a notification or an error:
which command it was makes no difference to the threads. The server may
answer, be silent, answer with an error, with a response to something else,
deliver, or leave, at any time.

Here a thread can end before main waits (the input at its end, a session that was
refused), and the wait's own store of `STATE_SET` may overwrite its signal
(`shared/shutdown.cpp:70-72`): `BeginWait` may lose `asked`. The end of standard
input is not lost with it, since the wait looks for that itself (`eof`).

`ThreadTracker` has the map of threads, the joiner and `join_all`, which is
called a second time by the destructor. A `std::thread` object has one owner;
the entry that was moved to the joiner stays in the map until its guard goes.

### Channel

Every method of `Inner` holds its mutex and is one action. A copy assignment
counts the old end out and the new one in under two locks, and is two actions
(`CopyAssign`, `CopyAssigned`); a move assignment between channels counts out,
one within a channel does not (`shared/channel.h:257`), which `leaked`
remembers. A thread in `receive` runs, sleeps in `cond_var.wait`, or is notified
and has not got the mutex yet. What the messages say, and the order of
`std::queue`, are left out.

### ReliableSocket, SocketTimers, RequestTimer, Calls

What runs under `net_control_mutex` is one action. What a thread does after it
released the mutex is another: the handler pushes the request it took
(`HandOver`), the bumper the DISCONNECT requests it made up (`PassFakeReq`),
and `disconnect` closes the channel before it takes the mutex (`CloseChannel`,
`ClearConnections`). `disconnect_timeout` only waits before that, and
`CloseChannel` may happen at any time. The network is the set of all datagrams
ever sent; handling does not remove, so each may be handled any number of
times, in any order, or never. A datagram that waits between `input` and
`handler` is one that has not been handled yet.

Responses are cached under the number of the request. The comparison that
should evict the oldest (`shared/socket.cpp:396`) is inverted: the queue is
taken to be too long when it is short, and `front()` of an empty queue is
undefined, so `Serve` may erase any one of the cached responses, or none.

`send_resp` sends whatever body the application gives it. The profile manager
answers a request with its own type, or with an error (`server/prof_manager.cpp:163-167`):
`Answers`. `Refusable` are the types that an application of this instance refuses.

`SocketTimers` has the counters of a pending request and of a connection as
`bump` advances them. `ping_due` compares the result of a comparison with 0
(`shared/socket.cpp:621`), so that pings go out before `ping_start` and not
after; the operator does what the code does, modulo `Word` = 2^64.

Sequence numbers are drawn from one counter per process, up to `MaxSeqn`, which
stands for all later ones. `handed_over` is history: the requests of this
connection that the handler took for the application.

`Calls` is what the users are promised. Its `replies` are the responses on the
network of the detailed model; `CallsImplemented` is the refinement. The promise
is weaker than one would like in one place: a DISCONNECT may end a call that it
does not answer (see section 6). Any call but a DISCONNECT may be refused with an
ERROR.

### SeqnSet, NumberSet

The C++ map from the end of a block to its start is a function; an iterator or
optional of the code is a set of at most one key. Every operation's answer is
part of the state, so that the refinement covers it.

### Shutdown

The main thread, the thread that reads the input (the server's, started by the
wait; or the client's interface), the handler and the threads that end, step by
step between the atomic accesses. `program` says which of the two executables it
is. `Type` and `CtrlD` are the terminal.

## 3. Runs

| Run | Instance | What it shows |
|---|---|---|
| `table_file` | 2 names, 2 addresses, 1 session per profile, no notifications, 46k states | sessions agree with profiles and their limit; followers exist; the file is never ahead of the table, also after a crash; a graceful end has saved everything; every change gets saved; no part of the text of a table loads as another table |
| `table_notif` | 3 names, 2 addresses, 1 notification each, 720k states up to symmetry | counts, queues and wake-ups agree |
| `server` | 2 names, 2 addresses, a client that notifies twice, one that follows, one of which may fall silent, late or lost, 160k states | every thread ends and is joined once; requests are answered; notifications are drained, and sent in order; messages are read as they were written |
| `client` | 1 command, 2 notifications, 634k states | main returns once it is to leave its wait, but for the named cases; an exception ends the client in two cases only; the server is told; what was acknowledged is shown |
| `channel` | 2 senders, 2 receivers, 1 `Inner`, 60k states | the counts are those of the ends; nobody sleeps through a wake-up; a receiver is freed when the last sender goes |
| `seqn_set` | numbers 0..8, 1,024 states | blocks stay apart and merged, `missing_below` is exact, a set is implemented |
| `shutdown` | both programs, 2 other threads, 1.5k states | nobody stops unasked; Ctrl-D always works; a signalled shutdown completes unless the server's reader blocks |
| `shutdown_blocked` | the server | **violation**: section 6 |
| `request_timer` | 8 attempts, growth 11/16, silence limit 20 | a request is given up when the reported minimum timeout says, after all its sends |
| `socket_calls` | client CONN, server DATA, same numbers, 598k states | a call waits exactly while its request is pending; at most one hand-over; the promise `Calls` |
| `socket_silence` | client CONN, pings on, 43k states | no connection outlives silence |
| `socket_live` | client CONN, the server may disconnect at any time, 106k states | each call ends |

Bounds, and why they are enough:

- Three names make two followers of one sender, the least for a `pending_count`
  that is not 0 or 1 and for a `notify` that is cut short in the middle. A limit
  of one session with two addresses is the least that refuses a session; the
  code's is 2 (the proofs are for any). `MaxNotifs` bounds ids only.
- The file holds names and followers; two of each meet every interleaving of a
  request with the three steps of a save, since requests touch the saved data
  one element at a time. `table_file` has `MaxNotifs` = 0, since notifications
  are not saved.
- In `server`, two notifications of one sender are the least for an order, and
  `MaxSilences` = 1 lets a client fall silent at any point: before it is
  served, between service and answer, with a notification on its way, or while
  the server shuts down, and so do late requests and DISCONNECT responses. They
  come from one of the two clients (`Lossy`), the follower, whom the communication
  manager waits for; the other's only delay what the proofs cover anyway. The
  signal, or Ctrl-C, may come at any point of the wait.
- In `client`, one command is enough for a call that the end of the process
  finds under way, and for a line that is being typed while the channel is cut;
  two notifications are the least for one that is shown while the next waits.
- In `channel`, two senders and two receivers copy, move and assign to each
  other, and one `Inner` is assigned to itself; ends of different channels only
  differ by `MoveAssignAcross`, which takes a null end as well. `MaxMessages` = 2
  is one for each receiver; `MaxLeaks` bounds the ends that are lost.
- With `Last` = 8, up to five blocks fit, with gaps of one or more between them and
  at both ends; the proof is for any `Last`.
- In `socket_live`, one attempt and a silence limit of two bumps let a request be
  sent, resent and given up, alone or with its connection, before or after the peer
  gives up its own. `MaxQueue` bounds how far the application may lag behind.
  `Word` = 256 keeps the wrap-around of the ping test away from the values that
  are not meant to wrap.
- In `socket_calls` the CONN may be refused (`Refusable`); the other two runs are
  about calls that nobody need answer: what an answer says makes no difference to
  them. Its silence limit is one bump, as a second one multiplies the states
  beyond what is practical: a request is resent, and given up without its
  connection, where something else was heard of the peer meanwhile. Nobody
  calls `disconnect()` there; the proofs cover that.
- `MCReliableSocket`'s scripts are the shortest that show each situation; a
  third request multiplies the states beyond what is practical. The proofs about
  the socket are for any scripts.
- Texts: the notification texts contain the terminator and the escape alone,
  together, first and last; names have one free character (see section 2). The
  proofs are for any texts, names and tables.

Deadlock is checked where the system should never stop. `CHECK_DEADLOCK FALSE`
stands where it may: a process that has returned or was ended (`Shutdown`,
`ClientProcess`, `ServerProcess`), a request that was given up (`RequestTimer`), the
notification run without restarts once all channels are disconnected, channels
whose ends are gone or asleep (`Channel`), and a server after `disconnect`
(`SocketLive`).

## 4. Fairness

- `ServerProfileTable`: the notification manager and the persister are threads
  that run whenever their channel or condition variable lets them (weak
  fairness of each). No client must do anything, no restart must happen.
- `ServerProcess`: each of its threads runs (weak fairness), except that main
  need not leave its wait (`MainGoesOn` has all of its other steps). While the socket is
  not disconnected its bumper ends each call, which is `CallsComplete` of
  `ReliableSocket`; afterwards nothing does. No client must send or answer,
  and nothing that is late must arrive.
- `ClientProcess`: the same for its threads and for the bumper of its socket, and
  for main's wait: no thread of the wait itself reads the client's input, and it
  looks at the state every 10 ms (`StopsWhenAsked`, `SignalStopsUnlessReading`). The
  input thread must go on only once its channel was cut, or it has a line to send:
  the user need not type.
- `Channel`: a thread that was notified gets the mutex. Nobody must send, copy or
  destroy.
- `Shutdown`: threads run. The main thread holds the mutex again and again but
  lets go of it for up to 10 ms each time (`wait_for`), in which the reader
  gets it: strong fairness of the reader's two steps that need the mutex, weak
  fairness of all others. Nothing is assumed of the user.
- `ReliableSocket`: the bumper runs every `bump_interval_nanos`; a thread inside
  `disconnect` finishes it; the handler passes on what it has taken. Nothing is
  assumed of the network or of the application, so `CallsComplete` and
  `SilenceEnds` hold although everything may be lost.

`SocketSilence` has no `disconnect()`, so bumpers stay alive. In `SocketLive`
only the server calls it, and it has no calls of its own; see section 6 for calls
made after `disconnect()`.

## 5. Proofs

All theorems hold for any finite sets of names and addresses (or nodes, ends,
threads) and any bounds. What they assume of the constants is stated, by name,
in the modules that declare them: finite sets, `NoUser` is no name, `Unreadable`
no table, the limit is positive, and the like.

`ServerProfileTable_proofs`:

- `TypeOK`.
- `GracefulSave`, from the inductive `SaveInv`: whenever the persister waits and
  `dirty` is clear, the file is the table (or the last write failed); between the
  snapshot and the write, if `dirty` is clear, the snapshot is the table; once
  `active` was seen false, nothing is dirty any more. `GracefulSave` alone says
  nothing of the steps before the last, hence the strengthening.
- `SessionsConsistent`, `FollowersKnown` and `FileBehindMemory`, from
  `TableInv`: memory, the snapshot and what the file loads to are all well
  formed, and the latter two are not ahead of the first. `FollowersKnown` is not
  inductive by itself: a restart takes the followers from the file, so the
  file, and the snapshot on its way there, must have it too; and a follower is
  a profile because a session is one (`SessionsConsistent`).
- `WakeupPerNotif`, which is inductive.
- `QueueInOrder`, from `QueueInv`: ids in queues do not exceed their sender's
  counter, so a new one goes behind all earlier ones.
- `PendingCountExact`, from `CountInv`, its form for every id, together with
  `QueueInv`: since an id never repeats in a queue and a new id is in none,
  taking the head of a queue takes exactly that queue from the set that is
  counted.
- `TornFileRefused`. Two facts are proved of every reader, from strings over
  numbers, names and sets of names to profiles and the table. *ReadBack*: at the
  position where something was written, it is read as it was and the reader
  stops behind it. *ReadAlike*: of a text that breaks off, the reader makes an
  error, or exactly what it makes of the whole text, never having looked behind
  the end. A part of the table's text that is read at all is therefore read as
  the whole table, whose reader stops at its last terminator, so that the part
  must reach that far. The table must be well formed (`TableInv`): `load` keeps no
  followers of a name that is not a profile.

`ServerProcess_proofs`:

- `TableImplemented`: every behaviour of the server is one of
  `ServerProfileTable`, since each of its steps is one of the table's or leaves
  the table alone. The invariant `RequestsInv` (what is in the channels was
  sent by a script or made up by the bumper) is needed to know that the table is
  called with names and addresses. So every invariant of the table is one of the
  server (`ServerQueueInOrderCorrect`, `ServerTableCorrect`).
- `JoinedOnce`, from `TrackerInv`: until `join_all` the map has exactly the threads
  that run, after it what is left was moved and is with the joiner.
- `ServerTypeOK`. Its hard part is that a call which is waited for is at the head
  of the channel and on a connection that exists: whatever removes connections
  ends the call.
- `SentInOrder`, for scripts in which no client connects under two names
  (`OneName`). A notification on its way to a client is in one of four places:
  the follower's queue, the hand of the notification manager, the channel to the
  communication manager, or sent. `Ordered` says that the last three are in order,
  each ahead of the one before it, and that the hand holds one notification per
  address. `Ahead` says that whatever has left the queue of the name that a client
  may use is older than all that is in it, and than the next number of its
  sender; with `QueueInOrder`, what is consumed next is newer. Without `OneName`
  a client is fed from two queues and this fails: see section 6.
- `DatagramsReadBack`, for any names, characters and texts of notifications:
  `MessageReadBack` shows for every message that both sides know (`IsMessage`),
  with any number, that reading undoes writing, field by field, with the *ReadBack*
  facts above; `InTransitSendable` that whatever travels in a well-typed state is
  such a message.

`ClientProcess_proofs`:

- `TypeOK`, with what the threads know between two steps (`TypeInv`): a thread
  that waits for a call has made one, the request being answered is still at
  the head of the channel.
- `TerminatedCause`, from `ThreadsInv`, the tracker's invariant as in the server:
  no end of a thread and no destructor finds an object it should not.
- `GoodbyeSent`, from `GoodbyeInv`: an accepted session keeps its connection until
  it is lost or a DISCONNECT was sent on it, and the session thread, the only one
  that has sessions accepted, does not end before that.
- `AckedIsShown`, from `AckInv`: what was answered, or is about to be, has been
  printed or waits for the output thread, which ends only when its channel is
  cut and empty; and nothing is sent on a channel that is cut.

`Channel_proofs`: `TypeOK`; `CountsExact`, for senders and receivers apart, by
counting how each operation changes the set of ends that point to an `Inner`; and
`NoLostWakeup`.

`SeqnSet_proofs`, for any `Last`: `TypeOK`; `BlocksApart`, inductive with the type
(a new block merges with both neighbours or keeps a gap to each; a split leaves
a gap of one); `SetImplemented`, the refinement of `NumberSet` with
`elements <- Covered`: the block found by `lower_bound` is the one that contains
the number if any does, because blocks are apart; and `MissingExact`: the block
that ends the gap above a missing number is the least one above it, which exists
because numbers are well-ordered.

`Shutdown_proofs`: `TypeOK`, and `StopsWhenAsked` from `StopInv`: the state, the
main thread and the reader only move on for a reason that stays true.

`ReliableSocket_proofs`, from `SocketInv`, the conjunction of

- `CallsInv`: the record of the calls made is well formed and only grows;
- `NetworkInv`, `QueuesInv`: every datagram, cached response and received
  request stems from a call on record, except for DISCONNECT requests that
  were made up;
- `ConnectionsInv`, `FlagsInv`: what connections hold, and when;
- `WaitInv`: who waits, waits for a request of his own that is pending;

proves `TypeOK`, `WaitingIsPending`, `AtMostOnce` (a request that was handed over
is in the connection's set of received numbers, which no eviction touches) and
`CallsImplemented`, the refinement of `Calls`, action by action.

`RequestTimer_proofs`, for any number of attempts, any growth of the cooldown and
any limit of silence: `ExpiresOnTime`, from `TimerInv`, which says how old a
request is from its two counters, by the sum of the cooldowns so far, and that it
was sent once for each attempt. The closed formula of
`min_response_timeout_ns` and the nested counters of `bump` agree because both
are `TotalCooldown`. `ShiftAssumption` excludes the configurations in which
`1 << (i * numer / denom)` does not fit an `int`, which is undefined.

Induction over data: the library's induction theorems take an operator as a
parameter, which the installed provers cannot instantiate. What is needed of
them follows from `WFMin` (every set of numbers has a least one) for sets
instead: `SetInduction` in `RequestTimer_proofs` and `ServerProfileTable_proofs`.
A recursive function is shown to exist by induction on its domain, and then to
satisfy its equation, before anything is proved of its values (`ReaderExists` and
`ReadStringStep`, for one).

Only model-checked: liveness (`EventuallySaved`, `ServerEnds`, `RequestAnswered`,
`NotifsDrain`, `ClientEnds`, `ReceiverFreed`, `CallsComplete`, `SilenceEnds`,
`CtrlDStops`, `SignalStopsUnlessReading`), which these provers do not do under
fairness. Every invariant, every action property and both refinements that a run
checks are proved.

## 6. Where code and documents disagree

One run ends in a violation of what the repository says:

- `shutdown_blocked`: the server prints "Press Ctrl-C or Ctrl-D to shutdown"
  (`src/server/main.cpp:93`). Once anything has been typed, the thread that
  watches the input blocks in `cin.ignore` until the end of the input
  (`src/shared/shutdown.cpp:52`), and after a Ctrl-C the main thread joins it.

Met while modelling, without a run of their own. Where a property has an exception
for one of these, its comment names it.

- A response or a CONN that is sent, and a CONN that arrives, after `disconnect()`
  makes a connection (`shared/socket.cpp:393`, 489-497) that no bumper looks after: a call made on it later
  waits for ever, and `join_all` with it (`Stranded` in both processes).
- The client's input thread looks at its channel, reads a line, and then sends
  on a channel that may have been cut meanwhile, outside of any handler
  (`client/interface.cpp:47`): `std::terminate`.
- A DISCONNECT that `bump` makes up for a silent peer has a number of this
  process; the application's response goes to the peer and is matched there by
  number alone (`shared/socket.cpp:556`), and may end another call with a
  response of the wrong type, which the client casts outside of any handler
  (the server logs it).
- An address that connects over its own session under another name is listed
  under both profiles, is sent what either of them follows, and keeps a slot of
  the second for good.
- `disconnect_timeout` or not, a call after `disconnect()` has no bumper, so that a
  lost datagram leaves its caller waiting.
- A request is given up with its connection after `max_disconnect_count` silent
  bumps, long before the "minimum timeout for responses" that `report` prints.
- A DISCONNECT response erases a connection without a word to the application,
  which keeps the session.
- An exit signalled between the test of the state and the store of `STATE_SET` is
  overwritten (the properties of `Shutdown` start after that store, except
  `CtrlDStops`, which needs no such exception, and so does `ClientEnds`, except for
  the end of the input).
- A channel's move assignment within one channel leaves the old end counted, and
  copies made after `disconnect()` are counted again.
- `MSG_BAD`, with which the client would answer requests it does not serve
  (`client/session_manager.cpp:183`), has no case in `msg_error_from_code`
  (`shared/message.cpp:119`), so its receiver could not read it. The server sends
  no such request.

## 7. Not modelled, and what is left

- `shared/cooldown.*`: no other file uses it; the socket has counters of its own.
- `server/coordination.*` and `shared/rms.*`: unfinished; no program and no test
  uses them (`server/main.cpp` includes the header only). The messages that only
  they would send are left out of `MessageText` for the same reason.
- `client/socket.*`: declarations without an implementation or a user.
- Logging, clocks, command lines, the layout of what is printed, which characters
  a name may have, and the parsing of what a user types: no state and no protocol.
- The raw `Socket` class is the network of `ReliableSocket`. The election counter of
  the socket is stored and read back but nothing depends on it.
- The ranges of integers in a text, and the containers that neither the file nor a
  message holds.
- In `ThreadTracker`, threads that are spawned after the others have started: neither
  program does it.

What could follow: a larger network in `socket_live` with calls on both sides; the
socket of `ServerProcess` taken apart into `ReliableSocket` itself, which is beyond
what can be enumerated but not beyond proof; the coordination of servers, once a
program uses it.
