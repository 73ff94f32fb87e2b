----------------------------- MODULE MessageText -----------------------------
(***************************************************************************)
(* The text of a datagram (shared/message.cpp): what Message::serialize    *)
(* writes of the messages that the server and its clients exchange, and    *)
(* what Message::deserialize makes of it.  A body is the record of its     *)
(* fields.                                                                 *)
(***************************************************************************)
EXTENDS ServerProcess, TableText

CONSTANTS Character,      \* of which the texts of notifications are made
          NotifMessages   \* the texts that are sent; NotifMessage refuses an empty one

ASSUME NotifAssumption == NotifMessages \subseteq Seq(Character) \ {<<>>}

\* The enumerations; a code is a position, counted from 0.
Steps == <<"REQ", "RESP", "ACK">>
Types == <<"NOP", "ERROR", "CLIENT_CONN", "SERVER_CONN", "DISCONNECT", "PING", "FOLLOW",
           "NOTIFY", "DELIVER", "RM_LOOKUP">>
Errors == <<"INTERNAL_ERR", "BAD", "MISSED_RESP", "NO_CONNECTION", "OUTDATED_SEQN",
            "UNKNOWN_USERNAME", "TOO_MANY_SESSIONS", "CANNOT_FOLLOW_SELF">>

WriteCode(names, name) == WriteInt((CHOOSE i \in DOMAIN names : names[i] = name) - 1)

\* The codes that msg_step_from_code and its like know.
KnownSteps == {"REQ", "RESP"}
KnownTypes == {"ERROR", "CLIENT_CONN", "DISCONNECT", "PING", "FOLLOW", "NOTIFY", "DELIVER"}
KnownErrors == {"INTERNAL_ERR", "MISSED_RESP", "NO_CONNECTION", "OUTDATED_SEQN",
                "UNKNOWN_USERNAME", "TOO_MANY_SESSIONS", "CANNOT_FOLLOW_SELF"}

ReadCode(names, known, text, at) ==
  LET read == ReadInt(text, at)
      name == names[read.value + 1]
  IN IF read.error THEN Error
     ELSE IF read.value < Len(names) /\ name \in known THEN Got(name, read.next) ELSE Error

\* The fields of a body, in the order in which they are written.
ReqFields(type) ==
  CASE type \in {"CLIENT_CONN", "FOLLOW"} -> <<"username">>
    [] type = "NOTIFY" -> <<"notif_message">>
    [] type = "DELIVER" -> <<"username", "notif_message", "sent_at">>
    [] type \in {"DISCONNECT", "PING"} -> <<>>
RespFields(type) == IF type = "ERROR" THEN <<"error">> ELSE <<>>
Fields(step, type) == IF step = "REQ" THEN ReqFields(type) ELSE RespFields(type)

\* The pairs for which `deserialize' makes a body.
HasBody(step, type) == type \in KnownTypes /\ (step = "REQ" => type # "ERROR")

WriteField(field, value) ==
  CASE field = "username" -> WriteUsername(value)
    [] field = "notif_message" -> WriteString(value)
    [] field = "sent_at" -> WriteInt(value)
    [] field = "error" -> WriteCode(Errors, value)

MAGIC_NUMBER == 8969   \* the first digits of it

\* The magic number, the header (the number, a timestamp and the election
\* counter), the tag and the body.
WriteMessage(m) ==
  LET fields == Fields(m.step, m.type)
  IN WriteInt(MAGIC_NUMBER) \o WriteInt(m.seqn) \o WriteInt(0) \o WriteInt(0)
       \o WriteCode(Steps, m.step) \o WriteCode(Types, m.type)
       \o Concat([i \in 1..Len(fields) |-> WriteField(fields[i], m.body[fields[i]])])

-----------------------------------------------------------------------------
ReadField(field, text, at) ==
  CASE field = "username" -> ReadUsername(text, at)
    [] field = "notif_message" ->   \* NotifMessage's constructor refuses an empty one
         LET read == ReadString(text, at)
         IN IF read.error THEN Error ELSE IF read.value = <<>> THEN Error ELSE read
    [] field = "sent_at" -> ReadInt(text, at)
    [] field = "error" -> ReadCode(Errors, KnownErrors, text, at)

\* The body that has these fields.
ReadBody(fields, text, at) ==
  LET read[n \in 0..Len(fields)] ==
        IF n = 0 THEN Got(<<>>, at)
        ELSE LET body == read[n - 1]
                 field == ReadField(fields[n], text, body.next)
             IN IF body.error \/ field.error THEN Error
                ELSE Got([f \in DOMAIN body.value \cup {fields[n]} |->
                            IF f = fields[n] THEN field.value ELSE body.value[f]], field.next)
  IN read[Len(fields)]

ReadMessage(text) ==
  LET magic == ReadInt(text, 1)
      seqn == ReadInt(text, magic.next)
      timestamp == ReadInt(text, seqn.next)
      election == ReadInt(text, timestamp.next)
      step == ReadCode(Steps, KnownSteps, text, election.next)
      type == ReadCode(Types, KnownTypes, text, step.next)
      body == ReadBody(Fields(step.value, type.value), text, type.next)
      bad == \/ magic.error \/ magic.value # MAGIC_NUMBER
             \/ seqn.error \/ timestamp.error \/ election.error \/ step.error \/ type.error
             \/ ~HasBody(step.value, type.value) \/ body.error
  IN IF bad THEN Error
     ELSE [seqn |-> seqn.value, step |-> step.value, type |-> type.value, body |-> body.value]

-----------------------------------------------------------------------------
(* The messages that travel in a state of the server, with every text that *)
(* is sent.                                                                *)

Message(step, type, bodies) ==
  {[seqn |-> 30, step |-> step, type |-> type, body |-> b] : b \in bodies}

\* A request of a client, and what it may be answered with.
Requested(body) ==
  Message("REQ", body.type,
    CASE body.type \in {"CLIENT_CONN", "FOLLOW"} -> {[username |-> body.username]}
      [] body.type = "NOTIFY" -> {[notif_message |-> t] : t \in NotifMessages}
      [] body.type = "DISCONNECT" -> {<<>>})

Refusals(type) ==
  CASE type = "CLIENT_CONN" -> {"TOO_MANY_SESSIONS"}
    [] type = "FOLLOW" -> {"NO_CONNECTION", "UNKNOWN_USERNAME", "CANNOT_FOLLOW_SELF"}
    [] type = "NOTIFY" -> {"NO_CONNECTION"}
    [] type \in {"DISCONNECT", "DELIVER"} -> {}

Answers(type) ==
  Message("RESP", type, {<<>>})
    \cup Message("RESP", "ERROR", {[error |-> e] : e \in Refusals(type)})

\* A notification on its way to a client, with the name of its sender.
Delivered(sender) ==
  Message("REQ", "DELIVER",
    {[username |-> sender, notif_message |-> t, sent_at |-> 0] : t \in NotifMessages})

Arrives ==   \* what arrives of each message
  [m \in (UNION {Requested(b) \cup Answers(b.type) : b \in RequestBody})
           \cup (UNION {Delivered(u) : u \in Username}) \cup Answers("DELIVER")
     |-> ReadMessage(WriteMessage(m))]

InTransit ==
  (UNION {Requested(requests[i].body) : i \in DOMAIN requests})
    \cup (IF prof = "answering" THEN Answers(Head(comm_to_prof).body.type) ELSE {})
    \cup (IF comm_notif = "waiting"
            THEN Delivered(Head(notif_to_comm)[2]) \cup Answers("DELIVER") ELSE {})

(* Every request, response and notification that the server and its        *)
(* clients exchange is read as it was written: no text, whatever it        *)
(* contains, runs into the next field, and no code is unknown on the other *)
(* side.  (A message that cannot be read is dropped by the socket, resent  *)
(* in vain and given up.)                                                  *)
DatagramsReadBack == \A m \in InTransit : Arrives[m] = m
=============================================================================
