------------------------------ MODULE TableText ------------------------------
(***************************************************************************)
(* The text of the file that ServerProfileTable saves, and what `load'     *)
(* makes of as much of it as has reached the disk.  A name is "@" and one  *)
(* more character, which stands for the rest of it.                        *)
(***************************************************************************)
EXTENDS ServerProfileTable, Plaintext

\* What Username's constructor takes; nothing in it is ever escaped.
NameText(u) == <<"@", u>>
WriteUsername(u) == WriteString(NameText(u))
ReadUsername(text, at) ==
  LET read == ReadString(text, at)
      meant == IF read.error THEN {} ELSE {u \in Username : NameText(u) = read.value}
  IN IF meant = {} THEN Error ELSE Got(CHOOSE u \in meant : TRUE, read.next)

MutantWriteProfile(u, data) ==   \* leaves created_at out
  WriteUsername(u) \o WriteMany([f \in data.followers[u] |-> WriteUsername(f)])
\* The name, created_at and the followers.
WriteProfile(u, data) ==
  WriteUsername(u) \o WriteInt(0) \o WriteMany([f \in data.followers[u] |-> WriteUsername(f)])

\* The map writes each key before its profile, which has the name once more.
WriteTable(data) ==
  WriteMany([u \in data.profiles |-> WriteUsername(u) \o WriteProfile(u, data)])

-----------------------------------------------------------------------------
\* A set of `size' usernames.
ReadUsernames(size, text, at) ==
  LET read[n \in 0..size] ==
        IF n = 0 THEN Got({}, at)
        ELSE LET names == read[n - 1]
                 name == ReadUsername(text, names.next)
             IN IF names.error \/ name.error THEN Error
                ELSE Got(names.value \cup {name.value}, name.next)
  IN read[size]

\* The followers of the profile that starts here.
ReadProfile(text, at) ==
  LET name == ReadUsername(text, at)
      created_at == ReadInt(text, name.next)
      size == ReadInt(text, created_at.next)
  IN IF name.error \/ created_at.error \/ size.error
       THEN Error ELSE ReadUsernames(size.value, text, size.next)

\* The map's insert keeps the first of two profiles of one name.
Inserted(data, u, follows) ==
  IF u \in data.profiles THEN data
  ELSE [profiles |-> data.profiles \cup {u}, followers |-> [data.followers EXCEPT ![u] = follows]]

\* A map of `size' profiles.
ReadProfiles(size, text, at) ==
  LET read[n \in 0..size] ==
        IF n = 0 THEN Got(NothingSaved, at)
        ELSE LET table == read[n - 1]
                 key == ReadUsername(text, table.next)
                 profile == ReadProfile(text, key.next)
             IN IF table.error \/ key.error \/ profile.error THEN Error
                ELSE Got(Inserted(table.value, key.value, profile.value), profile.next)
  IN read[size]

\* `load': the map of profiles, and behind it nothing but white space.
ReadTable(text) ==
  LET size == ReadInt(text, 1)
      read == IF size.error THEN Error
              ELSE ReadProfiles(size.value, text, size.next)
  IN IF read.error \/ \E i \in read.next..Len(text) : text[i] # "\n"
       THEN Unreadable ELSE read.value

-----------------------------------------------------------------------------
(* However much of a table's text reaches the disk before the write fails  *)
(* or the process ends, the next `load' finds the whole table or refuses   *)
(* the file: never a table with fewer profiles or followers.  Only the     *)
(* last character, the end of the line, may be missing.  (So that `file'   *)
(* is the saved table or Unreadable, as ServerProfileTable has it.)        *)
TornFileRefused ==
  persister = "writing" =>
    LET text == WriteTable(snapshot) \o <<"\n">> IN
    \A written \in 0..Len(text) :
      ReadTable(SubSeq(text, 1, written)) =
        IF written >= Len(text) - 1 THEN snapshot ELSE Unreadable
=============================================================================
