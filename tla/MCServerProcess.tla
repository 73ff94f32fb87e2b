--------------------------- MODULE MCServerProcess ---------------------------
(***************************************************************************)
(* ServerProcess for TLC: one client sends two notifications, the other    *)
(* follows it; what the bumper makes up for a silent one makes it leave.   *)
(***************************************************************************)
EXTENDS MessageText

CONSTANTS u1, u2, a1, a2

Conn(u) == [type |-> "CLIENT_CONN", username |-> u]
FollowOf(u) == [type |-> "FOLLOW", username |-> u]
NotifyAll == [type |-> "NOTIFY", username |-> NoUser]

SenderAndFollower ==
  [a \in Address |-> IF a = a1 THEN <<Conn(u1), NotifyAll, NotifyAll>>
                               ELSE <<Conn(u2), FollowOf(u1)>>]

\* One text of every kind that the escapes treat differently.
Characters == {"a", ";", "\\"}
EscapedTexts == {<<"a">>, <<";">>, <<"\\">>, <<"\\", ";">>, <<";", "a">>, <<"a", "\\">>}
=============================================================================
