-------------------------- MODULE MCReliableSocket --------------------------
(***************************************************************************)
(* ReliableSocket for TLC: one client and one server, and what their users *)
(* send.  Each run takes the shortest script that shows what it is about.  *)
(***************************************************************************)
EXTENDS ReliableSocket, TLC

CONSTANTS client, server

ConnOnly == (client :> <<"CONN">>) @@ (server :> <<>>)
BothSides == (client :> <<"CONN">>) @@ (server :> <<"DATA">>)
=============================================================================
