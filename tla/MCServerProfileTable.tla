------------------------ MODULE MCServerProfileTable ------------------------
(***************************************************************************)
(* ServerProfileTable for TLC: symmetric names and addresses, and the      *)
(* next-state relations of the runs that leave the file or the             *)
(* notifications aside.                                                    *)
(***************************************************************************)
EXTENDS TableText, TLC

Symmetry == Permutations(Username) \cup Permutations(Address)

\* Everything but saving and restarting.
NotifNext ==
  \/ Request
  \/ Shutdown
  \/ DisconnectDeliveries
  \/ DisconnectWakeups
  \/ NotifManager

NotifSpec == Init /\ [][NotifNext]_vars
=============================================================================
