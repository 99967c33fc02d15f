----------------------------- MODULE MCPressEVM -----------------------------
(***************************************************************************)
(* PressEVM for TLC.  MaxTaken bounds the transactions of one account at   *)
(* the first node when a new call starts, and so the number of calls that  *)
(* can build on each other.                                                *)
(***************************************************************************)
EXTENDS PressEVM

CONSTANT MaxTaken

\* A negative size, nothing to send, fewer and more transactions than nodes.
MCCounts == {-1, 0, 1, 4}

MCNext ==
  /\ Next
  /\ phase \in Ended /\ phase' # phase =>
       \A c \in Clients : Cardinality(pool[c]) <= MaxTaken

MCSpec == Init /\ [][MCNext]_vars
=============================================================================
