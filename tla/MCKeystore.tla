----------------------------- MODULE MCKeystore -----------------------------
(***************************************************************************)
(* Keystore for TLC.                                                       *)
(***************************************************************************)
EXTENDS Keystore

\* A count that adds nothing, the handler's default, and one of two turns.
MCCounts == {-1, 1, 2}
=============================================================================
