-------------------------- MODULE MCEvmController --------------------------
(***************************************************************************)
(* EvmController for TLC: the values of the query parameters.              *)
(***************************************************************************)
EXTENDS EvmController

\* Negative, nothing to send, more than accounts, not a number.
MCCountFields == {-1, 0, 3, BadNumber}

\* Something to send in every press.
MCPositiveFields == {1, 3}
=============================================================================
