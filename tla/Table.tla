------------------------------- MODULE Table -------------------------------
(***************************************************************************)
(* The order in which sqldb's queries return rows: the table's own, which  *)
(* is that of the numbers the rows are known by here.                      *)
(***************************************************************************)
EXTENDS Integers, FiniteSets

\* The rows of S as a slice.
InOrder(S) ==
  CHOOSE s \in [1 .. Cardinality(S) -> S] :
    \A i, j \in 1 .. Cardinality(S) : i < j => s[i] < s[j]
=============================================================================
