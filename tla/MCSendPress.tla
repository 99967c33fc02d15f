---------------------------- MODULE MCSendPress ----------------------------
(***************************************************************************)
(* SendPress for TLC: two addresses that own every other output.           *)
(***************************************************************************)
EXTENDS SendPress, TLC

CONSTANTS a1, a2

MCAddresses == {a1, a2}
MCOwner == [o \in 1 .. NumOuts |-> IF o % 2 = 1 THEN a1 ELSE a2]

\* Negative, zero, odd, and more than the six a query failure leaves.
MCCounts == {-1, 0, 3, 7}
MCFewCounts == {4}

\* The rows matter only while some call has yet to read them.
MCNext ==
  /\ Next
  /\ usable' # usable => \E r \in Calls : pc[r] \in {"new", "collect"}

MCSpec == Init /\ [][MCNext]_vars
MCFairSpec == MCSpec /\ Fairness

MCSymmetry == Permutations(Calls)
=============================================================================
