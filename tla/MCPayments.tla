----------------------------- MODULE MCPayments -----------------------------
(***************************************************************************)
(* Payments for TLC, with the numbers scaled down: two payments in a       *)
(* transaction, 64 in the place of 2^64, amounts of at most 12.            *)
(***************************************************************************)
EXTENDS Payments, TLC

CONSTANTS a1, a2, a3

MCOrders == {<<a1, a2, a3>>}
MCOwner == <<a1, a1, a1, a2>>
MCAmount == <<8, 12, 0, 9>>

\* Fewer outputs for two calls.
MCTwoOwner == <<a1, a1, a1>>
MCTwoAmount == <<8, 12, 0>>

\* No round, one for a negative count, and the rest taken for the count.
MCCounts == {-2, -1, 3, 5}

\* Payable ones, one whose double wraps around, and one that does itself.
MCAmounts == {1, 3, 33, 63}

\* One output is not confirmed at first.
MCInit == Init /\ usable = Outs \ {1}
MCSpec == MCInit /\ [][Next]_vars
MCFairSpec == MCSpec /\ Fairness

MCSymmetry == Permutations(Calls)
=============================================================================
