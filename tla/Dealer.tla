------------------------------- MODULE Dealer -------------------------------
(***************************************************************************)
(* What a press promises, without its channel and its goroutines: a call   *)
(* is asked for a number of items, hands each of them over exactly once    *)
(* and nearly in order, and comes back when it has handed over all.  It    *)
(* may fail, but then it has handed over nothing.                          *)
(***************************************************************************)
EXTENDS Integers, FiniteSets

CONSTANTS
  Totals,   \* numbers of items a caller may ask for
  Window    \* how far out of order an item may go out

VARIABLES
  state,    \* "ready", "preparing", "dealing", "returned" or "failed"
  todo      \* items of the call that have not been handed over

dealerVars == <<state, todo>>

Init == state = "ready" /\ todo = {}

\* A call begins, or is refused at once.
Call(n) ==
  /\ state \in {"ready", "returned", "failed"}
  /\ state' \in {"preparing", "failed"}
  /\ todo' = 0 .. n - 1

\* All items are there, or one of them could not be made.
Prepared ==
  /\ state = "preparing"
  /\ state' \in {"dealing", "failed"}
  /\ UNCHANGED todo

\* Item m goes out; fewer than Window older ones are still waiting.
HandOver(m) ==
  /\ state = "dealing"
  /\ Cardinality({k \in todo : k < m}) < Window
  /\ todo' = todo \ {m}
  /\ UNCHANGED state

\* The call comes back once nothing is left.
Return ==
  /\ state = "dealing"
  /\ todo = {}
  /\ state' = "returned"
  /\ UNCHANGED todo

Next ==
  \/ \E n \in Totals : Call(n)
  \/ Prepared
  \/ \E m \in todo : HandOver(m)
  \/ Return

Spec == Init /\ [][Next]_dealerVars
=============================================================================
