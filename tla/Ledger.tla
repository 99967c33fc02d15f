------------------------------- MODULE Ledger -------------------------------
(***************************************************************************)
(* What the UTXO operations of presstest.Engine share: the table of        *)
(* outputs (sqldb), the first Qitmeer node, uint64 arithmetic, the choice  *)
(* of inputs, the fee and the checks of TxEncode.                          *)
(*                                                                         *)
(* Amounts keep their width: Modulus is 2^64 in the code.  Heights and     *)
(* locks are left out: an output that is still locked is not usable yet.   *)
(***************************************************************************)
EXTENDS Table, FiniteSetsExt

CONSTANTS
  NumOuts,    \* rows of the vout table, in the order queries return them
  Owner,      \* Owner[o]: the address of output o
  Amount,     \* Amount[o]: its amount
  Modulus,    \* 2^64
  MaxAmount,  \* types.MaxAmount of Qitmeer
  OneAmount,  \* 10000, the amount of the outputs that Send spends
  FeeIn, FeeOut, FeeTx,  \* 2 * 1500, 2 * 450 and 2 * 2000
  Calls

Outs == 1 .. NumOuts

ASSUME LedgerConfig ==
  /\ NumOuts \in Nat
  /\ Amount \in [Outs -> 0 .. MaxAmount]
  /\ {Modulus, MaxAmount, OneAmount, FeeIn, FeeOut, FeeTx} \subseteq Nat \ {0}
  /\ Modulus % 2 = 0

VARIABLES
  usable,  \* rows that say unspent and confirmed
  unset,   \* history: rows for which UpdateSpent failed
  sent,    \* history: transactions handed to the node
  answered,  \* history: those it answered without an error
  taken    \* those the node has taken

ledgerVars == <<usable, unset, sent, answered, taken>>

\* uint64 arithmetic, and int64(v).
Plus(a, b)  == (a + b) % Modulus
Minus(a, b) == (a - b) % Modulus
Times(a, b) == (a * b) % Modulus
Int64(v) == IF v < Modulus \div 2 THEN v ELSE v - Modulus

Worth(S) == SumFunctionOnSet(Amount, S)

\* fess: by the number of inputs and of outputs without the change.
Fess(ins, outs) ==
  FeeIn * Cardinality(ins) + FeeOut * (outs + 1) + FeeTx

\* Rows of address a of at least a given amount.
RowsOf(a, least) == {o \in usable : Owner[o] = a /\ Amount[o] >= least}

(* The first rows of S that are worth need, all of S if it is not.         *)
FirstWorth(S, need) ==
  LET UpTo(o) == {p \in S : p <= o}
      enough  == {o \in S : Worth(UpTo(o)) >= need}
  IN  IF enough = {} THEN S ELSE UpTo(Min(enough))

(* uint64(float64(amount) / 1e8 * 1e8), summed up: what GetAddressUTXO     *)
(* hands on may be one less than the amount of each output.                *)
FloatTotals(S) == Worth(S) - Cardinality(S) .. Worth(S)

(* A transaction: pays outputs of one amount and a change output.          *)
MakeTx(r, no, ins, to, pays, amount, change, fee) ==
  [call |-> r, no |-> no, ins |-> ins, to |-> to, pays |-> pays,
   amount |-> Int64(amount), change |-> Int64(change), fee |-> fee]

BugNoLowerBound(t) ==
  (t.pays > 0 => t.amount <= MaxAmount) /\ t.change <= MaxAmount
\* TxEncode's check of every output.
Encodable(t) ==
  /\ t.pays > 0 => t.amount \in 1 .. MaxAmount
  /\ t.change \in 1 .. MaxAmount

-----------------------------------------------------------------------------
LedgerInit ==
  /\ usable \in SUBSET Outs
  /\ unset = {}
  /\ sent = {}
  /\ answered = {}
  /\ taken = {}

\* Outputs that the node knows to be spent.
Claimed == UNION {t.ins : t \in taken}

(* call: a POST to the node with a time limit of five seconds.  Whatever   *)
(* fails on the way there, at the node or on the way back is an error to   *)
(* the caller, so an error does not say that the node did not take it.     *)
Exchange(t, ok) ==
  \/ t.ins \cap Claimed = {} /\ taken' = taken \cup {t}
  \/ ~ok /\ UNCHANGED taken

\* rpcs[0].SendTransaction.
Submit(t, ok) ==
  /\ sent' = sent \cup {t}
  /\ answered' = answered \cup (IF ok THEN {t} ELSE {})
  /\ Exchange(t, ok)
  /\ UNCHANGED <<usable, unset>>

(* The node gets round to a transaction after the caller has given up.     *)
Arrive ==
  /\ \E t \in sent \ taken :
       t.ins \cap Claimed = {} /\ taken' = taken \cup {t}
  /\ UNCHANGED <<usable, unset, sent, answered>>

(* UpdateSpent, one row: its own statement, an error is not looked at.     *)
SetSpent(o) ==
  /\ \/ usable' = usable \ {o} /\ UNCHANGED unset
     \/ unset' = unset \cup {o} /\ UNCHANGED usable
  /\ UNCHANGED <<sent, answered, taken>>

(* The program that fills the table: it learns of a spend, or an output    *)
(* that nobody has spent is confirmed or unlocked.                         *)
Sync ==
  /\ \/ \E t \in taken : usable' = usable \ t.ins
     \/ \E o \in Outs \ Claimed : usable' = usable \cup {o}
  /\ UNCHANGED <<unset, sent, answered, taken>>
=============================================================================
