------------------------------ MODULE Payments ------------------------------
(***************************************************************************)
(* presstest.Engine's Split, TransferAll, MergerUTXO and Transfer.  Each   *)
(* reads the table, builds a transaction, hands it to the first node and,  *)
(* in Split and TransferAll, marks its inputs as spent row by row.  Calls  *)
(* are not serialised, neither among themselves nor with other programs.   *)
(*                                                                         *)
(* Wired says whether the engine has its key store, its database and the   *)
(* table of coins; as NewController builds it, it has none of them.        *)
(***************************************************************************)
EXTENDS Ledger, Sequences

CONSTANTS
  Addresses,   \* the addresses of the key store
  Orders,      \* orders in which the key store may list them
  From,        \* the address that TransferAll, Transfer and Merger spend from
  Batch,       \* 500, payments in a transaction
  PreFees,     \* 100000000, what is set aside for the fee
  Counts,      \* values of Split's "count"
  Amounts,     \* values of "amount"
  Wired

ASSUME PaymentsConfig ==
  /\ IsFiniteSet(Addresses)            \* the keys of a map
  /\ Orders \subseteq Seq(Addresses)
  /\ Orders # {}
  /\ \A l \in Orders : IsInjective(l)   \* each of them once
  /\ {Batch, PreFees} \subseteq Nat \ {0}
  /\ Counts \subseteq Int
  /\ Amounts \subseteq 0 .. Modulus - 1
  /\ Wired \in BOOLEAN

(* Batch payments of any amount a transaction may carry, a change and the  *)
(* fee are far from 2^64.                                                  *)
ASSUME AmountsFit ==
  /\ OneAmount <= MaxAmount
  /\ MaxAmount < Modulus \div 2
  /\ Batch * MaxAmount + MaxAmount + PreFees
       + FeeIn * NumOuts + FeeOut * (Batch + 1) + FeeTx < Modulus

VARIABLE call   \* call[r]: the local variables of call r and where it is

vars == <<ledgerVars, call>>

NoTx == MakeTx(CHOOSE r \in Calls : TRUE, <<0, From>>, {}, {}, 0, 0, 0, 0)

Idle == [op |-> "none", at |-> "new", amount |-> 0, times |-> 0, left |-> 0,
         round |-> 0,    \* h, t, or i in Merger
         todo |-> {},    \* Split: addresses left in this round
         list |-> <<>>,  \* TransferAll: addressList; Merger: allOuts
         capacity |-> 0, \* Merger: of allOuts
         index |-> 0,    \* TransferAll: addressIndex
         balance |-> 0,
         success |-> 0,  \* Split: success; TransferAll: successIndex
         all |-> 0,      \* Merger: all + allFees
         tx |-> NoTx, marks |-> {}]

Ended == {"returned", "refused", "failed", "panicked", "nocoin"}

Init == LedgerInit /\ call = [r \in Calls |-> Idle]

\* The call goes on with some of its variables changed.
Become(r, c) == call' = [call EXCEPT ![r] = c]
GoTo(r, place) == call' = [call EXCEPT ![r].at = place]
In(r, op, place) == call[r].op = op /\ call[r].at = place

\* Go's division truncates towards zero.
Quot(a, b) == IF a >= 0 THEN a \div b ELSE -((-a) \div b)
Rem(a, b)  == a - b * Quot(a, b)
Rounds(n) == Quot(n, Batch) + (IF Rem(n, Batch) # 0 THEN 1 ELSE 0)

-----------------------------------------------------------------------------
(* A transaction goes out; what follows depends on the answer.             *)
Hand(r, onAnswer, onError) ==
  \/ Submit(call[r].tx, TRUE) /\ Become(r, onAnswer)
  \/ Submit(call[r].tx, FALSE) /\ Become(r, onError)

(* TxEncode and TxSign: either may fail, and TxEncode does when an amount  *)
(* is out of range.                                                        *)
Encode(r, t, c, skip) ==
  \/ Encodable(t) /\ Become(r, [c EXCEPT !.tx = t, !.at = "send"])
  \/ Become(r, skip)

(* UpdateSpent of the inputs, one row after the other.                     *)
Mark(r) ==
  LET c == call[r]
  IN  /\ c.at = "mark"
      /\ \E o \in c.marks :
           /\ SetSpent(o)
           /\ Become(r, [c EXCEPT !.marks = @ \ {o},
                           !.at = IF c.marks = {o} THEN "round" ELSE "mark"])

-----------------------------------------------------------------------------
(* Split.                                                                  *)
SplitStart(r) ==
  /\ call[r] = Idle
  /\ \E n \in Counts, known \in BOOLEAN :
       Become(r, [Idle EXCEPT !.op = "split", !.times = Rounds(n),
                    !.left = Rem(n, Batch),
                    !.at = IF Rounds(n) <= 0 THEN "returned"
                           ELSE IF ~Wired THEN "panicked"
                           ELSE IF Addresses = {} THEN "returned"
                           ELSE IF ~known THEN "nocoin"
                           ELSE "round"])
  /\ UNCHANGED ledgerVars

\* timeCount; the comparison is with timeCount, not with h.
TimeCount(c) == IF Batch = c.times - 1 THEN c.left ELSE Batch

\* On to the next address, whether this one is served or not.
NextAddress(c, a) == [c EXCEPT !.todo = @ \ {a}]

(* One address, in no particular order, or the next round.                 *)
SplitRound(r) ==
  LET c == call[r]
  IN  /\ In(r, "split", "round")
      /\ IF c.todo = {}
         THEN Become(r, IF c.round = c.times
                        THEN [c EXCEPT !.at = "returned"]
                        ELSE [c EXCEPT !.round = @ + 1, !.todo = Addresses])
         ELSE \E a \in c.todo :
           LET next  == NextAddress(c, a)
               need  == OneAmount * TimeCount(c)
               ins   == FirstWorth(RowsOf(a, OneAmount + 1), need + PreFees)
               fee   == Fess(ins, TimeCount(c))
               t     == MakeTx(r, <<c.round, a>>, ins, {a}, TimeCount(c),
                          OneAmount, Minus(Worth(ins), need + fee), fee)
           IN  IF Worth(ins) < need + fee
               THEN Become(r, next)
               ELSE Encode(r, t, next, next)
      /\ UNCHANGED ledgerVars

\* What follows an answer, and an error.
BugNoUpdate(c) ==
  [c EXCEPT !.success = @ + TimeCount(c), !.at = "round"]
SplitPaid(c) ==
  [c EXCEPT !.success = @ + TimeCount(c), !.marks = c.tx.ins, !.at = "mark"]
BugMarksAnyway(c) == [c EXCEPT !.marks = c.tx.ins, !.at = "mark"]
SplitRefused(c) == [c EXCEPT !.at = "round"]

SplitSend(r) ==
  /\ In(r, "split", "send")
  /\ Hand(r, SplitPaid(call[r]), SplitRefused(call[r]))

-----------------------------------------------------------------------------
(* TransferAll and Transfer: AddrBalance, 0 if a query fails.              *)
Balance(r) ==
  LET c == call[r]
  IN  /\ c.at = "balance"
      /\ \E b \in {0, Worth(RowsOf(From, 1)) % Modulus} :
           Become(r, [c EXCEPT !.balance = b, !.at = "round"])
      /\ UNCHANGED ledgerVars

TransferStart(r, op) ==
  /\ call[r] = Idle
  /\ \E a \in Amounts, l \in Orders :
       Become(r, [Idle EXCEPT !.op = op, !.amount = a, !.list = l,
                    !.times = Rounds(Len(l)), !.left = Rem(Len(l), Batch),
                    !.at = IF Wired THEN "balance" ELSE "panicked"])
  /\ UNCHANGED ledgerVars

\* oneCount: only the last batch may be smaller.
BugSmallFirst(c) == IF c.round = 0 /\ c.left # 0 THEN c.left ELSE Batch
OneCount(c) ==
  IF c.round = c.times - 1 /\ c.left # 0 THEN c.left ELSE Batch

(* What is paid, and the outputs that GetAddressBigUTXO or GetAddressUTXO  *)
(* finds for it; a query that fails finds none.                            *)
Found(least, sum) ==
  {FirstWorth(RowsOf(From, least), Plus(sum, PreFees)), {}}

(* The check of the outputs found is made with a single amount.            *)
Covers(total, c, fee) == total >= Plus(c.amount, fee)

\* On to the next batch.
BugRetries(c, n) == c
BugStaysAtIndex(c, n) == [c EXCEPT !.round = @ + 1]
BugReportsEarly(c, n) ==
  [c EXCEPT !.round = @ + 1, !.index = @ + n, !.success = c.index + n]
NextBatch(c, n) == [c EXCEPT !.round = @ + 1, !.index = @ + n]

(* A batch: a failure of TxEncode or TxSign goes on with the next one, and *)
(* the addresses of this one are passed over.                              *)
BatchRound(r) ==
  LET c   == call[r]
      n   == OneCount(c)
      sum == Times(c.amount, n)
  IN  /\ In(r, "transferAll", "round")
      /\ IF c.round = c.times
         THEN GoTo(r, "returned")
         ELSE IF c.balance <= Plus(sum, PreFees)
         THEN Become(r, [c EXCEPT !.at = "refused", !.success = 0])
         ELSE \E ins \in Found(OneAmount + 1, sum) :
              \E total \in FloatTotals(ins) :
                LET next == NextBatch(c, n)
                    to   == {c.list[k] : k \in c.index + 1 .. c.index + n}
                    fee  == Fess(ins, n)
                    t    == MakeTx(r, <<c.round, From>>, ins, to, n, c.amount,
                              Minus(total, Plus(sum, fee)), fee)
                IN  IF Covers(total, c, fee)
                    THEN Encode(r, t, next, next)
                    ELSE Become(r, next)
      /\ UNCHANGED ledgerVars

\* The node has answered: the inputs are to be marked.
BatchPaid(c) ==
  [c EXCEPT !.success = c.index, !.marks = c.tx.ins, !.at = "mark"]

(* An error of the node ends the call with what was paid before.           *)
BatchSend(r) ==
  LET c == call[r]
  IN  /\ In(r, "transferAll", "send")
      /\ Hand(r, BatchPaid(c), [c EXCEPT !.at = "returned"])

(* Transfer: as one batch of one, to any address; nothing is marked.       *)
TransferRound(r) ==
  LET c == call[r]
  IN  /\ In(r, "transfer", "round")
      /\ IF c.balance <= Plus(c.amount, PreFees)
         THEN GoTo(r, "refused")
         ELSE \E ins \in Found(1, c.amount) : \E total \in FloatTotals(ins) :
                LET fee == Fess(ins, 1)
                    t   == MakeTx(r, <<0, From>>, ins, {}, 1, c.amount,
                             Minus(total, Plus(c.amount, fee)), fee)
                IN  IF Covers(total, c, fee)
                    THEN Encode(r, t, c, [c EXCEPT !.at = "failed"])
                    ELSE GoTo(r, "failed")
      /\ UNCHANGED ledgerVars

TransferSend(r) ==
  LET c == call[r]
  IN  /\ In(r, "transfer", "send")
      /\ Hand(r, [c EXCEPT !.at = "returned"],
                 [c EXCEPT !.at = "failed"])

-----------------------------------------------------------------------------
(* MergerUTXO: all rows are read at the start, those of amount 0 as well;  *)
(* the slice may have room beyond its length.                              *)
MergerStart(r) ==
  /\ call[r] = Idle
  /\ \E rows \in {RowsOf(From, 0), {}} : \E room \in 0 .. Batch :
       Become(r, [Idle EXCEPT !.op = "merger",
                    !.list = InOrder(rows),
                    !.capacity = Cardinality(rows) + room,
                    !.at = IF Wired THEN "round" ELSE "nocoin"])
  /\ UNCHANGED ledgerVars

\* allOuts[i : i+count] without the rows of amount 0.
Slice(c) ==
  {o \in {c.list[k] : k \in 1 .. Len(c.list) \cap
            c.round * Batch + 1 .. (c.round + 1) * Batch} : Amount[o] # 0}

(* 500 rows a round, however many are left: past the slice's capacity the  *)
(* call panics, and short of it the rows beyond its length are empty.      *)
MergerRound(r) ==
  LET c   == call[r]
      ins == Slice(c)
      fee == Fess(ins, 0)
      t   == MakeTx(r, <<c.round, From>>, ins, {}, 0, 0,
               Minus(Worth(ins), fee), fee)
  IN  /\ In(r, "merger", "round")
      /\ IF c.round * Batch >= Len(c.list)
         THEN GoTo(r, "returned")
         ELSE IF (c.round + 1) * Batch > c.capacity
         THEN GoTo(r, "panicked")
         ELSE IF Worth(ins) < fee
         THEN GoTo(r, "failed")
         ELSE Encode(r, t, c, [c EXCEPT !.at = "failed"])
      /\ UNCHANGED ledgerVars

MergerSend(r) ==
  LET c == call[r]
  IN  /\ In(r, "merger", "send")
      /\ Hand(r, [c EXCEPT !.all = @ + c.tx.change + c.tx.fee,
                    !.round = @ + 1, !.at = "round"],
                 [c EXCEPT !.at = "failed"])

-----------------------------------------------------------------------------
Start(r) ==
  \/ SplitStart(r)
  \/ TransferStart(r, "transferAll")
  \/ TransferStart(r, "transfer")
  \/ MergerStart(r)

Step(r) ==
  \/ SplitRound(r)    \/ SplitSend(r)
  \/ Balance(r)
  \/ BatchRound(r)    \/ BatchSend(r)
  \/ TransferRound(r) \/ TransferSend(r)
  \/ MergerRound(r)   \/ MergerSend(r)
  \/ Mark(r)

Next ==
  \/ \E r \in Calls : Start(r) \/ Step(r)
  \/ (Arrive \/ Sync) /\ UNCHANGED call
Spec == Init /\ [][Next]_vars

\* Goroutines are scheduled; a send ends after five seconds at the latest.
Fairness == \A r \in Calls : WF_vars(Step(r))
FairSpec == Spec /\ Fairness

-----------------------------------------------------------------------------
SentTx ==
  [call : Calls, no : (Nat \X (Addresses \cup {From})), ins : SUBSET Outs,
   to : SUBSET Addresses, pays : Nat, amount : 0 .. MaxAmount,
   change : 1 .. MaxAmount, fee : Nat]

TypeOK ==
  /\ usable \subseteq Outs
  /\ unset \subseteq Outs
  /\ sent \subseteq SentTx
  /\ answered \subseteq taken
  /\ taken \subseteq sent
  /\ \A r \in Calls : LET c == call[r] IN
       /\ c.op \in {"none", "split", "transferAll", "transfer", "merger"}
       /\ c.at \in Ended \cup {"new", "balance", "round", "send", "mark"}
       /\ c.tx = NoTx \/ c.tx \in SentTx
       /\ c.marks \subseteq c.tx.ins
       /\ c.at = "mark" <=> c.marks # {}
       /\ c.op = "transferAll" => c.success <= c.index /\ c.index <= Len(c.list)

\* Transactions of call r among T.
Of(r, T) == {t \in T : t.call = r}

\* What the node's answers to call r come to, in terms of f.
Total(f, r) == SumFunctionOnSet(f, Of(r, answered))

(* A transaction that goes out pays what it should: the inputs cover every *)
(* payment, a change and the fee, all positive, and only rounding is lost,  *)
(* whatever the amount, the balance read before and uint64 arithmetic make *)
(* of them (presstest.go:427-468, 617-657, 346-349) .                      *)
NoValueCreated ==
  \A t \in sent :
    /\ t.change > 0 /\ (t.pays > 0 => t.amount > 0)
    /\ t.pays * t.amount + t.change + t.fee \in FloatTotals(t.ins)

(* "balance no enough" means that nothing at all was sent: the balance is  *)
(* read once and no later batch needs more than the first                  *)
(* (presstest.go:407, 423-429, 493-498).                                   *)
RefusedMeansNothingSent ==
  \A r \in Calls : call[r].at = "refused" => Of(r, sent) = {}

(* A TransferAll pays no address in two transactions                       *)
(* (presstest.go:424, 450-458).                                            *)
PaidOnce ==
  \A r \in Calls : \A s, t \in Of(r, sent) :
    call[r].op = "transferAll" /\ s # t => s.to \cap t.to = {}

(* Split and Merger count what the node answered and nothing else.  Of the *)
(* addresses it sent to TransferAll reports those of answered transactions *)
(* and none of the others; it also reports addresses passed over without a *)
(* transaction, of which this says nothing (presstest.go:292, 463, 489,    *)
(* 504, 591-592).                                                          *)
ReportFollowsAnswers ==
  \A r \in Calls : LET c == call[r] IN
    /\ c.op = "split" =>
         c.success = Total([t \in answered |-> t.pays], r)
    /\ c.op = "merger" =>
         c.all = Total([t \in answered |-> Worth(t.ins)], r)
    /\ c.op = "transferAll" /\ c.at = "returned" =>
         \A t \in Of(r, sent) :
           t.to \cap {c.list[k] : k \in 1 .. c.success} =
             IF t \in answered THEN t.to ELSE {}

(* A call does not spend again what a transaction of its own has spent and *)
(* was answered for, unless the database failed to mark the row            *)
(* (presstest.go:236, 293, 430, 491, 525).                                 *)
OwnSpendsNotReused ==
  \A r \in Calls : call[r].at = "send" =>
    \A t \in Of(r, answered) : t.ins \cap call[r].tx.ins \subseteq unset

(* A row stops being usable only when the node has taken a transaction     *)
(* that spends it: a row is never marked on an error                       *)
(* (presstest.go:285-293, 484-491).                                        *)
OnlySpentAreMarked ==
  [][\A o \in Outs : o \in usable /\ o \notin usable' => o \in Claimed]_vars

(* Every call ends: each round moves on, whatever fails                    *)
(* (presstest.go:218-299, 423-501, 520-594).                               *)
EveryCallEnds ==
  \A r \in Calls : call[r].at # "new" ~> call[r].at \in Ended
=============================================================================
