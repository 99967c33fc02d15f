------------------------------ MODULE PressEVM ------------------------------
(***************************************************************************)
(* evm.PressEVMV2 and the goroutines it starts (sendTransfer): build count *)
(* signed self-transfers, put them in a buffered channel of capacity       *)
(* count, let one goroutine per node drain the channel, wait for all of    *)
(* them.  Calls follow one another; EvmController adds the mutex that      *)
(* makes this so.                                                          *)
(***************************************************************************)
EXTENDS EvmNode, Sequences

CONSTANTS
  Counts,      \* values of "count" a caller may pass (strconv.Atoi: any int)
  TpsValues,   \* values of "tps" a caller may pass
  NoJob        \* no transaction at hand

ASSUME PressArguments == Counts \subseteq Int /\ TpsValues \subseteq Int

\* type Tx struct: the signed transaction and its number.
Job == [tx : Tx, index : Nat]

ASSUME NoJobIsNoJob == NoJob \notin Job

VARIABLES
  phase,      \* where the call is: see Phases
  count,      \* the argument, also the capacity of txCh
  i,          \* index of the account being served
  j,          \* transactions built for this account
  nonce,      \* next nonce of this account
  index,      \* transactions built in this call
  ch,         \* txCh
  pc,         \* pc[c]: where the sendTransfer goroutine of node c is
  held,       \* held[c]: the transaction it received and has not sent yet
  attempted   \* history: numbers of the transactions handed to a node

pressVars == <<phase, count, i, j, nonce, index, ch, pc, held, attempted>>
vars == <<pressVars, pool>>

Phases == {"idle", "account", "fill", "send", "returned", "failed", "panicked"}
Ended  == {"idle", "returned", "failed", "panicked"}

PressTx(a, n) == [from |-> a, nonce |-> n, what |-> "token", to |-> a]

(* An operator whose name begins with Bug is the definition after it as a  *)
(* plausible mistake in the code would have it; the model does not use it. *)
BugRemainderDropped(n, k) == n \div NumAccounts
BugRemainderForAll(n, k) == n \div NumAccounts + (n % NumAccounts)

\* How many of n transactions account k builds.
AvgCount(n, k) ==
  n \div NumAccounts + (IF k = 0 THEN n % NumAccounts ELSE 0)

\* There is an account k to serve.
BugOneTooMany(k) == k <= NumAccounts
MoreAccounts(k) == k < NumAccounts

\* The channel q after a put of job and after a receive: a queue.
BugStack(q, job) == <<job>> \o q
Put(q, job) == Append(q, job)

BugPeek(q) == q
Rest(q) == Tail(q)

\* A goroutine returns when it sees the channel q empty.
BugNeverReturns(q) == FALSE
BugOneLeft(q) == Len(q) <= 1
SeesEnd(q) == q = <<>>

\* The nodes a goroutine is started for.
BugOneSender == {0}
Senders == Clients

PressInit ==
  /\ phase = "idle"
  /\ count = 0 /\ i = 0 /\ j = 0 /\ nonce = 0 /\ index = 0
  /\ ch = <<>>
  /\ pc = [c \in Clients |-> "off"]
  /\ held = [c \in Clients |-> NoJob]
  /\ attempted = {}

-----------------------------------------------------------------------------
\* make(chan *Tx, count) panics on a negative size, 1000 / tps on zero.
PressPanics(n, tps) == n < 0 \/ tps = 0

(* The call with its arguments, up to the first account.                   *)
Call(n, tps) ==
  /\ phase' = IF PressPanics(n, tps) THEN "panicked" ELSE "account"
  /\ count' = n
  /\ i' = 0 /\ j' = 0 /\ nonce' = 0 /\ index' = 0
  /\ ch' = <<>>
  /\ pc' = [c \in Clients |-> "off"]
  /\ held' = [c \in Clients |-> NoJob]
  /\ attempted' = {}
  /\ UNCHANGED pool

(* The account's key is parsed and its nonce asked of the first node; any  *)
(* error ends the call before a single transaction is sent.                *)
QueryNonce ==
  /\ phase = "account"
  /\ \/ /\ nonce' \in PendingNonces(0, i)
        /\ phase' = "fill"
     \/ /\ phase' = "failed"
        /\ UNCHANGED nonce
  /\ j' = 0
  /\ UNCHANGED <<count, i, index, ch, pc, held, attempted, pool>>

(* One transaction is signed and put in the channel; the put would block   *)
(* on a full channel.  A signing error ends the call.                      *)
CreateTx ==
  /\ phase = "fill"
  /\ j < AvgCount(count, i)
  /\ \/ /\ Len(ch) < count
        /\ ch' = Put(ch, [tx |-> PressTx(i, nonce), index |-> index])
        /\ nonce' = nonce + 1
        /\ index' = index + 1
        /\ j' = j + 1
        /\ UNCHANGED phase
     \/ /\ phase' = "failed"
        /\ UNCHANGED <<ch, nonce, index, j>>
  /\ UNCHANGED <<count, i, pc, held, attempted, pool>>

(* The next account, or one goroutine per node once all are served.        *)
EndAccount ==
  /\ phase = "fill"
  /\ j = AvgCount(count, i)
  /\ i' = i + 1
  /\ IF MoreAccounts(i + 1)
     THEN phase' = "account" /\ UNCHANGED pc
     ELSE phase' = "send" /\ pc' = [c \in Clients |-> IF c \in Senders THEN "recv" ELSE "off"]
  /\ UNCHANGED <<count, j, nonce, index, ch, held, attempted, pool>>

-----------------------------------------------------------------------------
(* sendTransfer of node c: tx := <-txCh.                                   *)
Recv(c) ==
  /\ pc[c] = "recv"
  /\ ch # <<>>
  /\ held' = [held EXCEPT ![c] = Head(ch)]
  /\ ch' = Rest(ch)
  /\ pc' = [pc EXCEPT ![c] = "send"]
  /\ UNCHANGED <<phase, count, i, j, nonce, index, attempted, pool>>

(* client.SendTransaction; the error is only logged.                       *)
Send(c) ==
  /\ pc[c] = "send"
  /\ SendOk(c, held[c].tx) \/ SendError(c, held[c].tx)
  /\ attempted' = attempted \cup {held[c].index}
  /\ held' = [held EXCEPT ![c] = NoJob]
  /\ pc' = [pc EXCEPT ![c] = "check"]
  /\ UNCHANGED <<phase, count, i, j, nonce, index, ch>>

(* len(txCh) == 0: the goroutine returns; otherwise it sleeps and receives *)
(* again.                                                                  *)
Check(c) ==
  /\ pc[c] = "check"
  /\ pc' = [pc EXCEPT ![c] = IF SeesEnd(ch) THEN "done" ELSE "recv"]
  /\ UNCHANGED <<phase, count, i, j, nonce, index, ch, held, attempted, pool>>

Sender(c) == Recv(c) \/ Send(c) \/ Check(c)

\* The wait group: a Done for every Add.
BugAddOnce == \E c \in Clients : pc[c] = "done"
AllDone == \A c \in Clients : pc[c] = "done"

(* wg.Wait() comes back and the call answers with "Success: count".        *)
WaitReturns ==
  /\ phase = "send"
  /\ AllDone
  /\ phase' = "returned"
  /\ UNCHANGED <<count, i, j, nonce, index, ch, pc, held, attempted, pool>>

PressSteps ==
  \/ QueryNonce
  \/ CreateTx
  \/ EndAccount
  \/ \E c \in Clients : Sender(c)
  \/ WaitReturns

\* One call after the other; what else happens to the pools is left open.
PressNext ==
  \/ phase \in Ended /\ \E n \in Counts, tps \in TpsValues : Call(n, tps)
  \/ PressSteps

PressSpec == PressInit /\ [][PressNext]_pressVars

\* The calls of this module and the nodes, nothing else.
Init == NodeInit /\ PressInit
Next ==
  \/ PressNext
  \/ \E c, d \in Clients : Gossip(c, d) /\ UNCHANGED pressVars
Spec == Init /\ [][Next]_vars

-----------------------------------------------------------------------------
TypeOK ==
  /\ pool \in [Clients -> SUBSET Tx]
  /\ phase \in Phases
  /\ count \in Int
  /\ i \in 0 .. NumAccounts
  /\ j \in Nat
  /\ nonce \in Nat
  /\ index \in Nat
  /\ ch \in Seq(Job)
  /\ pc \in [Clients -> {"off", "recv", "send", "check", "done"}]
  /\ held \in [Clients -> Job \cup {NoJob}]
  /\ attempted \subseteq Nat

(* Filling the channel before any goroutine reads it never blocks: the     *)
(* shares of the accounts add up to count, the channel's capacity          *)
(* (evm.go:154, 159-162, 185).                                             *)
PutNeverBlocks ==
  phase = "fill" /\ j < AvgCount(count, i) => Len(ch) < count

(* No transaction is handed to the nodes twice, and no two goroutines hold *)
(* the same one (evm.go:215-216).                                          *)
SentAtMostOnce ==
  \A c \in Clients : pc[c] = "send" =>
    /\ held[c].index \notin attempted
    /\ \A d \in Clients \ {c} :
         pc[d] = "send" => held[d].index # held[c].index

\* The channel is empty and no goroutine holds a transaction any more.
Drained ==
  /\ phase = "send"
  /\ ch = <<>>
  /\ \A c \in Clients : pc[c] # "send"

(* When wg.Wait() comes back all count transactions the answer claims have *)
(* been handed to a node; the same holds when the call hangs instead, so a *)
(* hanging call has lost no transaction (evm.go:201-208, 222).             *)
AllAttempted ==
  phase = "returned" \/ Drained => attempted = 0 .. count - 1

(* Goroutines overtake one another by less than one transaction each: at   *)
(* most NumClients - 1 transactions older than an attempted one are still  *)
(* waiting.  With a single node every account's nonces go out in order     *)
(* (evm.go:197-200, 215).                                                  *)
BoundedReorder ==
  \A m \in attempted :
    Cardinality((0 .. m - 1) \ attempted) < NumClients

\* A goroutine waits on the channel nobody will ever fill again.
Stuck == phase = "send" /\ ch = <<>> /\ \E c \in Clients : pc[c] = "recv"

(* Such a goroutine, and with it wg.Wait() and the call, never moves again *)
(* (evm.go:201, 215).                                                      *)
StuckIsForever == [][Stuck => Stuck']_vars

(* If there was anything to send, the goroutine that took the last         *)
(* transaction does not wait on the channel: with one node nobody is ever  *)
(* stuck, with more at least one returns (evm.go:222).                     *)
LastOneReturns ==
  phase = "send" /\ ch = <<>> /\ count > 0 => \E c \in Clients : pc[c] # "recv"

\* Where the dealer is at each phase of the call.
Dealing ==
  CASE phase \in {"account", "fill"}     -> "preparing"
    [] phase = "send"                    -> "dealing"
    [] phase \in {"failed", "panicked"}  -> "failed"
    [] phase = "returned"                -> "returned"
    [] OTHER                             -> "ready"

D == INSTANCE Dealer WITH
       Totals <- Counts, Window <- NumClients,
       state <- Dealing, todo <- (0 .. count - 1) \ attempted

(* The channel, the goroutines and the wait group together do what a       *)
(* dealer does: a call hands over each of its transactions exactly once    *)
(* and nearly in order, returns only after the last, and one that fails    *)
(* has handed over none (evm.go:153-228).                                  *)
ImplementsDealer == D!Spec
=============================================================================
