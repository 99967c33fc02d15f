------------------------------ MODULE EvmNode ------------------------------
(***************************************************************************)
(* The Ethereum nodes behind evm.EVM.evmClients, as far as the tool sees   *)
(* them: PendingNonceAt and SendTransaction.  The nodes are not part of    *)
(* the repository; this module is the environment the evm package runs     *)
(* against.                                                                *)
(*                                                                         *)
(* Every node keeps a pool of the transactions it has taken, mined or not. *)
(* A transaction is identified by everything that is signed: the sender,   *)
(* the nonce, what is transferred and to whom (all transactions of the     *)
(* tool carry the same gas price, so an occupied nonce is never replaced). *)
(***************************************************************************)
EXTENDS Integers, FiniteSets

CONSTANTS
  NumClients,   \* len(e.evmClients), the "rpc" list of the [evm] section
  NumAccounts   \* len(e.accounts), the "account" entry of the [evm] section

ASSUME EvmConfig ==
  /\ NumClients \in Nat \ {0}
  /\ NumAccounts \in Nat \ {0}

Clients  == 0 .. NumClients - 1
Accounts == 0 .. NumAccounts - 1

Tx == [from : Accounts, nonce : Nat, what : {"token", "meer"}, to : Accounts]

VARIABLE pool   \* pool[c]: the transactions node c has taken

NodeInit == pool = [c \in Clients |-> {}]

\* Node c holds a transaction of account a with nonce n.
Occupied(c, a, n) == \E t \in pool[c] : t.from = a /\ t.nonce = n

(* The answers node c may give to PendingNonceAt(a): the first nonce that  *)
(* no transaction of a occupies.  By counting, it is at most the number of *)
(* transactions in the pool.                                               *)
PendingNonces(c, a) ==
  {n \in 0 .. Cardinality(pool[c]) :
     /\ ~Occupied(c, a, n)
     /\ \A m \in 0 .. n - 1 : Occupied(c, a, m)}

\* Node c takes t.
Accept(c, t) ==
  /\ ~Occupied(c, t.from, t.nonce)
  /\ pool' = [pool EXCEPT ![c] = @ \cup {t}]

(* SendTransaction(t) at node c answered without an error, and with one.   *)
(* An error means the node refused t (nonce occupied: "already known",     *)
(* "underpriced", "nonce too low"; or funds, pool limits, an unreachable   *)
(* node) or took it and the answer was lost.                               *)
SendOk(c, t)    == Accept(c, t)
SendError(c, t) == Accept(c, t) \/ UNCHANGED pool

(* Nodes exchange transactions.  A node whose nonce is already occupied    *)
(* keeps what it has.                                                      *)
Gossip(c, d) == \E t \in pool[c] : Accept(d, t)
=============================================================================
