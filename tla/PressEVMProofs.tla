--------------------------- MODULE PressEVMProofs ---------------------------
(***************************************************************************)
(* Safety of PressEVM for any number of nodes, accounts and transactions,  *)
(* whatever others do to the pools of the nodes.                           *)
(***************************************************************************)
EXTENDS PressEVM, Sets

\* Transactions the accounts before account k build.
Before(k) ==
  IF k = 0 THEN 0 ELSE (k * (count \div NumAccounts)) + (count % NumAccounts)

\* Transactions taken out of the channel in the send phase.
Taken == count - Len(ch)

\* Node c's goroutine has transaction number n in its hands.
Holds(c, n) == pc[c] = "send" /\ held[c].index = n

(* The channel holds the latest transactions in the order they were built. *)
Queue ==
  /\ Len(ch) <= index
  /\ \A k \in 1 .. Len(ch) : ch[k].index = index - Len(ch) + k - 1

(* While the channel is filled nothing leaves it, and the number of        *)
(* transactions built is what the accounts served so far account for.      *)
Filling ==
  /\ phase \in {"account", "fill"} =>
       count \in Nat /\ i < NumAccounts /\ Len(ch) = index
  /\ phase = "account" => index = Before(i)
  /\ phase = "fill" => index = Before(i) + j /\ j <= AvgCount(count, i)

\* The goroutines run only once all transactions are built.
Running ==
  /\ phase \notin {"send", "returned"} =>
       attempted = {} /\ \A c \in Clients : pc[c] = "off"
  /\ phase \in {"send", "returned"} =>
       index = count /\ \A c \in Clients : pc[c] # "off"
  /\ phase = "returned" => \A c \in Clients : pc[c] = "done"
  /\ \A c \in Clients : pc[c] = "done" => ch = <<>>

(* Every transaction taken out of the channel is either attempted or in    *)
(* the hands of exactly one goroutine.                                     *)
Accounted ==
  phase \in {"send", "returned"} =>
    /\ attempted \subseteq 0 .. Taken - 1
    /\ \A c \in Clients : pc[c] = "send" =>
         /\ held[c] \in Job
         /\ held[c].index \in (0 .. Taken - 1) \ attempted
         /\ \A d \in Clients \ {c} : ~Holds(d, held[c].index)
    /\ \A n \in 0 .. Taken - 1 :
         n \in attempted \/ \E c \in Clients : Holds(c, n)

(* For every attempted transaction there is a goroutine that holds nothing *)
(* older.                                                                  *)
Overtaking ==
  \A m \in attempted : \E c \in Clients :
    ~(pc[c] = "send" /\ held[c].index < m)

\* The types of the variables of the press; the pools are not its own.
PressTypes ==
  /\ phase \in Phases
  /\ count \in Int
  /\ i \in 0 .. NumAccounts
  /\ j \in Nat
  /\ nonce \in Nat
  /\ index \in Nat
  /\ ch \in Seq(Job)
  /\ pc \in [Clients -> {"off", "recv", "send", "check", "done"}]
  /\ held \in [Clients -> Job \cup {NoJob}]
  /\ attempted \subseteq Nat

IInv ==
  PressTypes /\ Queue /\ Filling /\ Running /\ Accounted /\ Overtaking
           /\ LastOneReturns

(* The model's one-line helpers are always expanded.                       *)
USE DEF Put, Rest, SeesEnd, Senders, AllDone, MoreAccounts

-----------------------------------------------------------------------------
\* The shares of the accounts up to and including account k, and their bound.
LEMMA BeforeNext ==
  ASSUME count \in Nat, NEW k \in Accounts
  PROVE  /\ Before(k) \in Nat
         /\ AvgCount(count, k) \in Nat
         /\ Before(k + 1) = Before(k) + AvgCount(count, k)
         /\ Before(k + 1) <= count
<1> DEFINE q == count \div NumAccounts
           r == count % NumAccounts
<1>1. q \in Nat /\ r \in Nat /\ count = (NumAccounts * q) + r
  BY EvmConfig
<1>2. k \in Nat /\ k + 1 \in Nat /\ k + 1 <= NumAccounts
  BY EvmConfig DEF Accounts
<1> HIDE DEF q, r
<1>3. /\ k * q \in Nat
      /\ (k + 1) * q = (k * q) + q
      /\ (k + 1) * q <= NumAccounts * q
  BY <1>1, <1>2, EvmConfig
<1>4. Before(k) = (IF k = 0 THEN 0 ELSE (k * q) + r)
  BY DEF Before, q, r
<1>5. Before(k + 1) = ((k + 1) * q) + r
  BY <1>2 DEF Before, q, r
<1>6. AvgCount(count, k) = q + (IF k = 0 THEN r ELSE 0)
  BY DEF AvgCount, q, r
<1>7. k = 0 => k * q = 0
  BY <1>1
<1> QED BY <1>1, <1>2, <1>3, <1>4, <1>5, <1>6, <1>7, EvmConfig

\* The shares of all accounts add up to count.
LEMMA BeforeAll ==
  ASSUME count \in Nat
  PROVE  Before(NumAccounts) = count
BY EvmConfig DEF Before

\* A nonce a node answers with is a natural number.
LEMMA PendingNonceIsNat ==
  ASSUME NEW c, NEW a
  PROVE  PendingNonces(c, a) \subseteq Nat
BY DEF PendingNonces

\* What CreateTx builds is a transaction.
LEMMA PressTxIsTx ==
  ASSUME NEW a \in Accounts, NEW n \in Nat
  PROVE  PressTx(a, n) \in Tx
BY DEF PressTx, Tx

-----------------------------------------------------------------------------
\* The invariant holds before the first call.
LEMMA InitIInv == PressInit => IInv
BY EvmConfig DEF PressInit, IInv, PressTypes, Phases, Queue,
   Filling, Running, Accounted, Overtaking, LastOneReturns

\* A call keeps the invariant: it starts from scratch.
LEMMA CallStep ==
  ASSUME IInv, phase \in Ended, NEW n \in Counts, NEW tps \in TpsValues,
         Call(n, tps)
  PROVE  IInv'
<1>1. n \in Int /\ (n \in Nat \/ phase' = "panicked")
  BY PressArguments DEF Call, PressPanics
<1>2. PressTypes'
  BY <1>1, EvmConfig DEF IInv, PressTypes, Call, Phases
<1>3. Queue' /\ Running' /\ Accounted' /\ Overtaking' /\ LastOneReturns'
  BY DEF Call, Queue, Running, Accounted, Overtaking, LastOneReturns
<1>4. Filling'
  BY <1>1, EvmConfig DEF Call, Filling, Before
<1> QED BY <1>2, <1>3, <1>4 DEF IInv

\* Asking for a nonce keeps the invariant.
LEMMA QueryNonceStep ==
  ASSUME IInv, QueryNonce
  PROVE  IInv'
<1>1. PressTypes'
  BY PendingNonceIsNat DEF IInv, PressTypes, QueryNonce, Phases
<1>2. Queue' /\ Running' /\ Accounted' /\ Overtaking' /\ LastOneReturns'
  BY DEF IInv, QueryNonce, Queue, Running, Accounted, Overtaking, Taken,
         Holds, LastOneReturns
<1>3. i \in Accounts
  BY EvmConfig DEF IInv, PressTypes, QueryNonce, Filling, Accounts
<1>4. Before(i)' = Before(i) /\ AvgCount(count, i)' = AvgCount(count, i)
  BY DEF QueryNonce, Before, AvgCount
<1>5. Filling'
  BY <1>3, <1>4, BeforeNext DEF IInv, PressTypes, QueryNonce, Filling
<1> QED BY <1>1, <1>2, <1>5 DEF IInv

\* Building a transaction keeps the invariant: one more in the channel.
LEMMA CreateTxStep ==
  ASSUME IInv, CreateTx
  PROVE  IInv'
<1>1. /\ phase = "fill" /\ count \in Nat /\ i \in Accounts
      /\ ch \in Seq(Job) /\ Len(ch) = index /\ index \in Nat /\ nonce \in Nat
  BY EvmConfig DEF IInv, PressTypes, CreateTx, Filling, Accounts
<1>2. [tx |-> PressTx(i, nonce), index |-> index] \in Job
  BY <1>1, PressTxIsTx DEF Job
<1>3. PressTypes'
  <2>1. ch' \in Seq(Job)
    <3> DEFINE job == [tx |-> PressTx(i, nonce), index |-> index]
    <3>1. ch' = Append(ch, job) \/ ch' = ch
      BY DEF CreateTx
    <3> HIDE DEF job
    <3> QED BY <1>1, <1>2, <3>1 DEF job
  <2> QED BY <1>1, <2>1 DEF IInv, PressTypes, CreateTx, Phases
<1>4. Queue'
  <2>1. CASE phase' = "failed"
    BY <2>1 DEF IInv, CreateTx, Queue
  <2>2. CASE ch' = Put(ch, [tx |-> PressTx(i, nonce), index |-> index])
             /\ index' = index + 1
    <3>1. Len(ch') = Len(ch) + 1
      BY <1>1, <1>2, <2>2
    <3>2. ASSUME NEW k \in 1 .. Len(ch')
          PROVE  ch'[k].index = index' - Len(ch') + k - 1
      BY <1>1, <1>2, <2>2, <3>1 DEF IInv, Queue
    <3> QED BY <1>1, <2>2, <3>1, <3>2 DEF Queue
  <2> QED BY <2>1, <2>2 DEF CreateTx
<1>5. Running' /\ Accounted' /\ Overtaking' /\ LastOneReturns'
  BY <1>1 DEF IInv, CreateTx, Running, Accounted, Overtaking, LastOneReturns
<1>6. Before(i)' = Before(i) /\ AvgCount(count, i)' = AvgCount(count, i)
  BY DEF CreateTx, Before, AvgCount
<1>7. Filling'
  <2>1. CASE phase' = "failed"
    BY <2>1 DEF Filling
  <2>2. CASE /\ ch' = Put(ch, [tx |-> PressTx(i, nonce), index |-> index])
             /\ index' = index + 1 /\ j' = j + 1 /\ phase' = phase
    <3>1. Len(ch') = index'
      BY <1>1, <1>2, <2>2
    <3> QED BY <1>1, <1>6, <2>2, <3>1, BeforeNext
            DEF IInv, PressTypes, CreateTx, Filling
  <2> QED BY <2>1, <2>2 DEF CreateTx
<1> QED BY <1>3, <1>4, <1>5, <1>7 DEF IInv

\* Going to the next account, or starting the goroutines, keeps it.
LEMMA EndAccountStep ==
  ASSUME IInv, EndAccount
  PROVE  IInv'
<1>1. /\ phase = "fill" /\ count \in Nat /\ i \in Accounts /\ i \in Nat
      /\ ch \in Seq(Job) /\ Len(ch) = index /\ index \in Nat
      /\ index = Before(i) + AvgCount(count, i)
  BY EvmConfig DEF IInv, PressTypes, EndAccount, Filling, Accounts
<1>2. index = Before(i + 1)
  BY <1>1, BeforeNext
<1>3. PressTypes' /\ Queue'
  BY <1>1, EvmConfig DEF IInv, PressTypes, EndAccount, Phases, Queue, Accounts
<1>4. Overtaking'
  BY <1>1 DEF IInv, EndAccount, Overtaking, Running
<1>5. CASE i + 1 < NumAccounts
  <2>1. Before(i)' = Before(i + 1)
    BY <1>1 DEF EndAccount, Before
  <2>2. Filling'
    BY <1>1, <1>2, <1>5, <2>1 DEF EndAccount, Filling
  <2>3. Running' /\ Accounted' /\ LastOneReturns'
    BY <1>1, <1>5
       DEF IInv, EndAccount, Running, Accounted, LastOneReturns
  <2> QED BY <1>3, <1>4, <2>2, <2>3 DEF IInv
<1>6. CASE ~(i + 1 < NumAccounts)
  <2>1. i + 1 = NumAccounts
    BY <1>1, <1>6, EvmConfig DEF Accounts
  <2>2. index = count
    BY <1>1, <1>2, <2>1, BeforeAll
  <2>3. /\ phase' = "send" /\ pc' = [c \in Clients |-> "recv"]
        /\ UNCHANGED <<count, index, ch, held, attempted>>
    BY <1>6 DEF EndAccount
  <2>4. Filling' /\ Running'
    BY <1>1, <2>2, <2>3 DEF Filling, Running
  <2>5. Taken' = 0
    BY <1>1, <2>2, <2>3 DEF Taken
  <2>6. Accounted'
    BY <1>1, <2>3, <2>5 DEF IInv, Accounted, Running, Holds
  <2>7. LastOneReturns'
    BY <1>1, <2>2, <2>3 DEF LastOneReturns
  <2> QED BY <1>3, <1>4, <2>4, <2>6, <2>7 DEF IInv
<1> QED BY <1>5, <1>6

\* A goroutine that looks at the channel keeps the invariant.
LEMMA CheckStep ==
  ASSUME IInv, NEW c \in Clients, Check(c)
  PROVE  IInv'
<1>1. /\ pc[c] = "check" /\ pc \in [Clients -> {"off", "recv", "send", "check", "done"}]
      /\ pc' = [pc EXCEPT ![c] = IF ch = <<>> THEN "done" ELSE "recv"]
      /\ UNCHANGED <<phase, count, i, j, nonce, index, ch, held, attempted>>
  BY DEF IInv, PressTypes, Check
<1>2. \A d \in Clients : pc'[d] = "send" <=> pc[d] = "send"
  BY <1>1
<1>3. phase = "send"
  BY <1>1 DEF IInv, PressTypes, Running
<1>4. PressTypes' /\ Queue' /\ Filling' /\ Running'
  BY <1>1, <1>3 DEF IInv, PressTypes, Queue, Filling, Running, Before, AvgCount
<1>5. Accounted' /\ Overtaking'
  BY <1>1, <1>2 DEF IInv, Accounted, Overtaking, Taken, Holds
<1>6. LastOneReturns'
  BY <1>1 DEF IInv, LastOneReturns
<1> QED BY <1>4, <1>5, <1>6 DEF IInv

\* The return from wg.Wait() keeps the invariant.
LEMMA WaitReturnsStep ==
  ASSUME IInv, WaitReturns
  PROVE  IInv'
<1>1. PressTypes' /\ Queue' /\ Filling' /\ Running'
  BY DEF IInv, PressTypes, WaitReturns, Queue, Filling, Running, Phases
<1>2. Accounted' /\ Overtaking' /\ LastOneReturns'
  BY DEF IInv, WaitReturns, Accounted, Overtaking, Taken, Holds, LastOneReturns
<1> QED BY <1>1, <1>2 DEF IInv

\* A step of others keeps the invariant.
LEMMA StutterStep ==
  ASSUME IInv, UNCHANGED pressVars
  PROVE  IInv'
BY DEF pressVars, IInv, PressTypes, Queue, Filling, Running, Accounted,
   Overtaking, Taken, Holds, LastOneReturns, Before, AvgCount

\* A receive keeps the invariant: the oldest transaction changes hands.
LEMMA RecvStep ==
  ASSUME IInv, NEW c \in Clients, Recv(c)
  PROVE  IInv'
<1> DEFINE n == Taken
<1>1. /\ pc[c] = "recv" /\ ch # <<>> /\ ch \in Seq(Job) /\ index \in Nat
      /\ held' = [held EXCEPT ![c] = Head(ch)]
      /\ ch' = Tail(ch)
      /\ pc' = [pc EXCEPT ![c] = "send"]
      /\ UNCHANGED <<phase, count, i, j, nonce, index, attempted>>
  BY DEF IInv, PressTypes, Recv
<1>2. /\ pc \in [Clients -> {"off", "recv", "send", "check", "done"}]
      /\ held \in [Clients -> Job \cup {NoJob}]
  BY DEF IInv, PressTypes
<1>3. phase = "send" /\ index = count
  BY <1>1 DEF IInv, Running
<1>4. /\ Len(ch) \in Nat /\ Len(ch) > 0 /\ Len(ch') = Len(ch) - 1
      /\ \A k \in 1 .. Len(ch') : ch'[k] = ch[k + 1]
      /\ Head(ch) = ch[1] /\ Head(ch) \in Job /\ ch' \in Seq(Job)
  BY <1>1
<1>5. /\ n \in Nat /\ Taken' = n + 1
      /\ Head(ch).index = n
  BY <1>1, <1>3, <1>4 DEF IInv, Queue, Taken
<1>6. PressTypes'
  BY <1>1, <1>2, <1>4 DEF IInv, PressTypes
<1>7. Queue'
  BY <1>1, <1>4 DEF IInv, Queue
<1>8. Filling' /\ Running'
  BY <1>1, <1>2, <1>3 DEF IInv, Filling, Running
<1> HIDE DEF n
<1>9. /\ pc'[c] = "send" /\ held'[c] = Head(ch)
      /\ \A d \in Clients \ {c} : pc'[d] = pc[d] /\ held'[d] = held[d]
  BY <1>1, <1>2
<1>10. Accounted'
  <2>1. /\ attempted \subseteq 0 .. n - 1
        /\ \A d \in Clients : pc[d] = "send" =>
             /\ held[d] \in Job
             /\ held[d].index \in (0 .. n - 1) \ attempted
             /\ \A e \in Clients \ {d} : ~Holds(e, held[d].index)
        /\ \A m \in 0 .. n - 1 :
             m \in attempted \/ \E d \in Clients : Holds(d, m)
    BY <1>3 DEF IInv, Accounted, n
  <2>2. attempted' \subseteq 0 .. Taken' - 1
    BY <1>1, <1>5, <2>1
  <2>3. ASSUME NEW d \in Clients, pc'[d] = "send"
        PROVE  /\ held'[d] \in Job
               /\ held'[d].index \in (0 .. Taken' - 1) \ attempted'
               /\ \A e \in Clients \ {d} : ~Holds(e, held[d].index)'
    <3>1. CASE d = c
      BY <1>1, <1>4, <1>5, <1>9, <2>1, <3>1 DEF Holds
    <3>2. CASE d # c
      BY <1>1, <1>5, <1>9, <2>1, <2>3, <3>2 DEF Holds
    <3> QED BY <3>1, <3>2
  <2>4. ASSUME NEW m \in 0 .. Taken' - 1
        PROVE  m \in attempted' \/ \E d \in Clients : Holds(d, m)'
    <3>1. CASE m = n
      BY <1>5, <1>9, <3>1 DEF Holds
    <3>2. CASE m # n
      <4>1. m \in 0 .. n - 1
        BY <1>5, <2>4, <3>2
      <4>2. m \in attempted \/ \E d \in Clients : Holds(d, m)
        BY <2>1, <4>1
      <4> QED BY <1>1, <1>9, <4>2 DEF Holds
    <3> QED BY <3>1, <3>2
  <2> QED BY <2>2, <2>3, <2>4 DEF Accounted
<1>11. Overtaking'
  <2>1. attempted \subseteq 0 .. n - 1
    BY <1>3 DEF IInv, Accounted, n
  <2> SUFFICES ASSUME NEW m \in attempted
               PROVE  \E d \in Clients : ~(pc'[d] = "send" /\ held'[d].index < m)
    BY <1>1 DEF Overtaking
  <2>2. ~(pc'[c] = "send" /\ held'[c].index < m)
    BY <1>5, <1>9, <2>1
  <2> QED BY <2>2
<1>12. LastOneReturns'
  BY <1>9 DEF LastOneReturns
<1> QED BY <1>6, <1>7, <1>8, <1>10, <1>11, <1>12 DEF IInv

\* A send keeps the invariant: the transaction at hand is attempted.
LEMMA SendStep ==
  ASSUME IInv, NEW c \in Clients, Send(c)
  PROVE  IInv'
<1>1. /\ pc[c] = "send"
      /\ attempted' = attempted \cup {held[c].index}
      /\ held' = [held EXCEPT ![c] = NoJob]
      /\ pc' = [pc EXCEPT ![c] = "check"]
      /\ UNCHANGED <<phase, count, i, j, nonce, index, ch>>
  BY DEF Send
<1>2. /\ pc \in [Clients -> {"off", "recv", "send", "check", "done"}]
      /\ held \in [Clients -> Job \cup {NoJob}]
  BY DEF IInv, PressTypes
<1>3. phase = "send"
  BY <1>1, <1>2 DEF IInv, Running
<1>4. /\ attempted \subseteq 0 .. Taken - 1
      /\ \A d \in Clients : pc[d] = "send" =>
           /\ held[d] \in Job
           /\ held[d].index \in (0 .. Taken - 1) \ attempted
           /\ \A e \in Clients \ {d} : ~Holds(e, held[d].index)
      /\ \A m \in 0 .. Taken - 1 :
           m \in attempted \/ \E d \in Clients : Holds(d, m)
  BY <1>3 DEF IInv, Accounted
<1>5. held[c] \in Job /\ held[c].index \in Nat /\ held[c].tx \in Tx
  BY <1>1, <1>4 DEF Job
<1>7. PressTypes'
  BY <1>1, <1>2, <1>5 DEF IInv, PressTypes
<1>8. Queue' /\ Filling' /\ Running'
  BY <1>1, <1>2, <1>3 DEF IInv, Queue, Filling, Running
<1>9. /\ pc'[c] = "check"
      /\ \A d \in Clients \ {c} : pc'[d] = pc[d] /\ held'[d] = held[d]
  BY <1>1, <1>2
<1>10. Accounted'
  <2>1. Taken' = Taken
    BY <1>1 DEF Taken
  <2>2. attempted' \subseteq 0 .. Taken' - 1
    BY <1>1, <1>4, <2>1
  <2>3. ASSUME NEW d \in Clients, pc'[d] = "send"
        PROVE  /\ held'[d] \in Job
               /\ held'[d].index \in (0 .. Taken' - 1) \ attempted'
               /\ \A e \in Clients \ {d} : ~Holds(e, held[d].index)'
    BY <1>1, <1>4, <1>9, <2>1, <2>3 DEF Holds
  <2>4. ASSUME NEW m \in 0 .. Taken' - 1
        PROVE  m \in attempted' \/ \E d \in Clients : Holds(d, m)'
    BY <1>1, <1>4, <1>9, <2>1, <2>4 DEF Holds
  <2> QED BY <2>2, <2>3, <2>4 DEF Accounted
<1>11. Overtaking'
  <2> SUFFICES ASSUME NEW m \in attempted'
               PROVE  \E d \in Clients : ~(pc'[d] = "send" /\ held'[d].index < m)
    BY DEF Overtaking
  <2> QED BY <1>9
<1>12. LastOneReturns'
  BY <1>9 DEF LastOneReturns
<1> QED BY <1>7, <1>8, <1>10, <1>11, <1>12 DEF IInv

-----------------------------------------------------------------------------
\* Every step keeps the invariant.
LEMMA NextStep == IInv /\ [PressNext]_pressVars => IInv'
<1> SUFFICES ASSUME IInv, [PressNext]_pressVars
             PROVE  IInv'
  OBVIOUS
<1>1. CASE phase \in Ended /\ \E n \in Counts, tps \in TpsValues : Call(n, tps)
  BY <1>1, CallStep
<1>2. CASE QueryNonce
  BY <1>2, QueryNonceStep
<1>3. CASE CreateTx
  BY <1>3, CreateTxStep
<1>4. CASE EndAccount
  BY <1>4, EndAccountStep
<1>5. ASSUME NEW c \in Clients, Sender(c)
      PROVE  IInv'
  BY <1>5, RecvStep, SendStep, CheckStep DEF Sender
<1>6. CASE WaitReturns
  BY <1>6, WaitReturnsStep
<1>7. CASE UNCHANGED pressVars
  BY <1>7, StutterStep
<1> QED BY <1>1, <1>2, <1>3, <1>4, <1>5, <1>6, <1>7 DEF PressNext, PressSteps

\* The invariant holds throughout every behaviour of a press, whatever
\* others do to the pools.
THEOREM Inductive == PressSpec => []IInv
BY InitIInv, NextStep, PTL DEF PressSpec

\* The nodes of Spec are a case of that: gossip does not touch the press.
LEMMA NodesAreOthers == Spec => PressSpec
<1>1. [Next]_vars => [PressNext]_pressVars
  BY DEF Next, vars
<1> QED BY <1>1, PTL DEF Spec, Init, PressSpec

\* Taking a transaction keeps the type of the pools.
LEMMA AcceptPool ==
  ASSUME NEW c \in Clients, NEW t \in Tx, pool \in [Clients -> SUBSET Tx],
         Accept(c, t) \/ UNCHANGED pool
  PROVE  pool' \in [Clients -> SUBSET Tx]
BY DEF Accept

\* Every step that may touch the pools keeps their type.
LEMMA PoolType ==
  ASSUME IInv, pool \in [Clients -> SUBSET Tx], [Next]_vars
  PROVE  pool' \in [Clients -> SUBSET Tx]
<1>1. ASSUME NEW c \in Clients, Send(c)
      PROVE  pool' \in [Clients -> SUBSET Tx]
  <2>1. pc[c] = "send" /\ phase = "send"
    BY <1>1 DEF Send, IInv, PressTypes, Running
  <2>2. held[c].tx \in Tx
    BY <2>1 DEF IInv, Accounted, Job
  <2> QED BY <1>1, <2>2, AcceptPool DEF Send, SendOk, SendError
<1>2. ASSUME NEW c \in Clients, NEW d \in Clients, Gossip(c, d)
      PROVE  pool' \in [Clients -> SUBSET Tx]
  BY <1>2, AcceptPool DEF Gossip
<1> QED BY <1>1, <1>2
        DEF Next, PressNext, PressSteps, Call, QueryNonce, CreateTx, EndAccount,
            Sender, Recv, Check, WaitReturns, vars

\* Every variable has its type (evm.go:153-228).
THEOREM TypeCorrect == Spec => []TypeOK
<1> DEFINE PoolOK == pool \in [Clients -> SUBSET Tx]
<1>1. Init => PoolOK
  BY DEF Init, NodeInit
<1>2. IInv /\ PoolOK /\ [Next]_vars => PoolOK'
  BY PoolType
<1>3. IInv /\ PoolOK => TypeOK
  BY DEF IInv, PressTypes, TypeOK
<1> QED BY <1>1, <1>2, <1>3, Inductive, NodesAreOthers, PTL DEF Spec

\* If there was anything to send, not every goroutine waits on the drained
\* channel: the one that took the last transaction is past its receive
\* (evm.go:215, 222).
THEOREM LastOneAlwaysReturns == Spec => []LastOneReturns
BY Inductive, NodesAreOthers, PTL DEF IInv

\* What a goroutine holds is neither attempted nor held by another.
LEMMA HeldByOne == IInv => SentAtMostOnce
BY DEF IInv, SentAtMostOnce, Accounted, Running, Holds, PressTypes

\* No transaction number is handed to the nodes twice or held by two
\* goroutines (evm.go:215-216).
THEOREM SentOnce == Spec => []SentAtMostOnce
BY HeldByOne, Inductive, NodesAreOthers, PTL

\* Short of an account's share, the channel has room.
LEMMA RoomForShare == IInv => PutNeverBlocks
<1>1. ASSUME IInv, phase = "fill", j < AvgCount(count, i)
      PROVE  Len(ch) < count
  <2>1. i \in Accounts /\ count \in Nat /\ j \in Nat
    BY <1>1, EvmConfig DEF IInv, PressTypes, Filling, Accounts
  <2>2. Len(ch) = Before(i) + j
    BY <1>1 DEF IInv, Filling
  <2> QED BY <1>1, <2>1, <2>2, BeforeNext
<1> QED BY <1>1 DEF PutNeverBlocks

\* The put of evm.go:185 always finds room in the channel.
THEOREM FillingNeverBlocks == Spec => []PutNeverBlocks
BY RoomForShare, Inductive, NodesAreOthers, PTL

\* When the channel is drained, or the press has returned, every transaction
\* is attempted.
LEMMA DrainedMeansAll ==
  ASSUME IInv, phase = "returned" \/ Drained
  PROVE  attempted = 0 .. count - 1
<1>1. Clients # {}
  BY EvmConfig DEF Clients
<1>2. ch = <<>> /\ phase \in {"send", "returned"}
  BY <1>1 DEF IInv, Running, Drained
<1>3. \A c \in Clients : pc[c] # "send"
  BY DEF IInv, Running, Drained
<1>4. count \in Int /\ Taken = count
  BY <1>2 DEF IInv, PressTypes, Taken
<1> QED BY <1>2, <1>3, <1>4 DEF IInv, Accounted, Holds

\* A press that returned, or hangs with the channel drained, has handed over
\* all of its count transactions (evm.go:201-208).
THEOREM NothingLost == Spec => []AllAttempted
<1>1. IInv => AllAttempted
  BY DrainedMeansAll DEF AllAttempted
<1> QED BY <1>1, Inductive, NodesAreOthers, PTL

\* A goroutine that waits on the drained channel goes on waiting.
LEMMA StuckStep ==
  ASSUME IInv, [PressNext]_pressVars, Stuck
  PROVE  Stuck'
<1>1. PICK c \in Clients : pc[c] = "recv"
  BY DEF Stuck
<1>2. phase = "send" /\ ch = <<>>
  BY DEF Stuck
<1>3. CASE UNCHANGED pressVars
  BY <1>3 DEF pressVars, Stuck
<1>4. ASSUME NEW d \in Clients, Sender(d)
      PROVE  Stuck'
  BY <1>1, <1>2, <1>4
       DEF IInv, PressTypes, Sender, Recv, Send, Check, Stuck
<1> QED BY <1>1, <1>2, <1>3, <1>4
        DEF PressNext, PressSteps, QueryNonce, CreateTx, EndAccount,
            WaitReturns, Ended, pressVars

\* A stuck press never gets on: nobody fills the channel again (evm.go:201,
\* 215).
THEOREM StuckStaysStuck == Spec => StuckIsForever
<1>1. IInv /\ [PressNext]_pressVars => (Stuck => Stuck')
  BY StuckStep
<1> QED BY <1>1, Inductive, NodesAreOthers, PTL DEF PressSpec, StuckIsForever

\* Fewer than NumClients transactions older than an attempted one are still
\* waiting: each is in the hands of a different goroutine and one goroutine
\* holds none of them.
LEMMA ReorderIsBounded == IInv => BoundedReorder
<1>1. ASSUME IInv, NEW m \in attempted
      PROVE  Cardinality((0 .. m - 1) \ attempted) < NumClients
  <2> DEFINE waiting == (0 .. m - 1) \ attempted
  <2>1. phase \in {"send", "returned"}
    BY <1>1 DEF IInv, Running
  <2>2. m \in 0 .. Taken - 1 /\ Taken \in Int
    BY <1>1, <2>1 DEF IInv, PressTypes, Accounted, Taken
  <2>3. PICK c \in Clients : ~(pc[c] = "send" /\ held[c].index < m)
    BY <1>1 DEF IInv, Overtaking
  <2>4. \A n \in waiting : \E d \in Clients \ {c} : held[d].index = n
    BY <1>1, <2>1, <2>2, <2>3 DEF IInv, Accounted, Holds
  <2> DEFINE f == [d \in Clients \ {c} |-> held[d].index]
             others == {f[d] : d \in Clients \ {c}}
  <2>5. IsFiniteSet(Clients) /\ Cardinality(Clients) = NumClients
    BY FS_Interval, EvmConfig DEF Clients
  <2>6. /\ IsFiniteSet(Clients \ {c})
        /\ Cardinality(Clients \ {c}) = NumClients - 1
    BY <2>5, FS_RemoveElement
  <2>7. IsFiniteSet(others) /\ Cardinality(others) <= NumClients - 1
    <3>1. f \in Surjection(Clients \ {c}, others)
      BY Zenon DEF Surjection
    <3>2. IsFiniteSet(others) /\ Cardinality(others) <= Cardinality(Clients \ {c})
      BY <2>6, <3>1, FS_Surjection, Zenon
    <3> QED BY <2>6, <3>2, Zenon
  <2>8. waiting \subseteq others
    BY <2>4
  <2>9. Cardinality(waiting) <= Cardinality(others) /\ IsFiniteSet(waiting)
    BY <2>7, <2>8, FS_Subset
  <2>10. Cardinality(waiting) \in Nat /\ Cardinality(others) \in Nat
    BY <2>7, <2>9, FS_CardinalityType
  <2> QED BY <2>7, <2>9, <2>10, EvmConfig
<1> QED BY <1>1 DEF BoundedReorder

\* When a transaction is handed over, fewer than NumClients older ones are
\* still waiting (evm.go:215-216).
THEOREM LittleReordering == Spec => []BoundedReorder
BY ReorderIsBounded, Inductive, NodesAreOthers, PTL

-----------------------------------------------------------------------------
\* Before the first call the dealer is ready.
LEMMA DealerInit == PressInit => D!Init
BY DEF PressInit, D!Init, Dealing

\* A goroutine's send is the dealer handing over an item.
LEMMA SendIsHandOver ==
  ASSUME IInv, BoundedReorder', NEW c \in Clients, Send(c)
  PROVE  D!Next
<1> DEFINE m == held[c].index
           todo == (0 .. count - 1) \ attempted
<1>1. /\ pc[c] = "send" /\ phase = "send"
      /\ attempted' = attempted \cup {m}
      /\ UNCHANGED <<phase, count, ch>>
  BY DEF IInv, PressTypes, Running, Send
<1>2. /\ m \in (0 .. Taken - 1) \ attempted
      /\ attempted \subseteq 0 .. Taken - 1
      /\ count \in Int /\ Taken <= count /\ Taken \in Int
  BY <1>1 DEF IInv, PressTypes, Accounted, Taken
<1>3. m \in todo
  BY <1>2
<1>4. todo' = todo \ {m}
  BY <1>1
<1>5. {k \in todo : k < m} = (0 .. m - 1) \ attempted'
  BY <1>1, <1>2
<1>6. m \in attempted'
  BY <1>1
<1> HIDE DEF m
<1>7. Cardinality((0 .. m - 1) \ attempted') < NumClients
  BY <1>6 DEF BoundedReorder
<1>8. Dealing = "dealing" /\ Dealing' = "dealing"
  BY <1>1 DEF Dealing
<1> QED BY <1>3, <1>4, <1>5, <1>7, <1>8 DEF D!Next, D!HandOver, D!Cardinality, Cardinality

\* Every step of a press is a step of the dealer or leaves it alone.
LEMMA DealerStep ==
  IInv /\ BoundedReorder' /\ [PressNext]_pressVars => [D!Next]_(D!dealerVars)
<1> SUFFICES ASSUME IInv, BoundedReorder', [PressNext]_pressVars
             PROVE  D!Next \/ UNCHANGED <<Dealing, (0 .. count - 1) \ attempted>>
  BY DEF D!dealerVars
<1>1. ASSUME phase \in Ended, NEW n \in Counts, NEW tps \in TpsValues,
             Call(n, tps)
      PROVE  D!Next
  <2>1. Dealing \in {"ready", "returned", "failed"}
    BY <1>1 DEF Ended, Dealing
  <2>2. Dealing' \in {"preparing", "failed"}
    BY <1>1 DEF Call, Dealing
  <2>3. ((0 .. count - 1) \ attempted)' = 0 .. n - 1
    BY <1>1 DEF Call
  <2> QED BY <2>1, <2>2, <2>3 DEF D!Next, D!Call
<1>2. CASE QueryNonce \/ CreateTx \/ EndAccount
  <2>1. Dealing = "preparing" /\ Dealing' \in {"preparing", "dealing", "failed"}
    BY <1>2 DEF QueryNonce, CreateTx, EndAccount, Dealing
  <2>2. UNCHANGED <<count, attempted>>
    BY <1>2 DEF QueryNonce, CreateTx, EndAccount
  <2> QED BY <2>1, <2>2 DEF D!Next, D!Prepared
<1>3. ASSUME NEW c \in Clients, Recv(c) \/ Check(c)
      PROVE  UNCHANGED <<Dealing, (0 .. count - 1) \ attempted>>
  BY <1>3 DEF Recv, Check, Dealing
<1>4. ASSUME NEW c \in Clients, Send(c)
      PROVE  D!Next
  BY <1>4, SendIsHandOver
<1>5. CASE WaitReturns
  <2>1. Dealing = "dealing" /\ Dealing' = "returned"
    BY <1>5 DEF WaitReturns, Dealing
  <2>2. Drained
    BY <1>5, EvmConfig DEF IInv, WaitReturns, Drained, Running, Clients
  <2>3. (0 .. count - 1) \ attempted = {}
    BY <2>2, DrainedMeansAll
  <2>4. UNCHANGED <<count, attempted>>
    BY <1>5 DEF WaitReturns
  <2> QED BY <2>1, <2>3, <2>4 DEF D!Next, D!Return
<1>6. CASE UNCHANGED pressVars
  BY <1>6 DEF pressVars, Dealing
<1> QED BY <1>1, <1>2, <1>3, <1>4, <1>5, <1>6
        DEF PressNext, PressSteps, Sender

\* A press implements the dealer among others who do what they like to the
\* pools: fundings, gossip, the transactions of other programs.  With
\* ServerIsSerial of EvmControllerProofs this is the press of the server
\* (evm.go:153-228, controller/evm.go:9-12).
THEOREM OpenPressIsADealer == PressSpec => ImplementsDealer
BY DealerInit, DealerStep, ReorderIsBounded, Inductive, PTL
   DEF PressSpec, ImplementsDealer, D!Spec

\* And so do its safety properties hold among others.
THEOREM OpenPressIsSafe ==
  PressSpec => /\ [](PutNeverBlocks /\ SentAtMostOnce /\ AllAttempted)
               /\ [](BoundedReorder /\ LastOneReturns)
               /\ StuckIsForever
<1>1. IInv => PutNeverBlocks /\ SentAtMostOnce /\ AllAttempted
              /\ BoundedReorder /\ LastOneReturns
  BY RoomForShare, HeldByOne, DrainedMeansAll, ReorderIsBounded
     DEF IInv, AllAttempted
<1>2. IInv /\ [PressNext]_pressVars => (Stuck => Stuck')
  BY StuckStep
<1> QED BY <1>1, <1>2, Inductive, PTL DEF PressSpec, StuckIsForever

\* The press implements the dealer: for any number of nodes, accounts and
\* transactions a call hands over every transaction exactly once, less than
\* NumClients places out of order, and returns only then (evm.go:153-228).
THEOREM PressIsADealer == Spec => ImplementsDealer
BY OpenPressIsADealer, NodesAreOthers, PTL

-----------------------------------------------------------------------------
\* What the function has left to do up to its return: accounts, its place
\* with an account, transactions of this account.
CallToGo ==
  CASE phase = "account" -> <<NumAccounts - i, 2, 0>>
    [] phase = "fill"    -> <<NumAccounts - i, 1, AvgCount(count, i) - j>>
    [] phase = "send"    -> <<0, 1, 0>>
    [] OTHER             -> <<0, 0, 0>>

\* What the goroutine of node c has left to do: what is in the channel,
\* then its place with a transaction.
Place(p) ==
  CASE p = "send"  -> 3
    [] p = "check" -> 2
    [] p = "recv"  -> 1
    [] OTHER       -> 0
SenderToGo(c) == <<Len(ch), Place(pc[c]), 0>>

\* Both are measures.
LEMMA ToGoIsMeasure ==
  IInv => CallToGo \in Measures /\ \A c \in Clients : SenderToGo(c) \in Measures
<1> SUFFICES ASSUME IInv
             PROVE  CallToGo \in Measures /\ \A c \in Clients : SenderToGo(c) \in Measures
  OBVIOUS
<1>1. ch \in Seq(Job) /\ i \in Nat /\ j \in Nat /\ NumAccounts \in Nat
      /\ i <= NumAccounts /\ count \in Int
  BY EvmConfig DEF IInv, PressTypes
<1>2. phase = "fill" => AvgCount(count, i) - j \in Nat
  <2> SUFFICES ASSUME phase = "fill" PROVE AvgCount(count, i) - j \in Nat
    OBVIOUS
  <2>1. count \in Nat /\ i \in Accounts /\ j <= AvgCount(count, i)
    BY <1>1 DEF IInv, Filling, Accounts
  <2>2. AvgCount(count, i) \in Nat
    BY <2>1, BeforeNext
  <2> QED BY <1>1, <2>1, <2>2
<1>3. \A p : Place(p) \in Nat
  BY DEF Place
<1> QED BY <1>1, <1>2, <1>3 DEF CallToGo, SenderToGo, Measures

\* The function's own steps bring it closer to its return, those of the
\* goroutines take nothing back.
LEMMA CallCloser ==
  ASSUME IInv, [PressNext]_pressVars, phase \notin Ended
  PROVE  /\ QueryNonce \/ CreateTx \/ EndAccount \/ WaitReturns =>
              Closer(CallToGo', CallToGo)
         /\ CallToGo' = CallToGo \/ Closer(CallToGo', CallToGo)
<1>1. i \in Nat /\ j \in Nat /\ NumAccounts \in Nat /\ i <= NumAccounts
  BY EvmConfig DEF IInv, PressTypes
<1>2. CASE QueryNonce
  BY <1>1, <1>2 DEF IInv, Filling, QueryNonce, CallToGo, Closer
<1>3. CASE CreateTx
  <2>1. AvgCount(count, i) \in Nat
    BY <1>1, <1>3, BeforeNext DEF IInv, Filling, CreateTx, Accounts
  <2>2. CASE phase' = "failed"
    BY <1>1, <1>3, <2>2 DEF IInv, Filling, CreateTx, CallToGo, Closer
  <2>3. CASE phase' # "failed"
    <3>1. /\ phase = "fill" /\ phase' = "fill" /\ UNCHANGED <<i, count>>
          /\ j' = j + 1
      BY <1>3, <2>3 DEF CreateTx
    <3>2. AvgCount(count, i)' = AvgCount(count, i)
      BY <3>1 DEF AvgCount
    <3> QED BY <1>1, <2>1, <3>1, <3>2 DEF CallToGo, Closer
  <2> QED BY <2>2, <2>3
<1>4. CASE EndAccount
  <2>1. phase = "fill" /\ i < NumAccounts /\ i' = i + 1
        /\ (phase' = "account" \/ phase' = "send")
    BY <1>4 DEF IInv, Filling, EndAccount
  <2> QED BY <1>1, <2>1 DEF CallToGo, Closer
<1>5. CASE WaitReturns
  BY <1>5 DEF WaitReturns, CallToGo, Closer
<1>6. CASE UNCHANGED <<phase, i, j, count>>
  <2>1. AvgCount(count, i)' = AvgCount(count, i)
    BY <1>6 DEF AvgCount
  <2>2. CallToGo' = CallToGo
    BY <1>6, <2>1 DEF CallToGo
  <2>3. ~ (QueryNonce \/ CreateTx \/ EndAccount \/ WaitReturns)
    BY <1>1, <1>6 DEF QueryNonce, CreateTx, EndAccount, WaitReturns
  <2> QED BY <2>2, <2>3
<1> QED BY <1>2, <1>3, <1>4, <1>5, <1>6
        DEF PressNext, PressSteps, Sender, Recv, Send, Check, pressVars

\* A goroutine's own steps bring it closer to the end of the channel, those
\* of others take nothing back.
LEMMA SenderCloser ==
  ASSUME IInv, [PressNext]_pressVars, phase = "send", NEW c \in Clients
  PROVE  /\ Sender(c) => Closer(SenderToGo(c)', SenderToGo(c))
         /\ \/ SenderToGo(c)' = SenderToGo(c)
            \/ Closer(SenderToGo(c)', SenderToGo(c))
<1>1. ch \in Seq(Job) /\ pc \in [Clients -> {"off", "recv", "send", "check", "done"}]
  BY DEF IInv, PressTypes
<1>2. ASSUME NEW d \in Clients, Recv(d)
      PROVE  Closer(SenderToGo(c)', SenderToGo(c))
  <2>1. Len(ch') = Len(ch) - 1 /\ Len(ch) \in Nat
    BY <1>1, <1>2 DEF Recv
  <2> QED BY <2>1 DEF SenderToGo, Closer
<1>3. ASSUME NEW d \in Clients, Send(d) \/ Check(d)
      PROVE  IF d = c THEN Closer(SenderToGo(c)', SenderToGo(c))
             ELSE SenderToGo(c)' = SenderToGo(c)
  <2>1. ch' = ch /\ (d # c => pc'[c] = pc[c])
    BY <1>1, <1>3 DEF Send, Check
  <2>2. d = c => Place(pc'[c]) < Place(pc[c])
    BY <1>1, <1>3 DEF Send, Check, Place
  <2> QED BY <2>1, <2>2 DEF SenderToGo, Closer
<1>4. CASE UNCHANGED <<ch, pc>>
  <2>1. ~ Sender(c)
    <3>1. pc'[c] = pc[c]
      BY <1>4
    <3> QED BY <1>1, <3>1 DEF Sender, Recv, Send, Check
  <2> QED BY <1>4, <2>1 DEF SenderToGo
<1>5. CASE \E d \in Clients : Sender(d)
  <2>1. PICK d \in Clients : Recv(d) \/ Send(d) \/ Check(d)
    BY <1>5 DEF Sender
  <2>2. CASE Recv(d)
    BY <1>2, <2>2
  <2>3. CASE (Send(d) \/ Check(d)) /\ d = c
    BY <1>3, <2>3
  <2>4. CASE (Send(d) \/ Check(d)) /\ d # c
    <3>1. SenderToGo(c)' = SenderToGo(c)
      BY <1>3, <2>4
    <3>2. ~ Recv(c) /\ ~ Send(c) /\ ~ Check(c)
      BY <1>1, <2>4 DEF Recv, Send, Check
    <3> QED BY <3>1, <3>2 DEF Sender
  <2> QED BY <2>1, <2>2, <2>3, <2>4
<1> QED BY <1>4, <1>5
        DEF PressNext, PressSteps, QueryNonce, CreateTx, EndAccount, WaitReturns,
            Ended, pressVars

(* Every step of the function brings it closer to its return, every step   *)
(* of a goroutine that goroutine closer to the end of the channel, and no  *)
(* other step takes them back, whatever happens to the pools.  By          *)
(* NoEndlessDescent a press takes finitely many steps: it comes back or it *)
(* hangs, and by OpenPressIsSafe it hangs with nothing left to send        *)
(* (evm.go:153-228).                                                       *)
THEOREM PressGetsOn ==
  PressSpec =>
    /\ [](CallToGo \in Measures /\ \A c \in Clients : SenderToGo(c) \in Measures)
    /\ [][phase \notin Ended =>
           /\ QueryNonce \/ CreateTx \/ EndAccount \/ WaitReturns =>
                Closer(CallToGo', CallToGo)
           /\ CallToGo' = CallToGo \/ Closer(CallToGo', CallToGo)]_pressVars
    /\ [][phase = "send" => \A c \in Clients :
           /\ Sender(c) => Closer(SenderToGo(c)', SenderToGo(c))
           /\ \/ SenderToGo(c)' = SenderToGo(c)
              \/ Closer(SenderToGo(c)', SenderToGo(c))]_pressVars
<1> DEFINE Measured ==
             CallToGo \in Measures /\ \A c \in Clients : SenderToGo(c) \in Measures
           CallOn == phase \notin Ended =>
             /\ QueryNonce \/ CreateTx \/ EndAccount \/ WaitReturns =>
                  Closer(CallToGo', CallToGo)
             /\ CallToGo' = CallToGo \/ Closer(CallToGo', CallToGo)
           SendersOn == phase = "send" => \A c \in Clients :
             /\ Sender(c) => Closer(SenderToGo(c)', SenderToGo(c))
             /\ \/ SenderToGo(c)' = SenderToGo(c)
                \/ Closer(SenderToGo(c)', SenderToGo(c))
<1>1. IInv => Measured
  BY ToGoIsMeasure
<1>2. IInv /\ [PressNext]_pressVars => CallOn
  BY CallCloser
<1>3. IInv /\ [PressNext]_pressVars => SendersOn
  BY SenderCloser
<1> QED BY <1>1, <1>2, <1>3, Inductive, PTL DEF PressSpec
=============================================================================
