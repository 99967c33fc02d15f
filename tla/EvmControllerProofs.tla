------------------------ MODULE EvmControllerProofs ------------------------
(***************************************************************************)
(* The EVM operations of the server are serial, and what they leave in the *)
(* pools, for any number of requests, nodes and accounts.                  *)
(***************************************************************************)
EXTENDS EvmController, Sets

\* The requests whose arguments are still to be used carry proper ones.
ArgsOK ==
  \A r \in Reqs : status[r] \in {"waiting", "running"} =>
    args[r] \in PressArgs \cup ShareArgs

\* A call that does not wait for its goroutines has none that would act.
Goroutines ==
  /\ pc \in [Clients -> {"off", "recv", "send", "check", "done"}]
  /\ phase # "send" => \A c \in Clients : pc[c] \in {"off", "done"}

(* The mutex: only its holder's operation is under way.                    *)
Exclusion ==
  /\ Goroutines
  /\ status \in [Reqs -> {"new", "rejected", "waiting", "running", "answered"}]
  /\ args \in [Reqs -> {NoArgs} \cup PressArgs \cup ShareArgs]
  /\ lock \in Reqs \cup {NoReq}
  /\ ArgsOK
  /\ lock # NoReq => status[lock] = "running"
  /\ phase \notin P!Ended => lock \in Reqs /\ args[lock].op = "press"
  /\ stage \notin S!ShareEnded => lock \in Reqs /\ args[lock].op = "share"

(* The one-line helpers of the models are always expanded.                 *)
USE DEF Free, Unlocked, S!NonceAfterError, S!SkipPayee, P!Put, P!Rest, P!SeesEnd, P!Senders, P!AllDone, P!MoreAccounts

-----------------------------------------------------------------------------
\* The fields of the arguments.
LEMMA ArgsOp ==
  /\ \A a \in PressArgs : a.op = "press" /\ a.count \in Counts /\ a.tps \in TpsValues
  /\ \A a \in ShareArgs : a.op = "share" /\ a.amountOk \in BOOLEAN
BY DEF PressArgs, ShareArgs

\* The nodes of the press are the nodes.
LEMMA SameClients == P!Clients = Clients
BY DEF P!Clients, Clients

\* No operation is under way at first.
LEMMA InitExclusion == Init => Exclusion
BY SameClients DEF Init, Exclusion, Goroutines, ArgsOK, P!PressInit, S!ShareInit, P!Ended, S!ShareEnded

\* A request that arrives does not touch the operations.
LEMMA ArriveExclusion ==
  ASSUME Exclusion, NEW r \in Reqs, ArrivePress(r) \/ ArriveShare(r)
  PROVE  Exclusion'
<1>1. /\ status[r] = "new"
      /\ UNCHANGED <<lock, phase, stage, pc>>
      /\ \/ status' = [status EXCEPT ![r] = "rejected"] /\ UNCHANGED args
         \/ /\ status' = [status EXCEPT ![r] = "waiting"]
            /\ \E a \in PressArgs \cup ShareArgs : args' = [args EXCEPT ![r] = a]
  <2>1. CASE ArrivePress(r)
    <3>1. PICK cf \in CountFields, tf \in TpsFields :
            \/ status' = [status EXCEPT ![r] = "rejected"] /\ UNCHANGED args
            \/ /\ tf # BadNumber
               /\ status' = [status EXCEPT ![r] = "waiting"]
               /\ args' = [args EXCEPT
                    ![r] = [op |-> "press", count |-> Atoi(cf), tps |-> tf]]
      BY <2>1 DEF ArrivePress
    <3>2. tf # BadNumber =>
            [op |-> "press", count |-> Atoi(cf), tps |-> tf] \in PressArgs
      BY DEF PressArgs, Counts, TpsValues
    <3> QED BY <2>1, <3>1, <3>2 DEF ArrivePress, pressVars, shareVars
  <2>2. CASE ArriveShare(r)
    BY <2>2 DEF ArriveShare, ShareArgs, pressVars, shareVars
  <2> QED BY <2>1, <2>2
<1>2. lock # r
  BY <1>1, RequestsAreRequests DEF Exclusion
<1> QED BY <1>1, <1>2 DEF Exclusion, ArgsOK, Goroutines

\* An operation begins only when none is under way.
LEMMA BeginExclusion ==
  ASSUME Exclusion, NEW r \in Reqs, BeginPress(r) \/ BeginShare(r)
  PROVE  Exclusion'
<1>1. /\ status[r] = "waiting" /\ lock = NoReq /\ lock' = r
      /\ status' = [status EXCEPT ![r] = "running"]
      /\ UNCHANGED args
  BY DEF BeginPress, BeginShare, Lock
<1>2. phase \in P!Ended /\ stage \in S!ShareEnded
  BY <1>1, RequestsAreRequests DEF Exclusion
<1>3. \/ args[r].op = "press" /\ stage' = stage
      \/ args[r].op = "share" /\ phase' = phase
  BY DEF BeginPress, BeginShare, pressVars, shareVars
<1>4. (phase' \notin P!Ended => args[r].op = "press") /\
      (stage' \notin S!ShareEnded => args[r].op = "share")
  BY <1>2, <1>3
<1>5. Goroutines'
  BY <1>2, SameClients DEF Exclusion, Goroutines, BeginPress, BeginShare, P!Call, P!Ended,
              pressVars
<1> QED BY <1>1, <1>4, <1>5 DEF Exclusion, ArgsOK

\* A step of a press is a step of one that is under way.
LEMMA PressUnderWay ==
  ASSUME Goroutines, P!PressSteps
  PROVE  phase \notin P!Ended
BY SameClients DEF Goroutines, P!PressSteps, P!QueryNonce, P!CreateTx, P!EndAccount,
   P!Sender, P!Recv, P!Send, P!Check, P!WaitReturns, P!Ended

\* A step of a funding is a step of one that is under way.
LEMMA ShareUnderWay ==
  ASSUME S!ShareSteps
  PROVE  stage \notin S!ShareEnded
BY DEF S!ShareSteps, S!AskNonce, S!BadAmount, S!TransferToken,
   S!TransferMeer, S!ShareEnded

\* The steps of a press keep what is known of its goroutines.
LEMMA PressGoroutines ==
  ASSUME Goroutines, P!PressSteps
  PROVE  Goroutines'
<1>1. CASE P!QueryNonce \/ P!CreateTx
  BY <1>1 DEF Goroutines, P!QueryNonce, P!CreateTx
<1>2. CASE P!EndAccount
  BY <1>2, SameClients DEF Goroutines, P!EndAccount
<1>3. ASSUME NEW c \in Clients, P!Sender(c)
      PROVE  Goroutines'
  BY <1>3, SameClients DEF Goroutines, P!Sender, P!Recv, P!Send, P!Check
<1>4. CASE P!WaitReturns
  BY <1>4, SameClients DEF Goroutines, P!WaitReturns
<1> QED BY <1>1, <1>2, <1>3, <1>4, SameClients DEF P!PressSteps

\* A step of an operation is a step of the holder of the mutex.
LEMMA OperationExclusion ==
  ASSUME Exclusion, Operation
  PROVE  Exclusion'
<1>1. UNCHANGED <<status, args, lock>>
  BY DEF Operation, ctlVars
<1>2. CASE P!PressSteps /\ UNCHANGED shareVars
  BY <1>1, <1>2, PressUnderWay, PressGoroutines
     DEF Exclusion, ArgsOK, shareVars
<1>3. CASE S!ShareSteps /\ UNCHANGED pressVars
  BY <1>1, <1>3, ShareUnderWay DEF Exclusion, ArgsOK, pressVars, Goroutines
<1> QED BY <1>2, <1>3 DEF Operation

\* The mutex is given back only when the operation has ended.
LEMMA AnswerExclusion ==
  ASSUME Exclusion, NEW r \in Reqs, Answer(r)
  PROVE  Exclusion'
<1>1. /\ lock = r /\ lock' = NoReq
      /\ status' = [status EXCEPT ![r] = "answered"]
      /\ UNCHANGED <<args, phase, pc, stage>>
  BY DEF Answer, pressVars, shareVars
<1>2. phase \in P!Ended /\ stage \in S!ShareEnded
  BY <1>1 DEF Answer, OpEnded, Exclusion
<1> QED BY <1>1, <1>2 DEF Exclusion, ArgsOK, Goroutines

\* Every step keeps the exclusion.
LEMMA NextExclusion == Exclusion /\ [Next]_vars => Exclusion'
<1> SUFFICES ASSUME Exclusion, [Next]_vars
             PROVE  Exclusion'
  OBVIOUS
<1>1. CASE UNCHANGED <<pressVars, shareVars, ctlVars>>
  BY <1>1 DEF pressVars, shareVars, ctlVars, Exclusion, ArgsOK, Goroutines
<1> QED BY <1>1, ArriveExclusion, BeginExclusion, AnswerExclusion,
           OperationExclusion DEF Next, vars

\* Only the holder of Controller.Mutex has an operation under way
\* (controller/evm.go:4-5, 10-11).
THEOREM MutexHolds == Spec => []Exclusion
BY InitExclusion, NextExclusion, PTL DEF Spec

\* A press and a funding never run at the same time (controller/evm.go:4, 10).
THEOREM NeverBothOperations == Spec => []OneOperation
<1>1. Exclusion => OneOperation
  BY DEF Exclusion, OneOperation
<1> QED BY <1>1, MutexHolds, PTL

\* The server implements the specifications of the press and of the funding
\* in which a call starts only after the one before has ended
\* (controller/evm.go:4-5, 10-11).
THEOREM ServerIsSerial == Spec => CallsAreSerial
<1>1. Init => P!PressInit /\ S!ShareInit
  BY DEF Init
<1>2. ASSUME Exclusion, [Next]_vars
      PROVE  [P!PressNext]_(P!pressVars) /\ [S!ShareNext]_(S!shareVars)
  <2>1. CASE UNCHANGED <<pressVars, shareVars>>
    BY <2>1 DEF pressVars, shareVars, P!pressVars, S!shareVars
  <2>2. ASSUME NEW r \in Reqs, BeginPress(r) \/ BeginShare(r)
        PROVE  [P!PressNext]_(P!pressVars) /\ [S!ShareNext]_(S!shareVars)
    <3>1. status[r] = "waiting" /\ lock = NoReq
      BY <2>2 DEF BeginPress, BeginShare, Lock
    <3>2. phase \in P!Ended /\ stage \in S!ShareEnded
      BY <1>2, <3>1, RequestsAreRequests DEF Exclusion
    <3>3. args[r] \in PressArgs \cup ShareArgs
      BY <1>2, <3>1 DEF Exclusion, ArgsOK
    <3>4. CASE BeginPress(r)
      <4>1. args[r] \in PressArgs
        BY <3>3, <3>4, ArgsOp DEF BeginPress
      <4>2. P!PressNext
        BY <3>2, <3>4, <4>1, ArgsOp DEF BeginPress, P!PressNext
      <4> QED BY <3>4, <4>2 DEF BeginPress, shareVars, S!shareVars
    <3>5. CASE BeginShare(r)
      <4>1. args[r] \in ShareArgs
        BY <3>3, <3>5, ArgsOp DEF BeginShare
      <4>2. S!ShareNext
        BY <3>2, <3>5, <4>1, ArgsOp DEF BeginShare, S!ShareNext
      <4> QED BY <3>5, <4>2 DEF BeginShare, pressVars, P!pressVars
    <3> QED BY <2>2, <3>4, <3>5
  <2>3. CASE Operation
    BY <2>3 DEF Operation, pressVars, shareVars, P!pressVars, S!shareVars,
                P!PressNext, S!ShareNext
  <2> QED BY <1>2, <2>1, <2>2, <2>3
          DEF Next, vars, ArrivePress, ArriveShare, Answer
<1> QED BY <1>1, <1>2, MutexHolds, PTL
        DEF Spec, CallsAreSerial, P!PressSpec, S!ShareSpec

-----------------------------------------------------------------------------
(***************************************************************************)
(* What the operations leave in the pools.                                 *)
(***************************************************************************)

\* The transactions a press builds: transfers of an account to itself.
SelfTxs == {P!PressTx(a, n) : a \in Accounts, n \in Nat}
SelfJob == [tx : SelfTxs, index : Nat]

\* The state of a press, as far as its transactions depend on it.
PressState ==
  /\ pc \in [Clients -> {"off", "recv", "send", "check", "done"}]
  /\ DOMAIN held = Clients /\ held = [c \in Clients |-> held[c]]
  /\ i \in Nat /\ nonce \in Nat /\ index \in Nat
  /\ phase \in {"account", "fill"} => i \in Accounts
  /\ ch \in Seq(SelfJob)
  /\ \A c \in Clients : pc[c] = "send" => held[c] \in SelfJob

\* The state of a share call: its nonce follows what the first node holds.
ShareState ==
  stage \in {"token", "meer"} =>
    /\ next \in Nat /\ payee \in Accounts
    /\ \A n \in 0 .. next - 1 : Occupied(0, 0, n)
    /\ stage = "meer" =>
         \E u \in pool[0] : /\ u.what = "token" /\ u.to = payee
                            /\ u.from = 0 /\ u.nonce = next - 1

\* What is not a self transfer is a funding and known to the first node.
PoolContents ==
  \A c \in Clients : \A t \in pool[c] :
    t \in SelfTxs \/ (t.from = 0 /\ t \in pool[0])

PoolInv ==
  /\ pool = [c \in Clients |-> pool[c]]
  /\ PressState /\ ShareState /\ PoolContents /\ MeerAfterToken

\* A step adds at most one transaction to one pool.
Added(c, t) == pool' = [pool EXCEPT ![c] = @ \cup {t}]

\* There is a first node and a first account.
LEMMA FirstNode == 0 \in Clients /\ 0 \in Accounts
BY EvmConfig DEF Clients, Accounts

\* A self transfer is determined by its account and its nonce.
LEMMA SelfTxFields ==
  \A t \in SelfTxs : t.what = "token" /\ t.to = t.from
                       /\ t = P!PressTx(t.from, t.nonce)
BY DEF SelfTxs, P!PressTx

\* What a step that adds a transaction does to the pools.
LEMMA Grows ==
  ASSUME PoolInv, NEW c \in Clients, NEW t, Added(c, t)
  PROVE  /\ \A d \in Clients : pool[d] \subseteq pool'[d]
         /\ pool'[c] = pool[c] \cup {t}
         /\ \A d \in Clients \ {c} : pool'[d] = pool[d]
         /\ pool' = [d \in Clients |-> pool'[d]]
BY DEF PoolInv, Added

\* An occupied nonce stays occupied.
LEMMA StillOccupied ==
  ASSUME PoolInv, NEW n, Occupied(0, 0, n),
         (\E c \in Clients : \E t : Added(c, t)) \/ UNCHANGED pool
  PROVE  Occupied(0, 0, n)'
BY Grows, FirstNode DEF Occupied

\* A transaction other than MEER leaves what is known of the pools intact.
LEMMA AddToken ==
  ASSUME PoolInv, NEW c \in Clients, NEW t, Added(c, t),
         t \in SelfTxs \/ (t.from = 0 /\ t \in pool'[0]), t.what # "meer"
  PROVE  PoolContents' /\ MeerAfterToken'
<1>1. PoolContents'
  BY Grows, FirstNode DEF PoolInv, PoolContents
<1>2. MeerAfterToken'
  BY Grows, FirstNode DEF PoolInv, MeerAfterToken
<1> QED BY <1>1, <1>2

\* A node that accepts a transaction adds it.
LEMMA AcceptAdds ==
  ASSUME NEW c, NEW t, Accept(c, t)
  PROVE  Added(c, t)
BY DEF Accept, Added

\* What is known of a funding survives the steps of others.
LEMMA ShareStateKept ==
  ASSUME PoolInv, UNCHANGED shareVars,
         (\E c \in Clients : \E t : Added(c, t)) \/ UNCHANGED pool
  PROVE  ShareState'
<1>1. pool[0] \subseteq pool'[0]
  BY Grows, FirstNode
<1>2. \A n \in 0 .. next - 1 : Occupied(0, 0, n) => Occupied(0, 0, n)'
  BY <1>1 DEF Occupied
<1> QED BY <1>1, <1>2 DEF PoolInv, ShareState, shareVars

\* What is known of a press survives the steps of others.
LEMMA PressStateKept ==
  ASSUME PoolInv, UNCHANGED pressVars
  PROVE  PressState'
BY DEF PoolInv, PressState, pressVars

-----------------------------------------------------------------------------
\* The pools are empty at first.
LEMMA InitPoolInv == Init => PoolInv
BY SameClients, EvmConfig
   DEF Init, NodeInit, P!PressInit, S!ShareInit, PoolInv, PressState,
       ShareState, PoolContents, MeerAfterToken, Clients

\* Asking for a nonce keeps the pool invariant.
LEMMA QueryNoncePool ==
  ASSUME PoolInv, P!QueryNonce, UNCHANGED shareVars
  PROVE  PoolInv'
<1>1. \A m \in P!PendingNonces(0, i) : m \in Nat
  BY DEF P!PendingNonces
<1>2. PressState'
  BY <1>1 DEF PoolInv, PressState, P!QueryNonce
<1>3. UNCHANGED pool
  BY DEF P!QueryNonce
<1> QED BY <1>2, <1>3, ShareStateKept DEF PoolInv, PoolContents, MeerAfterToken

\* Building a transaction keeps the pool invariant: a self transfer.
LEMMA CreateTxPool ==
  ASSUME PoolInv, P!CreateTx, UNCHANGED shareVars
  PROVE  PoolInv'
<1>1. i \in Accounts /\ nonce \in Nat /\ index \in Nat /\ ch \in Seq(SelfJob)
  BY DEF PoolInv, PressState, P!CreateTx
<1>2. [tx |-> P!PressTx(i, nonce), index |-> index] \in SelfJob
  BY <1>1 DEF SelfJob, SelfTxs
<1>3. ch' \in Seq(SelfJob) /\ nonce' \in Nat /\ index' \in Nat
  <2>1. CASE UNCHANGED <<ch, nonce, index>>
    BY <1>1, <2>1
  <2>2. CASE /\ ch' = P!Put(ch, [tx |-> P!PressTx(i, nonce), index |-> index])
             /\ nonce' = nonce + 1 /\ index' = index + 1
    BY <1>1, <1>2, <2>2
  <2> QED BY <2>1, <2>2 DEF P!CreateTx
<1>4. PressState'
  BY <1>1, <1>3 DEF PoolInv, PressState, P!CreateTx
<1>5. UNCHANGED pool
  BY DEF P!CreateTx
<1> QED BY <1>4, <1>5, ShareStateKept DEF PoolInv, PoolContents, MeerAfterToken

\* Going to the next account keeps the pool invariant.
LEMMA EndAccountPool ==
  ASSUME PoolInv, P!EndAccount, UNCHANGED shareVars
  PROVE  PoolInv'
<1>1. /\ i' = i + 1 /\ UNCHANGED <<nonce, index, ch, held>>
      /\ \/ i' < NumAccounts /\ UNCHANGED pc
         \/ phase' = "send" /\ pc' = [c \in Clients |-> "recv"]
  BY SameClients DEF P!EndAccount
<1>2. i' \in Nat /\ (i' < NumAccounts => i' \in Accounts)
  BY <1>1, EvmConfig DEF PoolInv, PressState, Accounts
<1>3. PressState'
  <2>1. CASE i' < NumAccounts /\ UNCHANGED pc
    BY <1>1, <1>2, <2>1 DEF PoolInv, PressState
  <2>2. CASE phase' = "send" /\ pc' = [c \in Clients |-> "recv"]
    BY <1>1, <1>2, <2>2 DEF PoolInv, PressState
  <2> QED BY <1>1, <2>1, <2>2
<1>4. UNCHANGED pool
  BY DEF P!EndAccount
<1> QED BY <1>4, <1>3, ShareStateKept DEF PoolInv, PoolContents, MeerAfterToken

\* A receive keeps the pool invariant.
LEMMA RecvPool ==
  ASSUME PoolInv, NEW c \in Clients, P!Recv(c), UNCHANGED shareVars
  PROVE  PoolInv'
<1>1. ch \in Seq(SelfJob) /\ ch # <<>>
  BY DEF PoolInv, PressState, P!Recv
<1>2. Head(ch) \in SelfJob /\ Tail(ch) \in Seq(SelfJob)
  BY <1>1
<1>3. PressState'
  BY <1>2 DEF PoolInv, PressState, P!Recv
<1>4. UNCHANGED pool
  BY DEF P!Recv
<1> QED BY <1>3, <1>4, ShareStateKept DEF PoolInv, PoolContents, MeerAfterToken

\* A send keeps the pool invariant: it adds self transfers only.
LEMMA SendPool ==
  ASSUME PoolInv, NEW c \in Clients, P!Send(c), UNCHANGED shareVars
  PROVE  PoolInv'
<1>1. PressState'
  BY DEF PoolInv, PressState, P!Send
<1>2. held[c].tx \in SelfTxs
  BY DEF PoolInv, PressState, P!Send, SelfJob
<1>3. CASE UNCHANGED pool
  BY <1>1, <1>3, ShareStateKept DEF PoolInv, PoolContents, MeerAfterToken
<1>4. CASE Added(c, held[c].tx)
  <2>1. PoolContents' /\ MeerAfterToken'
    BY <1>2, <1>4, SelfTxFields, AddToken
  <2>2. ShareState'
    BY <1>4, ShareStateKept
  <2> QED BY <1>1, <1>4, <2>1, <2>2, Grows DEF PoolInv
<1>5. Added(c, held[c].tx) \/ UNCHANGED pool
  BY DEF P!Send, P!SendOk, P!SendError, P!Accept, Added
<1> QED BY <1>3, <1>4, <1>5

\* Gossip keeps the pool invariant: fundings reach other nodes only from the
\* first.
LEMMA GossipPool ==
  ASSUME PoolInv, NEW c \in Clients, NEW d \in Clients, Gossip(c, d),
         UNCHANGED <<pressVars, shareVars>>
  PROVE  PoolInv'
<1>1. PICK t \in pool[c] : Added(d, t)
  BY AcceptAdds DEF Gossip
<1>2. PressState' /\ ShareState'
  BY <1>1, PressStateKept, ShareStateKept
<1>3. t \in SelfTxs \/ (t.from = 0 /\ t \in pool[0])
  BY DEF PoolInv, PoolContents
<1>4. PoolContents' /\ MeerAfterToken'
  <2>1. CASE t \in SelfTxs
    BY <1>1, <2>1, AddToken, SelfTxFields
  <2>2. CASE t \in pool[0]
    <3>1. pool'[0] = pool[0]
      BY <1>1, <2>2, Grows, FirstNode
    <3>2. MeerAfterToken'
      BY <3>1 DEF PoolInv, MeerAfterToken
    <3>3. \A e \in Clients : pool'[e] \subseteq pool[e] \cup {t}
      BY <1>1, Grows
    <3>4. PoolContents'
      BY <1>3, <2>2, <3>1, <3>3 DEF PoolInv, PoolContents
    <3> QED BY <3>2, <3>4
  <2> QED BY <1>3, <2>1, <2>2
<1> QED BY <1>1, <1>2, <1>4, Grows DEF PoolInv

\* The steps of a funding keep the pool invariant.
LEMMA ShareStepPool ==
  ASSUME PoolInv, S!ShareSteps, UNCHANGED pressVars
  PROVE  PoolInv'
<1> USE FirstNode
<1>1. PressState'
  BY PressStateKept
<1>2. CASE S!AskNonce
  <2>1. UNCHANGED pool /\ PoolContents' /\ MeerAfterToken'
    BY <1>2 DEF S!AskNonce, PoolInv, PoolContents, MeerAfterToken
  <2>2. ShareState'
    <3>1. \A n \in S!PendingNonces(0, 0) :
            n \in Nat /\ \A m \in 0 .. n - 1 : Occupied(0, 0, m)
      BY DEF S!PendingNonces, S!Occupied, Occupied
    <3>2. 1 < NumAccounts => 1 \in Accounts
      BY EvmConfig DEF Accounts
    <3> QED BY <1>2, <2>1, <3>1, <3>2
            DEF S!AskNonce, S!ToPayee, ShareState, Occupied
  <2> QED BY <1>1, <2>1, <2>2 DEF PoolInv
<1>3. CASE S!BadAmount
  BY <1>1, <1>3 DEF S!BadAmount, PoolInv, ShareState, PoolContents,
                    MeerAfterToken
<1>4. CASE S!TransferToken
  <2> DEFINE t == S!ShareTx(next, "token", payee)
  <2>1. stage = "token" /\ next \in Nat /\ payee \in Accounts
    BY <1>4 DEF S!TransferToken, PoolInv, ShareState
  <2>2. t.from = 0 /\ t.what = "token" /\ t.to = payee /\ t.nonce = next
    BY DEF S!ShareTx
  <2> HIDE DEF t
  <2>3. Added(0, t) \/ UNCHANGED pool
    BY <1>4 DEF S!TransferToken, S!SendOk, S!SendError, S!Accept, Added, t
  <2>4. PoolContents' /\ MeerAfterToken'
    <3>1. CASE Added(0, t)
      BY <2>2, <3>1, AddToken, Grows
    <3>2. CASE UNCHANGED pool
      BY <3>2 DEF PoolInv, PoolContents, MeerAfterToken
    <3> QED BY <2>3, <3>1, <3>2
  <2>5. \A n \in 0 .. next - 1 : Occupied(0, 0, n)'
    BY <1>4, <2>3, StillOccupied DEF S!TransferToken, PoolInv, ShareState
  <2>6. ShareState'
    <3>1. CASE /\ Added(0, t) /\ stage' = "meer" /\ next' = next + 1
               /\ payee' = payee
      <4>1. t \in pool'[0]
        BY <3>1, Grows
      <4>2. \E u \in pool'[0] : u.from = 0 /\ u.nonce = next
        BY <2>2, <4>1
      <4>3. \A n \in 0 .. next' - 1 : n \in 0 .. next - 1 \/ n = next
        BY <2>1, <3>1
      <4>4. \A n \in 0 .. next' - 1 : (\E u \in pool'[0] : u.from = 0 /\ u.nonce = n)
        BY <2>5, <4>2, <4>3 DEF Occupied
      <4> QED BY <2>1, <2>2, <3>1, <4>1, <4>4 DEF ShareState, Occupied
    <3>2. CASE S!ToPayee(payee + 1) /\ UNCHANGED next
      BY <2>1, <2>5, <3>2, EvmConfig DEF S!ToPayee, ShareState, Accounts, Occupied
    <3> QED BY <1>4, <3>1, <3>2, AcceptAdds
            DEF S!TransferToken, S!SendOk, S!Accept, Added, t
  <2>7. pool' = [c \in Clients |-> pool'[c]]
    BY <2>3, Grows DEF PoolInv
  <2> QED BY <1>1, <2>4, <2>6, <2>7 DEF PoolInv
<1>5. CASE S!TransferMeer
  <2> DEFINE t == S!ShareTx(next, "meer", payee)
  <2>1. /\ stage = "meer" /\ next \in Nat /\ payee \in Accounts
        /\ \E u \in pool[0] : /\ u.what = "token" /\ u.to = payee
                              /\ u.from = 0 /\ u.nonce = next - 1
    BY <1>5 DEF S!TransferMeer, PoolInv, ShareState
  <2>2. t.from = 0 /\ t.what = "meer" /\ t.to = payee /\ t.nonce = next
    BY DEF S!ShareTx
  <2> HIDE DEF t
  <2>3. Added(0, t) \/ UNCHANGED pool
    BY <1>5 DEF S!TransferMeer, S!SendOk, S!SendError, S!Accept, Added, t
  <2>4. PoolContents' /\ MeerAfterToken'
    <3>1. CASE Added(0, t)
      <4>1. /\ pool'[0] = pool[0] \cup {t}
            /\ \A d \in Clients \ {0} : pool'[d] = pool[d]
        BY <3>1, Grows
      <4>2. PoolContents'
        BY <2>2, <4>1 DEF PoolInv, PoolContents
      <4>3. MeerAfterToken'
        BY <2>1, <2>2, <4>1 DEF PoolInv, MeerAfterToken
      <4> QED BY <4>2, <4>3
    <3>2. CASE UNCHANGED pool
      BY <3>2 DEF PoolInv, PoolContents, MeerAfterToken
    <3> QED BY <2>3, <3>1, <3>2
  <2>5. \A n \in 0 .. next - 1 : Occupied(0, 0, n)'
    BY <1>5, <2>3, StillOccupied DEF S!TransferMeer, PoolInv, ShareState
  <2>6. ShareState'
    <3>1. /\ stage' # "meer"
          /\ stage' = "token" => payee' \in Accounts
      BY <1>5, <2>1, EvmConfig DEF S!TransferMeer, S!ToPayee, Accounts
    <3>2. CASE Added(0, t) /\ next' = next + 1
      <4>1. t \in pool'[0]
        BY <3>2, Grows
      <4>2. \E u \in pool'[0] : u.from = 0 /\ u.nonce = next
        BY <2>2, <4>1
      <4>3. \A n \in 0 .. next' - 1 : n \in 0 .. next - 1 \/ n = next
        BY <2>1, <3>2
      <4>4. \A n \in 0 .. next' - 1 : (\E u \in pool'[0] : u.from = 0 /\ u.nonce = n)
        BY <2>5, <4>2, <4>3 DEF Occupied
      <4> QED BY <2>1, <3>1, <3>2, <4>4 DEF ShareState, Occupied
    <3>3. CASE UNCHANGED next
      BY <2>1, <2>5, <3>1, <3>3 DEF ShareState, Occupied
    <3> QED BY <1>5, <3>2, <3>3
            DEF S!TransferMeer, S!SendOk, S!Accept, Added, t
  <2>7. pool' = [c \in Clients |-> pool'[c]]
    BY <2>3, Grows DEF PoolInv
  <2> QED BY <1>1, <2>4, <2>6, <2>7 DEF PoolInv
<1> QED BY <1>2, <1>3, <1>4, <1>5 DEF S!ShareSteps

\* Every step keeps the pool invariant.
LEMMA NextPoolInv == PoolInv /\ [Next]_vars => PoolInv'
<1> SUFFICES ASSUME PoolInv, [Next]_vars
             PROVE  PoolInv'
  OBVIOUS
<1>1. CASE UNCHANGED <<pressVars, shareVars, pool>>
  BY <1>1, PressStateKept, ShareStateKept
     DEF PoolInv, PoolContents, MeerAfterToken
<1>2. ASSUME NEW r \in Reqs, BeginPress(r)
      PROVE  PoolInv'
  <2>1. UNCHANGED <<shareVars, pool>>
    BY <1>2 DEF BeginPress, P!Call
  <2>2. PressState'
    BY <1>2, SameClients, FirstNode DEF BeginPress, P!Call, PressState
  <2> QED BY <2>1, <2>2, ShareStateKept DEF PoolInv, PoolContents, MeerAfterToken
<1>3. ASSUME NEW r \in Reqs, BeginShare(r)
      PROVE  PoolInv'
  <2>1. UNCHANGED <<pressVars, pool>> /\ stage' = "ask"
    BY <1>3 DEF BeginShare, S!ShareCall
  <2> QED BY <2>1, PressStateKept
          DEF PoolInv, ShareState, PoolContents, MeerAfterToken
<1>4. CASE P!PressSteps /\ UNCHANGED shareVars
  <2>1. CASE P!QueryNonce \/ P!CreateTx \/ P!EndAccount
    BY <1>4, <2>1, QueryNoncePool, CreateTxPool, EndAccountPool
  <2>2. ASSUME NEW c \in Clients, P!Check(c) PROVE PoolInv'
    <3>1. UNCHANGED pool /\ PressState'
      BY <2>2 DEF P!Check, PoolInv, PressState
    <3> QED BY <1>4, <3>1, ShareStateKept DEF PoolInv, PoolContents, MeerAfterToken
  <2>3. CASE P!WaitReturns
    <3>1. UNCHANGED pool /\ PressState'
      BY <2>3 DEF P!WaitReturns, PoolInv, PressState
    <3> QED BY <1>4, <3>1, ShareStateKept DEF PoolInv, PoolContents, MeerAfterToken
  <2> QED BY <1>4, <2>1, <2>2, <2>3, RecvPool, SendPool, SameClients
          DEF P!PressSteps, P!Sender
<1>5. CASE S!ShareSteps /\ UNCHANGED pressVars
  BY <1>5, ShareStepPool
<1> QED BY <1>1, <1>2, <1>3, <1>4, <1>5, GossipPool
        DEF Next, Operation, vars, ArrivePress, ArriveShare, Answer

\* The pool invariant holds throughout.
LEMMA PoolInvariant == Spec => []PoolInv
BY InitPoolInv, NextPoolInv, PTL DEF Spec

\* Two nodes hold different transactions for one nonce only if it is one of
\* the funding account (evm.go:171-181).
THEOREM FunderConflicts == Spec => []OnlyFunderConflicts
<1>1. PoolInv => OnlyFunderConflicts
  BY SelfTxFields DEF PoolInv, PoolContents, OnlyFunderConflicts
<1> QED BY <1>1, PoolInvariant, PTL

\* MEER is in the first pool only behind the tokens of the same payee
\* (evm.go:103-117).
THEOREM TokensBeforeMeer == Spec => []MeerAfterToken
BY PoolInvariant, PTL DEF PoolInv

\* A funding uses a nonce only when every smaller one is taken (evm.go:109,
\* 117).
THEOREM NoGap == Spec => []ShareLeavesNoGap
<1>1. PoolInv => ShareLeavesNoGap
  BY DEF PoolInv, ShareState, ShareLeavesNoGap
<1> QED BY <1>1, PoolInvariant, PTL

\* Once the nonce at hand is taken the rest of the funding funds nobody
\* (evm.go:103-116).
THEOREM TakenNonce == Spec => TakenNonceFundsNobody
<1> DEFINE Quiet == /\ next' = next
                    /\ \A t \in pool'[0] : t \in pool[0] \/ t.to = t.from
<1>1. ASSUME PoolInv, Exclusion, [Next]_vars,
             stage \in {"token", "meer"}, Occupied(0, 0, next)
      PROVE  Quiet
  <2> USE <1>1, FirstNode
  <2>1. stage \notin S!ShareEnded /\ lock # NoReq
    BY RequestsAreRequests DEF Exclusion, S!ShareEnded
  <2>2. CASE UNCHANGED <<next, pool>>
    BY <2>2
  <2>3. ASSUME NEW r \in Reqs, ArrivePress(r) \/ ArriveShare(r) \/ Answer(r)
        PROVE  UNCHANGED <<next, pool>>
    BY <2>3 DEF ArrivePress, ArriveShare, Answer, shareVars
  <2>4. ASSUME NEW r \in Reqs, BeginPress(r) \/ BeginShare(r)
        PROVE  FALSE
    BY <2>1, <2>4 DEF BeginPress, BeginShare, Lock
  <2>5. CASE P!PressSteps /\ UNCHANGED shareVars
    <3>1. \/ UNCHANGED pool
          \/ \E c \in Clients : P!Send(c)
      BY <2>5, SameClients
         DEF P!PressSteps, P!QueryNonce, P!CreateTx, P!EndAccount, P!Sender,
             P!Recv, P!Check, P!WaitReturns
    <3>2. ASSUME NEW c \in Clients, P!Send(c)
          PROVE  \A t \in pool'[0] : t \in pool[0] \/ t.to = t.from
      <4>1. held[c].tx \in SelfTxs
        BY <3>2 DEF PoolInv, PressState, P!Send, SelfJob
      <4>2. Added(c, held[c].tx) \/ UNCHANGED pool
        BY <3>2 DEF P!Send, P!SendOk, P!SendError, P!Accept, Added
      <4> QED BY <4>1, <4>2, SelfTxFields, Grows
    <3> QED BY <2>5, <3>1, <3>2 DEF shareVars
  <2>6. CASE S!ShareSteps /\ UNCHANGED pressVars
    <3>1. ~S!Accept(0, S!ShareTx(next, "token", payee))
          /\ ~S!Accept(0, S!ShareTx(next, "meer", payee))
      BY DEF S!Accept, S!ShareTx, S!Occupied, Occupied
    <3>2. UNCHANGED <<next, pool>>
      BY <2>6, <3>1
         DEF S!ShareSteps, S!AskNonce, S!BadAmount, S!TransferToken,
             S!TransferMeer, S!SendOk, S!SendError
    <3> QED BY <3>2
  <2>7. ASSUME NEW c \in Clients, NEW d \in Clients, Gossip(c, d),
               UNCHANGED shareVars
        PROVE  Quiet
    <3>1. PICK t \in pool[c] : Added(d, t)
      BY <2>7, AcceptAdds DEF Gossip
    <3>2. t \in SelfTxs \/ t \in pool[0]
      BY DEF PoolInv, PoolContents
    <3> QED BY <2>7, <3>1, <3>2, SelfTxFields, Grows DEF shareVars
  <2> QED BY <2>2, <2>3, <2>4, <2>5, <2>6, <2>7
          DEF Next, Operation, vars, shareVars
<1> QED BY <1>1, PoolInvariant, MutexHolds, PTL
        DEF Spec, TakenNonceFundsNobody

\* A stuck press keeps the mutex for good (controller/evm.go:10-12).
THEOREM StuckPressHoldsMutex == Spec => StuckHoldsMutex
<1>1. ASSUME Exclusion, [Next]_vars, P!Stuck
      PROVE  P!Stuck' /\ lock # NoReq /\ lock' = lock
  <2> USE <1>1
  <2>1. /\ phase = "send" /\ ch = <<>>
        /\ lock \in Reqs /\ lock # NoReq /\ args[lock].op = "press"
    BY RequestsAreRequests DEF P!Stuck, Exclusion, P!Ended
  <2>2. PICK c \in Clients : pc[c] = "recv"
    BY SameClients DEF P!Stuck
  <2>3. CASE UNCHANGED <<pressVars, lock>>
    BY <2>1, <2>3 DEF pressVars, P!Stuck
  <2>4. ASSUME NEW r \in Reqs, BeginPress(r) \/ BeginShare(r) \/ Answer(r)
        PROVE  FALSE
    BY <2>1, <2>4 DEF BeginPress, BeginShare, Lock, Answer, OpEnded, P!Ended,
       PressArgs, ShareArgs, S!ShareEnded, Exclusion
  <2>5. CASE P!PressSteps /\ UNCHANGED lock
    <3>1. PICK d \in Clients : P!Send(d) \/ P!Check(d)
      BY <2>1, <2>2, <2>5, SameClients
         DEF P!PressSteps, P!QueryNonce, P!CreateTx, P!EndAccount, P!Sender,
             P!Recv, P!WaitReturns
    <3>2. d # c /\ pc'[c] = pc[c] /\ UNCHANGED <<phase, ch>>
      BY <2>2, <3>1 DEF P!Send, P!Check, Exclusion, Goroutines
    <3> QED BY <2>1, <2>2, <2>5, <3>2, SameClients DEF P!Stuck
  <2> QED BY <2>1, <2>3, <2>4, <2>5
          DEF Next, Operation, vars, ctlVars, ArrivePress, ArriveShare
<1> QED BY <1>1, MutexHolds, PTL DEF Spec, StuckHoldsMutex
-----------------------------------------------------------------------------
(***************************************************************************)
(* The types of the variables.                                             *)
(***************************************************************************)

\* Adding to a pool keeps the type of the pools.
LEMMA AcceptType ==
  ASSUME NEW c \in Clients, NEW t \in Tx, pool \in [Clients -> SUBSET Tx],
         Accept(c, t) \/ UNCHANGED pool
  PROVE  pool' \in [Clients -> SUBSET Tx]
BY DEF Accept

\* What a press and a funding send are transactions.
LEMMA BuiltTx ==
  /\ SelfTxs \subseteq Tx
  /\ \A n \in Nat, a \in Accounts, w \in {"token", "meer"} :
       S!ShareTx(n, w, a) \in Tx
BY FirstNode DEF SelfTxs, P!PressTx, S!ShareTx, Tx

\* The variables of a press keep their types when a request begins one.
LEMMA BeginType ==
  ASSUME Exclusion, TypeOK, NEW r \in Reqs, BeginPress(r) \/ BeginShare(r)
  PROVE  TypeOK'
<1>1. args[r] \in PressArgs \cup ShareArgs
  BY DEF BeginPress, BeginShare, Lock, Exclusion, ArgsOK
<1>2. /\ status' = [status EXCEPT ![r] = "running"]
      /\ lock' = r /\ UNCHANGED <<args, pool>>
  BY DEF BeginPress, BeginShare, Lock, P!Call, S!ShareCall
<1>3. P!TypeOK'
  <2>1. CASE BeginShare(r)
    BY <1>2, <2>1 DEF BeginShare, pressVars, TypeOK, P!TypeOK
  <2>2. CASE BeginPress(r)
    <3>1. args[r].count \in Int
      BY <1>1, <2>2, ArgsOp, FieldsAreNumbers DEF BeginPress, Counts, Atoi
    <3> QED
      BY <1>2, <2>2, <3>1, EvmConfig
         DEF BeginPress, P!Call, TypeOK, P!TypeOK, P!Phases
  <2> QED BY <2>1, <2>2
<1>4. /\ stage' \in S!Stages /\ payee' \in 0 .. NumAccounts
      /\ next' \in Nat /\ amountOk' \in BOOLEAN
  <2>1. CASE BeginPress(r)
    BY <2>1 DEF BeginPress, shareVars, TypeOK
  <2>2. CASE BeginShare(r)
    <3>1. args[r].amountOk \in BOOLEAN
      BY <1>1, <2>2, ArgsOp DEF BeginShare
    <3> QED
      BY <2>2, <3>1, EvmConfig DEF BeginShare, S!ShareCall, S!Stages
  <2> QED BY <2>1, <2>2
<1> QED BY <1>2, <1>3, <1>4 DEF TypeOK

\* A step of a press keeps the types.
LEMMA PressType ==
  ASSUME PoolInv, TypeOK, P!PressSteps, UNCHANGED <<shareVars, ctlVars>>
  PROVE  TypeOK'
<1> USE SameClients
<1>1. UNCHANGED <<stage, payee, next, amountOk, status, args, lock>>
  BY DEF shareVars, ctlVars
<1>2. CASE P!QueryNonce
  <2>1. nonce' \in Nat
    BY <1>2 DEF P!QueryNonce, P!PendingNonces, TypeOK, P!TypeOK
  <2> QED BY <1>1, <1>2, <2>1 DEF P!QueryNonce, TypeOK, P!TypeOK, P!Phases
<1>3. CASE P!CreateTx
  <2>1. i \in Accounts /\ nonce \in Nat /\ index \in Nat
    BY <1>3 DEF P!CreateTx, PoolInv, PressState
  <2>2. [tx |-> P!PressTx(i, nonce), index |-> index] \in P!Job
    BY <2>1 DEF P!PressTx, P!Job, P!Tx, P!Accounts, Accounts
  <2>3. ch' \in Seq(P!Job)
    <3> DEFINE job == [tx |-> P!PressTx(i, nonce), index |-> index]
    <3>1. ch \in Seq(P!Job) /\ (ch' = Append(ch, job) \/ ch' = ch)
      BY <1>3 DEF P!CreateTx, TypeOK, P!TypeOK
    <3>2. job \in P!Job
      BY <2>2
    <3> HIDE DEF job
    <3> QED BY <3>1, <3>2
  <2> QED BY <1>1, <1>3, <2>3 DEF P!CreateTx, TypeOK, P!TypeOK, P!Phases
<1>4. CASE P!EndAccount
  <2>1. i + 1 \in 0 .. NumAccounts
    BY <1>4, EvmConfig DEF P!EndAccount, PoolInv, PressState, Accounts
  <2>2. pc' \in [P!Clients -> {"off", "recv", "send", "check", "done"}]
    BY <1>4 DEF P!EndAccount, TypeOK, P!TypeOK
  <2> QED BY <1>1, <1>4, <2>1, <2>2 DEF P!EndAccount, TypeOK, P!TypeOK, P!Phases
<1>5. ASSUME NEW c \in Clients, P!Recv(c) PROVE TypeOK'
  <2>1. Head(ch) \in P!Job /\ Tail(ch) \in Seq(P!Job)
    BY <1>5 DEF P!Recv, TypeOK, P!TypeOK
  <2> QED BY <1>1, <1>5, <2>1 DEF P!Recv, TypeOK, P!TypeOK
<1>6. ASSUME NEW c \in Clients, P!Send(c) PROVE TypeOK'
  <2>1. held[c].tx \in Tx /\ held[c].index \in Nat
    BY <1>6, BuiltTx DEF PoolInv, PressState, P!Send, SelfJob
  <2>2. pool \in [Clients -> SUBSET Tx]
    BY DEF TypeOK, P!TypeOK, P!Tx, Tx, P!Accounts, Accounts
  <2>3. Accept(c, held[c].tx) \/ UNCHANGED pool
    BY <1>6 DEF P!Send, P!SendOk, P!SendError, P!Accept, Accept, P!Occupied, Occupied
  <2>4. pool' \in [P!Clients -> SUBSET P!Tx]
    BY <2>1, <2>2, <2>3, AcceptType DEF P!Tx, Tx, P!Accounts, Accounts
  <2> QED BY <1>1, <1>6, <2>1, <2>4 DEF P!Send, TypeOK, P!TypeOK
<1>7. ASSUME NEW c \in Clients, P!Check(c) PROVE TypeOK'
  BY <1>1, <1>7 DEF P!Check, TypeOK, P!TypeOK
<1>8. CASE P!WaitReturns
  BY <1>1, <1>8 DEF P!WaitReturns, TypeOK, P!TypeOK, P!Phases
<1> QED BY <1>2, <1>3, <1>4, <1>5, <1>6, <1>7, <1>8 DEF P!PressSteps, P!Sender

\* A step of a funding keeps the types.
LEMMA ShareType ==
  ASSUME PoolInv, TypeOK, S!ShareSteps, UNCHANGED <<pressVars, ctlVars>>
  PROVE  TypeOK'
<1>1. UNCHANGED <<phase, count, i, j, nonce, index, ch, pc, held, attempted,
                  status, args, lock>>
  BY DEF pressVars, ctlVars
<1>2. pool \in [Clients -> SUBSET Tx] /\ NumAccounts \in Nat \ {0}
  BY SameClients, EvmConfig DEF TypeOK, P!TypeOK, P!Tx, Tx, P!Accounts, Accounts
<1>3. /\ stage' \in S!Stages /\ payee' \in 0 .. NumAccounts
      /\ next' \in Nat /\ amountOk' \in BOOLEAN
      /\ pool' \in [Clients -> SUBSET Tx]
  <2>1. CASE S!AskNonce
    <3>1. next' \in Nat
      BY <2>1 DEF S!AskNonce, S!PendingNonces, TypeOK
    <3> QED BY <1>2, <2>1, <3>1 DEF S!AskNonce, S!ToPayee, S!Stages, TypeOK
  <2>2. CASE S!BadAmount
    BY <1>2, <2>2 DEF S!BadAmount, S!Stages, TypeOK
  <2>3. ASSUME NEW w \in {"token", "meer"}, stage = w,
               S!SendOk(0, S!ShareTx(next, w, payee))
                 \/ S!SendError(0, S!ShareTx(next, w, payee))
        PROVE  /\ pool' \in [Clients -> SUBSET Tx]
               /\ payee \in 0 .. NumAccounts /\ payee + 1 \in 0 .. NumAccounts
    <3>1. next \in Nat /\ payee \in Accounts
      BY <2>3 DEF PoolInv, ShareState
    <3>2. S!ShareTx(next, w, payee) \in Tx
      BY <3>1, BuiltTx
    <3>3. \/ Accept(0, S!ShareTx(next, w, payee))
          \/ UNCHANGED pool
      BY <2>3 DEF S!SendOk, S!SendError, S!Accept, Accept, S!Occupied, Occupied
    <3>4. pool' \in [Clients -> SUBSET Tx]
      BY <1>2, <3>2, <3>3, FirstNode, AcceptType
    <3> QED BY <1>2, <3>1, <3>4 DEF Accounts
  <2>4. CASE S!TransferToken
    BY <2>3, <2>4 DEF S!TransferToken, S!ToPayee, S!Stages, TypeOK
  <2>5. CASE S!TransferMeer
    BY <2>3, <2>5 DEF S!TransferMeer, S!ToPayee, S!Stages, TypeOK
  <2> QED BY <2>1, <2>2, <2>4, <2>5 DEF S!ShareSteps
<1>4. P!TypeOK'
  BY <1>1, <1>3, SameClients DEF TypeOK, P!TypeOK, P!Tx, Tx, P!Accounts, Accounts
<1> QED BY <1>1, <1>3, <1>4 DEF TypeOK

\* Every step keeps the types.
LEMMA NextType ==
  ASSUME Exclusion, PoolInv, TypeOK, Exclusion', [Next]_vars
  PROVE  TypeOK'
<1>1. ASSUME UNCHANGED <<pressVars, shareVars, pool>> PROVE TypeOK'
  BY <1>1 DEF pressVars, shareVars, TypeOK, P!TypeOK, Exclusion
<1>2. ASSUME NEW c \in Clients, NEW d \in Clients, Gossip(c, d),
             UNCHANGED <<pressVars, shareVars, ctlVars>>
      PROVE  TypeOK'
  <2>1. pool \in [Clients -> SUBSET Tx]
    BY SameClients DEF TypeOK, P!TypeOK, P!Tx, Tx, P!Accounts, Accounts
  <2>2. pool' \in [Clients -> SUBSET Tx]
    BY <1>2, <2>1, AcceptType DEF Gossip
  <2> QED BY <1>2, <2>2, SameClients
          DEF pressVars, shareVars, ctlVars, TypeOK, P!TypeOK, P!Tx, Tx,
              P!Accounts, Accounts
<1> QED BY <1>1, <1>2, BeginType, PressType, ShareType
        DEF Next, Operation, vars, ctlVars, ArrivePress, ArriveShare, Answer

\* Every variable of the server's EVM half has its type.
THEOREM TypeCorrect == Spec => []TypeOK
<1>1. Init => TypeOK
  BY InitExclusion, EvmConfig, SameClients
     DEF Init, NodeInit, P!PressInit, S!ShareInit, Exclusion, TypeOK, P!TypeOK,
         P!Phases, S!Stages
<1>2. Exclusion /\ PoolInv /\ TypeOK /\ Exclusion' /\ [Next]_vars => TypeOK'
  BY NextType
<1> QED BY <1>1, <1>2, MutexHolds, PoolInvariant, PTL DEF Spec
-----------------------------------------------------------------------------
\* What is left of a funding: accounts to fund, and steps for this one.
AccountsLeft == IF stage = "ask" THEN NumAccounts ELSE NumAccounts - payee
TransfersLeft ==
  IF stage = "ask" THEN 3 ELSE IF stage = "token" THEN 2 ELSE IF stage = "meer" THEN 1 ELSE 0
ShareToGo == <<AccountsLeft, TransfersLeft, 0>>

\* What is left is three numbers.
LEMMA ShareToGoIsMeasure == TypeOK => ShareToGo \in Measures
<1> SUFFICES ASSUME TypeOK PROVE ShareToGo \in Measures
  OBVIOUS
<1>1. AccountsLeft \in Nat
  BY EvmConfig DEF TypeOK, AccountsLeft
<1>2. TransfersLeft \in Nat
  BY DEF TransfersLeft
<1> QED
  BY <1>1, <1>2 DEF ShareToGo, Measures

\* Every step of a funding, failed or not, leaves it less to do.
LEMMA ShareStepCloser ==
  ASSUME TypeOK, S!ShareSteps
  PROVE  Closer(ShareToGo', ShareToGo)
<1>1. payee \in 0 .. NumAccounts /\ NumAccounts \in Nat \ {0}
  BY EvmConfig DEF TypeOK
<1>2. \/ AccountsLeft' < AccountsLeft
      \/ AccountsLeft' = AccountsLeft /\ TransfersLeft' < TransfersLeft
  <2>1. CASE S!AskNonce
    BY <1>1, <2>1 DEF S!AskNonce, S!ToPayee, AccountsLeft, TransfersLeft
  <2>2. CASE S!BadAmount
    BY <1>1, <2>2 DEF S!BadAmount, AccountsLeft, TransfersLeft
  <2>3. CASE S!TransferToken
    BY <1>1, <2>3 DEF S!TransferToken, S!SkipPayee, S!ToPayee, AccountsLeft, TransfersLeft
  <2>4. CASE S!TransferMeer
    BY <1>1, <2>4 DEF S!TransferMeer, S!ToPayee, AccountsLeft, TransfersLeft
  <2> QED
    BY <2>1, <2>2, <2>3, <2>4 DEF S!ShareSteps
<1> QED
  BY <1>2 DEF Closer, ShareToGo

\* Nobody else's step touches a funding under way.
LEMMA OthersLeaveShare ==
  ASSUME Exclusion, [Next]_vars, stage \notin S!ShareEnded
  PROVE  S!ShareSteps \/ UNCHANGED shareVars
<1>1. lock # NoReq
  BY RequestsAreRequests DEF Exclusion
<1>2. ASSUME NEW r \in Reqs PROVE ~ BeginPress(r) /\ ~ BeginShare(r)
  BY <1>1 DEF BeginPress, BeginShare, Lock, Free
<1> QED
  BY <1>2 DEF Next, Operation, vars, ArrivePress, ArriveShare, Answer, shareVars

(* A funding gets on whatever the node answers: accounts before transfers, *)
(* every step leaves it less to do and nobody takes a step of it back; by  *)
(* NoEndlessDescent it ends, and the mutex with it (evm.go:91-121).  With  *)
(* PressGetsOn this is what AnsweredOrStuck rests on besides fairness.     *)
THEOREM ShareGetsOn ==
  Spec =>
    /\ [](ShareToGo \in Measures)
    /\ [][/\ S!ShareSteps => Closer(ShareToGo', ShareToGo)
          /\ stage \notin S!ShareEnded =>
               ShareToGo' = ShareToGo \/ Closer(ShareToGo', ShareToGo)]_vars
<1> DEFINE GetsOn ==
      /\ S!ShareSteps => Closer(ShareToGo', ShareToGo)
      /\ stage \notin S!ShareEnded =>
           ShareToGo' = ShareToGo \/ Closer(ShareToGo', ShareToGo)
<1>1. TypeOK => ShareToGo \in Measures
  BY ShareToGoIsMeasure
<1>2. TypeOK /\ Exclusion /\ [Next]_vars => GetsOn
  <2> SUFFICES ASSUME TypeOK, Exclusion, [Next]_vars PROVE GetsOn
    OBVIOUS
  <2>1. UNCHANGED shareVars => ShareToGo' = ShareToGo
    BY DEF shareVars, ShareToGo, AccountsLeft, TransfersLeft
  <2> QED
    BY <2>1, ShareStepCloser, OthersLeaveShare
<1> QED
  BY <1>1, <1>2, TypeCorrect, MutexHolds, PTL DEF Spec
=============================================================================
