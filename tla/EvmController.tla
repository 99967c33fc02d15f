--------------------------- MODULE EvmController ---------------------------
(***************************************************************************)
(* The two EVM operations of the REST server: requests are parsed by       *)
(* api.pressEVM and api.shareMoney, serialised by Controller.Mutex and     *)
(* carried out by evm.PressEVMV2 and evm.ShareMoney against the same       *)
(* nodes.  A panic of the operation is recovered by net/http for that      *)
(* request alone, and the deferred Unlock still runs.                      *)
(***************************************************************************)
EXTENDS EvmNode

CONSTANTS
  Reqs,          \* the requests of a behaviour
  NoReq,         \* nobody holds the mutex
  CountFields,   \* values of the query parameter "count"
  TpsFields,     \* values of the query parameter "tps"
  BadNumber,     \* a count that is no number, a rate Atoi does not parse
  NoJob

ASSUME RequestsAreRequests == NoReq \notin Reqs
ASSUME FieldsAreNumbers ==
  /\ CountFields \subseteq Int \cup {BadNumber}
  /\ TpsFields \subseteq Int \cup {BadNumber}

VARIABLES
  phase, count, i, j, nonce, index, ch, pc, held, attempted,  \* PressEVM
  stage, payee, next, amountOk,                               \* ShareMoney
  status,    \* status[r]: how far request r is
  args,      \* args[r]: what r asks for
  lock       \* holder of Controller.Mutex

(* What Atoi leaves in its first result: the number, or 0 on a syntax      *)
(* error.  A count out of range leaves an end of the range, which is one   *)
(* of CountFields; a rate out of range does not parse (see Server).        *)
Atoi(field) == IF field = BadNumber THEN 0 ELSE field

Counts    == {Atoi(f) : f \in CountFields}
TpsValues == TpsFields \ {BadNumber}

P == INSTANCE PressEVM
S == INSTANCE ShareMoney

pressVars == <<phase, count, i, j, nonce, index, ch, pc, held, attempted>>
shareVars == <<stage, payee, next, amountOk>>
ctlVars == <<status, args, lock>>
vars == <<pressVars, shareVars, ctlVars, pool>>

PressArgs == [op : {"press"}, count : Counts, tps : TpsValues]
ShareArgs == [op : {"share"}, amountOk : BOOLEAN]
NoArgs    == [op |-> "none"]

Init ==
  /\ NodeInit /\ P!PressInit /\ S!ShareInit
  /\ status = [r \in Reqs |-> "new"]
  /\ args = [r \in Reqs |-> NoArgs]
  /\ lock = NoReq

-----------------------------------------------------------------------------
(* api.pressEVM: only the error of the second Atoi is looked at, so a      *)
(* count that does not parse is carried on as 0.                           *)
ArrivePress(r) ==
  /\ status[r] = "new"
  /\ \E cf \in CountFields, tf \in TpsFields :
       IF tf = BadNumber
       THEN /\ status' = [status EXCEPT ![r] = "rejected"]
            /\ UNCHANGED args
       ELSE /\ status' = [status EXCEPT ![r] = "waiting"]
            /\ args' = [args EXCEPT
                 ![r] = [op |-> "press", count |-> Atoi(cf), tps |-> tf]]
  /\ UNCHANGED <<pressVars, shareVars, lock, pool>>

(* api.shareMoney: an empty amount becomes "100".                          *)
ArriveShare(r) ==
  /\ status[r] = "new"
  /\ status' = [status EXCEPT ![r] = "waiting"]
  /\ \E ok \in BOOLEAN :
       args' = [args EXCEPT ![r] = [op |-> "share", amountOk |-> ok]]
  /\ UNCHANGED <<pressVars, shareVars, lock, pool>>

(* An operator whose name begins with Bug is the definition after it as a  *)
(* plausible mistake in the code would have it; the model does not use it. *)
BugNoMutex == TRUE
Free == lock = NoReq

\* c.Mutex.Lock()
Lock(r) ==
  /\ status[r] = "waiting"
  /\ Free
  /\ lock' = r
  /\ status' = [status EXCEPT ![r] = "running"]

BeginPress(r) ==
  /\ args[r].op = "press"
  /\ Lock(r)
  /\ P!Call(args[r].count, args[r].tps)
  /\ UNCHANGED <<shareVars, args>>

BeginShare(r) ==
  /\ args[r].op = "share"
  /\ Lock(r)
  /\ S!ShareCall(args[r].amountOk)
  /\ UNCHANGED <<pressVars, args>>

\* The operation of r came back or panicked.
BugDoesNotWait(r) == TRUE
OpEnded(r) ==
  \/ args[r].op = "press" /\ phase \in P!Ended
  \/ args[r].op = "share" /\ stage \in S!ShareEnded

\* The holder after c.Mutex.Unlock().
BugNoUnlock == lock
Unlocked == NoReq

(* The deferred c.Mutex.Unlock() and the answer.                           *)
Answer(r) ==
  /\ lock = r
  /\ OpEnded(r)
  /\ lock' = Unlocked
  /\ status' = [status EXCEPT ![r] = "answered"]
  /\ UNCHANGED <<pressVars, shareVars, args, pool>>

Operation ==
  \/ P!PressSteps /\ UNCHANGED <<shareVars, ctlVars>>
  \/ S!ShareSteps /\ UNCHANGED <<pressVars, ctlVars>>

Next ==
  \/ \E r \in Reqs : ArrivePress(r)
  \/ \E r \in Reqs : ArriveShare(r)
  \/ \E r \in Reqs : BeginPress(r)
  \/ \E r \in Reqs : BeginShare(r)
  \/ \E r \in Reqs : Answer(r)
  \/ Operation
  \/ \E c, d \in Clients :
       Gossip(c, d) /\ UNCHANGED <<pressVars, shareVars, ctlVars>>

Spec == Init /\ [][Next]_vars

(* Requests need not arrive and nodes need not gossip.  A waiting request  *)
(* gets the mutex when it stays free (Go's mutex does not starve a waiter) *)
(* and every goroutine that can run does.                                  *)
Fairness ==
  /\ \A r \in Reqs : WF_vars(BeginPress(r) \/ BeginShare(r)) /\ WF_vars(Answer(r))
  /\ \A c \in Clients :
       WF_vars(P!Sender(c) /\ UNCHANGED <<shareVars, ctlVars>>)
  /\ WF_vars((P!QueryNonce \/ P!CreateTx \/ P!EndAccount \/ P!WaitReturns)
               /\ UNCHANGED <<shareVars, ctlVars>>)
  /\ WF_vars(S!ShareSteps /\ UNCHANGED <<pressVars, ctlVars>>)

FairSpec == Spec /\ Fairness

-----------------------------------------------------------------------------
TypeOK ==
  /\ P!TypeOK
  /\ stage \in S!Stages
  /\ payee \in 0 .. NumAccounts
  /\ next \in Nat
  /\ amountOk \in BOOLEAN
  /\ status \in [Reqs -> {"new", "rejected", "waiting", "running", "answered"}]
  /\ args \in [Reqs -> {NoArgs} \cup PressArgs \cup ShareArgs]
  /\ lock \in Reqs \cup {NoReq}

(* The mutex makes the calls of each operation follow one another: the     *)
(* server implements PressEVM and ShareMoney, in which a call starts only  *)
(* when the one before has ended (controller/evm.go:4-5, 10-11).           *)
CallsAreSerial == P!PressSpec /\ S!ShareSpec

(* The two operations never run at the same time either.                   *)
OneOperation ==
  phase \in P!Ended \/ stage \in S!ShareEnded

(* Two nodes never hold different transactions of the same account and     *)
(* nonce, whatever is lost, refused, repeated or late, unless the account  *)
(* is the funding account 0: a repeated press rebuilds the very same       *)
(* transactions (evm.go:171-181).                                          *)
OnlyFunderConflicts ==
  \A c, d \in Clients : \A t \in pool[c], u \in pool[d] :
    t.from = u.from /\ t.nonce = u.nonce /\ t # u => t.from = 0

(* MEER goes only to an account whose tokens the first node took under the *)
(* nonce before (evm.go:103-117).                                          *)
MeerAfterToken ==
  \A t \in pool[0] : t.what = "meer" =>
    \E u \in pool[0] :
      u.what = "token" /\ u.to = t.to /\ u.from = 0 /\ u.nonce = t.nonce - 1

(* Whatever fails, a share call never leaves a nonce of account 0 unused   *)
(* below the one it uses, so what it sends can be mined (evm.go:109, 117). *)
ShareLeavesNoGap ==
  stage \in {"token", "meer"} => \A n \in 0 .. next - 1 : Occupied(0, 0, n)

(* Once the nonce at hand is taken (an answer was lost, or an earlier press *)
(* left transactions behind a gap) nobody else is funded by this call: the *)
(* nonce stays and every further transfer is refused (evm.go:103-116).     *)
TakenNonceFundsNobody ==
  [][(stage \in {"token", "meer"} /\ Occupied(0, 0, next)) =>
       (next' = next /\ \A t \in pool'[0] : t \in pool[0] \/ t.to = t.from)]_vars

(* A stuck press keeps the mutex for good: no later EVM request is served  *)
(* (controller/evm.go:10-12, evm.go:201).                                  *)
StuckHoldsMutex == [][P!Stuck => P!Stuck' /\ lock # NoReq /\ lock' = lock]_vars

(* Every request that waits for the mutex is answered, unless a press gets *)
(* stuck.                                                                  *)
AnsweredOrStuck ==
  \A r \in Reqs : status[r] = "waiting" ~> (status[r] = "answered" \/ P!Stuck)

(* With one node, as in config.toml, and counts above zero every request   *)
(* is answered.                                                            *)
EveryoneAnswered == \A r \in Reqs : status[r] = "waiting" ~> status[r] = "answered"
=============================================================================
