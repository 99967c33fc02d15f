----------------------------- MODULE ShareMoney -----------------------------
(***************************************************************************)
(* evm.ShareMoney: account 0 funds every other account with tokens and     *)
(* then with MEER, through the first node, counting its own nonce locally. *)
(***************************************************************************)
EXTENDS EvmNode

VARIABLES
  stage,     \* where the call is: see Stages
  payee,     \* index of the account being funded
  next,      \* the local nonce of account 0
  amountOk   \* the argument "amount" parses as a decimal number

shareVars == <<stage, payee, next, amountOk>>

Stages == {"idle", "ask", "token", "meer", "true", "false"}
ShareEnded == {"idle", "true", "false"}

(* An operator whose name begins with Bug is the definition after it as a  *)
(* plausible mistake in the code would have it; the model does not use it. *)
BugSwapped(n, what, to) == [from |-> to, nonce |-> n, what |-> what, to |-> 0]
ShareTx(n, what, to) == [from |-> 0, nonce |-> n, what |-> what, to |-> to]

ShareInit == stage = "idle" /\ payee = 0 /\ next = 0 /\ amountOk = TRUE

-----------------------------------------------------------------------------
ShareCall(ok) ==
  /\ stage' = "ask" /\ payee' = 0 /\ next' = 0 /\ amountOk' = ok
  /\ UNCHANGED pool

\* The loop head: the next payee, or the end of the call.
ToPayee(k) ==
  /\ payee' = k
  /\ stage' = IF k < NumAccounts THEN "token" ELSE "true"

\* The nonce after a transfer that failed.
BugSkipsNonce == next + 1
NonceAfterError == next

\* A failed token transfer skips the payee, MEER included.
BugNoContinue == stage' = "meer" /\ UNCHANGED payee
SkipPayee == ToPayee(payee + 1)

(* PendingNonceAt(account 0) at the first node.                            *)
AskNonce ==
  /\ stage = "ask"
  /\ \/ next' \in PendingNonces(0, 0) /\ ToPayee(1)
     \/ stage' = "false" /\ UNCHANGED <<payee, next>>
  /\ UNCHANGED <<amountOk, pool>>

(* The amount does not parse as a decimal number (big.Int.SetString).      *)
BadAmount ==
  /\ stage = "token"
  /\ ~amountOk
  /\ stage' = "false"
  /\ UNCHANGED <<payee, next, amountOk, pool>>

(* TransferToken.                                                          *)
TransferToken ==
  /\ stage = "token"
  /\ amountOk
  /\ \/ /\ SendOk(0, ShareTx(next, "token", payee))
        /\ stage' = "meer"
        /\ next' = next + 1
        /\ UNCHANGED payee
     \/ /\ SendError(0, ShareTx(next, "token", payee))
        /\ SkipPayee
        /\ next' = NonceAfterError
  /\ UNCHANGED amountOk

(* TransferMeer; EstimateGas may fail before the send.                     *)
TransferMeer ==
  /\ stage = "meer"
  /\ \/ SendOk(0, ShareTx(next, "meer", payee)) /\ next' = next + 1
     \/ /\ SendError(0, ShareTx(next, "meer", payee))
        /\ next' = NonceAfterError
  /\ ToPayee(payee + 1)
  /\ UNCHANGED amountOk

ShareSteps == AskNonce \/ BadAmount \/ TransferToken \/ TransferMeer

\* One call after the other; what else happens to the pools is left open.
ShareNext ==
  \/ stage \in ShareEnded /\ \E ok \in BOOLEAN : ShareCall(ok)
  \/ ShareSteps

ShareSpec == ShareInit /\ [][ShareNext]_shareVars
=============================================================================
