----------------------------- MODULE SendPress -----------------------------
(***************************************************************************)
(* presstest.Engine.Send and its goroutines: collect up to count outputs   *)
(* of the fixed amount from the database, deal them out to one goroutine   *)
(* per rpc client, which joins them two by two and starts a further        *)
(* goroutine for every transaction it sends.  Calls are not serialised.    *)
(*                                                                         *)
(* NewEngine leaves the key store nil (presstest.go:33-36, 47), and then a *)
(* call panics when it asks for the addresses: KeyLoaded says whether the  *)
(* engine has its key store.  The database, written by another program,    *)
(* and the Qitmeer nodes are the environment.  The rate is left out: it    *)
(* only sets how long a goroutine sleeps.                                  *)
(***************************************************************************)
EXTENDS Table, Sequences

CONSTANTS
  Calls,      \* the calls of a behaviour
  NumRpcs,    \* len(e.rpcs); NewController needs at least one
  NumOuts,    \* outputs of the fixed amount in the vout table
  Addresses,  \* the addresses of the key store
  Owner,      \* Owner[o]: the address of output o
  Counts,     \* values of "count" a caller may pass
  KeyLoaded   \* e.key is not nil

Outs  == 1 .. NumOuts
Nodes == 0 .. NumRpcs - 1

ASSUME SendConfig ==
  /\ NumRpcs \in Nat \ {0}
  /\ NumOuts \in Nat
  /\ IsFiniteSet(Addresses)   \* the keys of a map
  /\ Owner \in [Outs -> Addresses]
  /\ Counts \subseteq Int
  /\ KeyLoaded \in BOOLEAN

VARIABLES
  usable,   \* outputs whose row says unspent (spent_tx = '' and stat = 0)
  taken,    \* taken[c]: transactions node c has taken
  stopped,  \* e.ctx is cancelled
  pc,       \* pc[r]: where call r is
  count,    \* count[r]: its argument
  todo,     \* todo[r]: addresses it has not queried yet
  utxos,    \* utxos[r]: what it has collected
  at,       \* at[r][c]: where its goroutine for node c is
  pos,      \* pos[r][c]: that goroutine's i
  flight,   \* flight[r]: its innermost goroutines, one per transaction
  success,  \* success[r][c]: the counter shared by those of node c
  summed,   \* summed[r]: counters read so far
  all,      \* all[r]: their sum, allSuccess
  tried,    \* history: pairs of outputs call r has tried
  late      \* history: late[r][c]: pairs tried after the stop

dbVars   == <<usable, taken, stopped>>
mainVars == <<pc, count, todo, utxos, summed, all>>
goVars   == <<at, pos, flight, success, tried, late>>
vars     == <<dbVars, mainVars, goVars>>

\* An innermost goroutine: its transaction spends a pair of outputs.
Pairs == {s \in SUBSET Outs : Cardinality(s) = 2}
Tx == [call : Calls, outs : Pairs]
Flight == [node : Nodes, outs : Pairs, step : {"send", "read", "write"},
           seen : Nat]

Init ==
  /\ usable = Outs
  /\ taken = [c \in Nodes |-> {}]
  /\ stopped = FALSE
  /\ pc = [r \in Calls |-> "new"]
  /\ count = [r \in Calls |-> 0]
  /\ todo = [r \in Calls |-> {}]
  /\ utxos = [r \in Calls |-> <<>>]
  /\ at = [r \in Calls |-> [c \in Nodes |-> "off"]]
  /\ pos = [r \in Calls |-> [c \in Nodes |-> 0]]
  /\ flight = [r \in Calls |-> {}]
  /\ success = [r \in Calls |-> [c \in Nodes |-> 0]]
  /\ summed = [r \in Calls |-> 0]
  /\ all = [r \in Calls |-> 0]
  /\ tried = [r \in Calls |-> {}]
  /\ late = [r \in Calls |-> [c \in Nodes |-> 0]]

-----------------------------------------------------------------------------
\* QueryAmountUTXO, in the table's order; a failed query returns nothing.
Rows(a) == InOrder({o \in usable : Owner[o] = a})

(* The coin is looked up, then the key store is asked for the addresses.   *)
Send(r) ==
  /\ pc[r] = "new"
  /\ \E n \in Counts, known \in BOOLEAN :
       /\ count' = [count EXCEPT ![r] = n]
       /\ pc' = [pc EXCEPT ![r] = IF ~known THEN "nocoin"
                                  ELSE IF ~KeyLoaded THEN "panicked"
                                  ELSE "collect"]
       /\ todo' = [todo EXCEPT ![r] = IF known /\ KeyLoaded THEN Addresses ELSE {}]
  /\ UNCHANGED <<dbVars, utxos, summed, all, goVars>>

(* One address, in no particular order; the slice is cut at count, which   *)
(* panics for a negative count.                                            *)
Collect(r) ==
  /\ pc[r] = "collect"
  /\ \E a \in todo[r] : \E rows \in {Rows(a), <<>>} :
       LET got == utxos[r] \o rows
       IN  /\ todo' = [todo EXCEPT ![r] = @ \ {a}]
           /\ IF Len(got) < count[r]
              THEN utxos' = [utxos EXCEPT ![r] = got] /\ UNCHANGED pc
              ELSE IF count[r] < 0
              THEN pc' = [pc EXCEPT ![r] = "panicked"] /\ UNCHANGED utxos
              ELSE /\ utxos' = [utxos EXCEPT ![r] = SubSeq(got, 1, count[r])]
                   /\ pc' = [pc EXCEPT ![r] = "deal"]
  /\ UNCHANGED <<dbVars, count, summed, all, goVars>>

(* One goroutine per client; the last one gets what is left over.          *)
Deal(r) ==
  /\ pc[r] = "deal" \/ (pc[r] = "collect" /\ todo[r] = {})
  /\ pc' = [pc EXCEPT ![r] = "wait"]
  /\ at' = [at EXCEPT ![r] = [c \in Nodes |-> "top"]]
  /\ UNCHANGED <<dbVars, count, todo, utxos, summed, all, pos, flight, success,
                 tried, late>>

(* The outputs dealt to the goroutine of node c.                           *)
OneCount(r) == Len(utxos[r]) \div NumRpcs
BugStartsEarly(r, c) ==
  SubSeq(utxos[r], c * OneCount(r) + 1 - (IF OneCount(r) > 0 THEN c ELSE 0),
         IF c = NumRpcs - 1 THEN Len(utxos[r]) ELSE (c + 1) * OneCount(r))
BugNoRest(r, c) ==
  SubSeq(utxos[r], c * OneCount(r) + 1, (c + 1) * OneCount(r))
Chunk(r, c) ==
  SubSeq(utxos[r], c * OneCount(r) + 1,
         IF c = NumRpcs - 1 THEN Len(utxos[r]) ELSE (c + 1) * OneCount(r))

\* Outputs i and i + 1 of a chunk, counted from 0.
BugSameInput(r, c) == {Chunk(r, c)[pos[r][c] + 1]}
Pair(r, c) == {Chunk(r, c)[pos[r][c] + 1], Chunk(r, c)[pos[r][c] + 2]}

\* The loop's condition, then the select on the context.
BugIgnoresStop(r, c) == pos[r][c] < Len(Chunk(r, c)) - 1
GoesOn(r, c) == pos[r][c] < Len(Chunk(r, c)) - 1 /\ ~stopped

(* The top of the loop.                                                    *)
Top(r, c) ==
  /\ at[r][c] = "top"
  /\ at' = [at EXCEPT ![r][c] = IF GoesOn(r, c) THEN "build" ELSE "done"]
  /\ UNCHANGED <<dbVars, mainVars, pos, flight, success, tried, late>>

(* TxEncode and TxSign: an error skips the pair, otherwise a goroutine     *)
(* that nobody waits for sends it.                                         *)
Build(r, c) ==
  /\ at[r][c] = "build"
  /\ \/ flight' = [flight EXCEPT ![r] = @ \cup
          {[node |-> c, outs |-> Pair(r, c), step |-> "send", seen |-> 0]}]
     \/ UNCHANGED flight
  /\ tried' = [tried EXCEPT ![r] = @ \cup {<<c, Pair(r, c)>>}]
  /\ late' = [late EXCEPT ![r][c] = IF stopped THEN @ + 1 ELSE @]
  /\ pos' = [pos EXCEPT ![r][c] = @ + 2]
  /\ at' = [at EXCEPT ![r][c] = "top"]
  /\ UNCHANGED <<dbVars, mainVars, success>>

-----------------------------------------------------------------------------
\* Outputs that a transaction node c holds spends.
Claimed(c) == UNION {t.outs : t \in taken[c]}

BugCountsErrors == {"read"}
AfterError == {"over"}

(* client.SendTransaction: a node takes a transaction none of whose        *)
(* outputs it has seen spent; the answer may be an error, and it may be    *)
(* lost (five second timeout) although the node took the transaction.      *)
Deliver(r, f) ==
  /\ f.step = "send"
  /\ LET t == [call |-> r, outs |-> f.outs]
         Ends(steps) == flight' = [flight EXCEPT ![r] = (@ \ {f}) \cup
                          {[f EXCEPT !.step = s] : s \in steps \ {"over"}}]
     IN  \/ /\ f.outs \cap Claimed(f.node) = {}
            /\ taken' = [taken EXCEPT ![f.node] = @ \cup {t}]
            /\ Ends({"read"}) \/ Ends(AfterError)
         \/ /\ Ends(AfterError)
            /\ UNCHANGED taken
  /\ UNCHANGED <<usable, stopped, mainVars, at, pos, success, tried, late>>

(* *success++ of a shared counter: a read and a write.                     *)
Increment(r, f) ==
  /\ \/ /\ f.step = "read"
        /\ flight' = [flight EXCEPT ![r] = (@ \ {f}) \cup
             {[f EXCEPT !.step = "write", !.seen = success[r][f.node]]}]
        /\ UNCHANGED success
     \/ /\ f.step = "write"
        /\ flight' = [flight EXCEPT ![r] = @ \ {f}]
        /\ success' = [success EXCEPT ![r][f.node] = f.seen + 1]
  /\ UNCHANGED <<dbVars, mainVars, at, pos, tried, late>>

\* wg.Wait() comes back: only the goroutines of the clients are counted.
BugWaitsForAnswers(r) ==
  (\A c \in Nodes : at[r][c] = "done") /\ flight[r] = {}
WaitOver(r) == \A c \in Nodes : at[r][c] = "done"

(* The counters are read one by one, while sends may still be under way.   *)
Sum(r) ==
  /\ pc[r] = "wait"
  /\ WaitOver(r)
  /\ all' = [all EXCEPT ![r] = @ + success[r][summed[r]]]
  /\ summed' = [summed EXCEPT ![r] = @ + 1]
  /\ pc' = [pc EXCEPT ![r] = IF summed'[r] = NumRpcs THEN "returned" ELSE @]
  /\ UNCHANGED <<dbVars, count, todo, utxos, goVars>>

(* Engine.Stop.                                                            *)
Stop ==
  /\ ~stopped
  /\ stopped' = TRUE
  /\ UNCHANGED <<usable, taken, mainVars, goVars>>

(* The program that fills the database learns of a transaction's spends.   *)
Sync ==
  /\ \E c \in Nodes : \E t \in taken[c] : usable' = usable \ t.outs
  /\ UNCHANGED <<taken, stopped, mainVars, goVars>>

Call(r) ==
  \/ Send(r)
  \/ Collect(r)
  \/ Deal(r)
  \/ \E c \in Nodes : Top(r, c) \/ Build(r, c)
  \/ Sum(r)
Answers(r) == \E f \in flight[r] : Deliver(r, f) \/ Increment(r, f)

Next == (\E r \in Calls : Call(r) \/ Answers(r)) \/ Stop \/ Sync
Spec == Init /\ [][Next]_vars

\* Goroutines are scheduled; nodes need not answer and nobody need stop.
Fairness == \A r \in Calls :
  /\ WF_vars(Collect(r)) /\ WF_vars(Deal(r)) /\ WF_vars(Sum(r))
  /\ \A c \in Nodes : WF_vars(Top(r, c) \/ Build(r, c))
FairSpec == Spec /\ Fairness

-----------------------------------------------------------------------------
TypeOK ==
  /\ usable \subseteq Outs
  /\ taken \in [Nodes -> SUBSET Tx]
  /\ stopped \in BOOLEAN
  /\ pc \in [Calls -> {"new", "nocoin", "panicked", "collect", "deal", "wait",
                       "returned"}]
  /\ count \in [Calls -> Int]
  /\ todo \in [Calls -> SUBSET Addresses]
  /\ utxos \in [Calls -> Seq(Outs)]
  /\ at \in [Calls -> [Nodes -> {"off", "top", "build", "done"}]]
  /\ pos \in [Calls -> [Nodes -> Nat]]
  /\ flight \in [Calls -> SUBSET Flight]
  /\ success \in [Calls -> [Nodes -> Nat]]
  /\ summed \in [Calls -> 0 .. NumRpcs]
  /\ all \in [Calls -> Nat]
  /\ tried \in [Calls -> SUBSET (Nodes \X Pairs)]
  /\ late \in [Calls -> [Nodes -> Nat]]

(* One call never puts an output into two transactions, neither of one     *)
(* client nor of two: the slices dealt to the clients do not overlap and   *)
(* the loop advances by what it used (presstest.go:107-115, 144).          *)
NoOutputTwice ==
  \A r \in Calls : \A p, q \in tried[r] : p # q => p[2] \cap q[2] = {}

(* Outputs are contested between nodes only by different calls: a call     *)
(* does not mark what it spends, so calls at the same time, or before the  *)
(* database has caught up, take the same outputs (presstest.go:77-84).     *)
OnlyCallsConflict ==
  \A c, d \in Nodes : \A s \in taken[c], t \in taken[d] :
    s # t /\ s.outs \cap t.outs # {} => s.call # t.call

(* The reported number is at most the number of transactions the nodes     *)
(* took in that call: answers that come late, increments that get lost     *)
(* and lost answers only make it smaller (presstest.go:120-128, 187-196).  *)
NeverOverReports ==
  \A r \in Calls :
    all[r] <= Cardinality({t \in UNION {taken[c] : c \in Nodes} : t.call = r})

(* A call that ran to its end has tried all its outputs but one for each   *)
(* client (presstest.go:107-115, 144).                                     *)
LeftoverBound ==
  \A r \in Calls : pc[r] = "returned" /\ ~stopped =>
    Len(utxos[r]) - 2 * Cardinality(tried[r]) <= NumRpcs

(* After a stop a goroutine starts at most one more transaction, the one   *)
(* it was building (presstest.go:145-149).                                 *)
AtMostOneAfterStop == \A r \in Calls, c \in Nodes : late[r][c] <= 1

(* A call comes back although no node ever answers: the wait group counts  *)
(* the goroutines that build, not those that send (presstest.go:116, 187). *)
ReturnsUnanswered ==
  \A r \in Calls : pc[r] = "wait" ~> pc[r] = "returned"
=============================================================================
