# qitmeer-presstest: TLA+ specifications

qitmeer-presstest is a load generator for Qitmeer nodes. It is one Go process
with a REST server; every request makes the process build, sign and send
transactions, either to EVM nodes (package `evm`) or, as UTXO transactions, to
Qitmeer nodes (package `presstest`).

## The system

| Part | Files | State | Operations |
|---|---|---|---|
| lifecycle | `main.go` | the `api` global, the signal channel | start, one interrupt, exit five seconds after the server returned |
| REST server | `api/router.go`, `core.go`, `jwt.go`, `error.go` | `routerMap`, `Serv` | dispatch by "METHOD-path", authorisation, query and form parsing, start, stop |
| handlers | `api/api.go` | none | one per route: parse the parameters, call the controller |
| controller | `controller/*.go` | `Mutex`, engine, evm | passes calls on; `ShareMoney` and `PressEVM` under the mutex, the UTXO calls without |
| EVM press | `evm/evm.go` | clients, accounts; per call the channel `txCh` and the wait group | `PressEVMV2`, `sendTransfer`, `ShareMoney`, and the uncalled first version `PressEVM` |
| UTXO engine | `presstest/presstest.go` | context, key store, database, rpc clients | `Send`, `Split`, `Transfer`, `TransferAll`, `MergerUTXO`, `UnspentCount`, `TxEncode` |
| key store | `keystore/keystore.go` | a directory and the map `keys` | `LoadKey`, `AddKey`, `AddressList`, `Key`, `RandAddress` |
| database | `db`, `dbtypes` | the tables of another program (qitmeer-sync) and two of its own | queries for unspent outputs, `UpdateSpent`, faucet records |
| node rpc | `rpc/client.go` | none | JSON-RPC with a five second timeout |

How they interact. `net/http` runs every request on its own goroutine through
`Handle`, `RouteOption.Handle` and the handler; a panic of a handler is
recovered by `net/http` for that request alone, and the deferred unlock runs.
The EVM operations are serialised by `Controller.Mutex`; the UTXO operations
are not serialised by anything. At this commit the engine is created without a
key store and without a database and the table of coins is never filled
(`presstest.go:33-36,47`, `controller.go:24-27,38-45` are commented out), so the
UTXO operations end with "no coin" or a recovered panic; the EVM operations are
the ones in service.

What is hard here: goroutines that share a channel and leave it when they see
it empty; a mutex that is held across all of that; sends whose answer is lost;
nonces counted locally while nodes refuse, lose and exchange transactions;
unsynchronised UTXO operations that spend the same outputs; partial failures in
loops that carry on; arguments at the boundary (0, negative, not a number).

What makes each part correct:

* EVM press: every transaction is handed to a node once, in nearly the order of
  its nonce; a call that comes back has handed over all of them; what a retry
  sends is what the first attempt sent.
* EVM funding: MEER follows the tokens of the same payee; no gap of nonces.
* controller: one EVM operation at a time; every request is answered, unless a
  press hangs.
* UTXO engine: an output is spent by one transaction; inputs cover outputs and
  fee; what is reported as sent was sent.
* key store: what is in the map is on disk; an address somebody was told of is
  never lost, whatever fails or crashes.
* REST server: a handler runs only for an authorised request with a well formed
  form and with numbers that the request names and that fit their types; after an interrupt the process
  ends.

## Modules

* `EvmNode` - the environment: the pools of the Ethereum nodes. A node answers
  `PendingNonceAt` with the first nonce it holds nothing for, takes a
  transaction or refuses it, may take it and lose the answer, and passes
  transactions on to others (gossip). A transaction is what is signed: sender,
  nonce, what, to whom.
* `PressEVM` - `PressEVMV2` and `sendTransfer`. `i`, `j`, `nonce`, `index` are the
  local variables of the Go function, `ch` is `txCh`, `pc` and `held` are the
  goroutines, `attempted` is a history of what was handed over. `Call`,
  `QueryNonce`, `CreateTx`, `EndAccount`, `WaitReturns` follow the function from
  top to bottom; `Recv`, `Send`, `Check` are the three steps of a goroutine.
* `Dealer` - what a press promises, without channel, accounts or goroutines: a
  call has a number of things, hands each over once, ahead of fewer than
  `Window` older ones, and ends when all are gone. `PressEVM` implements it with
  what is not yet `attempted` for `todo` and the nodes for the window.
* `ShareMoney` - `ShareMoney`, `TransferToken`, `TransferMeer`. `next` is the
  local nonce, `payee` the loop variable.
* `EvmController` - requests with their parameters, the mutex, and instances of
  the two modules above over the same pools.
* `SendPress` - `Engine.Send` and `send`, with one goroutine per client and one
  more per transaction. `at`, `pos` are the client goroutines and their `i`,
  `flight` the goroutines that send; `success` is the shared counter, whose
  `++` is a read and a write (`Increment`). `Collect`, `Deal`, `Top`, `Build`,
  `Deliver`, `Sum` follow the code; `tried` and `late` are histories.
* `Ledger` - what the other UTXO operations share: the table of outputs, the
  node they send to (always the first), arithmetic modulo 2^64, the choice of
  inputs, the fee, the checks of `TxEncode`, `UpdateSpent` one row at a time.
  `Exchange` is `ClientRequest.call`: after five seconds the caller has an error,
  and the node may still take the transaction (`Arrive`). `sent`, `answered`,
  `unset` are histories.
* `Payments` - `Split`, `TransferAll`, `MergerUTXO` and `Transfer` over `Ledger`.
  `call[r]` is the record of the local variables of call `r`; each read of the
  database, each send and each marked row is a step of its own, so calls
  interleave there.
* `Keystore` - `LoadKey`, `AddKey`, `AddressList`, `Key`, and
  `Controller.AddAddress` around them. `disk` is the directory, `keys` the map,
  `writer` the write lock. `AddKey` is `Lock`, `Open`, `Write`, `Record` or
  `GiveUp`, so that an error or a crash can fall between creating the file,
  writing it and entering it in the map. `Crash` is the end of the process, which
  `main` brings about as well while requests run; `LoadKey` is the next start.
* `Registry` - what the key store promises to those who are told an address;
  `Keystore` implements it.
* `Server` - `main.go`, `api/router.go`, `core.go`, `jwt.go` and what the handlers
  of `api.go` make of their parameters. `main` and `listener` are the two
  goroutines of the process: `Load`, `Start`, `Listen`, `Served`, `Exit` and
  `Notify`, `Interrupt`, `StopEngine`, `StopRest`, `ShutdownReturns`. A request
  goes through `Connect`, `Arrive`, `Read`, `Dispatch`, `Finish`; the operations
  themselves only return, panic or never come back, which is all that `EvmController`,
  `SendPress` and `Payments` leave the server to see of them.
* `MCPressEVM`, `MCEvmController`, `MCSendPress`, `MCPayments`, `MCKeystore`,
  `MCServer` - values of the
  constants and, where a run needs them, bounds, for TLC.
* `Table` - the order in which the queries return rows.
* `PressEVMProofs`, `EvmControllerProofs`, `KeystoreProofs`, `ServerProofs`,
  `SendPressProofs`, `PaymentsProofs` - theorems about the module each is named
  after; `Sets` - the lemmas on finite sets, orders, sums and measures they share.

Operators named `Bug...` are definitions as a plausible mistake would have them,
used to see that a property would notice; no specification refers to them.

What the models abstract: signatures, addresses and hashes (a transaction is the
record of what it spends and pays), JSON, logging, and the rates, which only set
how long a goroutine sleeps. An answer of a node without an error counts as success, as in
`SendTransaction`, and `make` of the channel succeeds for every count that is not
negative. A handler's panic is kept as an outcome of its request. The engine's key store,
database and coin table are constants (`KeyLoaded`, `Wired`) because at this
commit nothing fills them: what the UTXO modules show is about the engine
connected to them, as its code expects to be.

## Runs

| Run | Bounds | What it shows |
|---|---|---|
| `press` | 3 nodes, 2 accounts, counts -1, 0, 1, 4 | every transaction goes out once, all of them before a call returns or hangs; the last goroutine never hangs; a hanging call stays so; the press implements `Dealer`, which bounds overtaking |
| `evm_serial` | 2 nodes, 3 accounts, 2 requests of any kind, counts -1, 0, 3 and "not a number" | the mutex serialises the operations (refinement of the modules in which calls follow one another); what fundings leave in the pools; a stuck press keeps the mutex |
| `evm_live` | 2 nodes, 2 accounts, 2 requests | every request is answered unless a press gets stuck |
| `evm_one_node` | 1 node, counts 1 and 3 | with the shipped configuration every request is answered |
| `send_one` | 7 outputs, 2 clients, counts -1, 0, 3, 7 | one call spends no output twice, leaves at most one per client, never over-reports, stops within one transaction, returns though nobody answers |
| `send_two` | 2 calls, 4 outputs, 2 clients | nodes get conflicting transactions, only ever from different calls |
| `pay_one` | one call of any kind, 3 addresses in two batches, 4 outputs, amounts that fit, exceed and wrap, up to 3 rounds, negative counts | refusal means nothing was sent; nobody is paid twice; of what was sent, the answered part is counted and reported; the call ends |
| `pay_two` | 2 calls of any kind, 3 outputs, 3 addresses in two batches, amounts 1, 3, 63 modulo 64 | what is sent is covered by its inputs in spite of stale balances and wrapping; own spends are not reused; rows are marked only for spends the node took |
| `keystore` | 2 calls, 3 addresses, counts -1, 1, 2, any number of crashes, whole key files for some addresses at first | an address that an answer named is stored and found again (refinement of `Registry`); the map follows the directory; no call waits for ever |
| `server_requests` | 1 request of any method, path, token, type, body and parameters, whole or cut short; numbers with and without a sign at, inside and beyond the ends of int and uint64, with 128 for 2^63 | what reaches the controller is authorised, is what was asked for and fits its type |
| `server_stop` | 3 requests that may never end, interrupts at any time | the process ends after an interrupt, or it came before the server, which then is never shut down |

Why the bounds are enough. Three goroutines are the fewest in which two can
overtake a third. Two accounts share one transaction as a remainder and four
evenly; three accounts give a funding two payees, so that a failure of
the first shows in what happens to the second. Seven outputs give the two
clients of `Send` unequal, odd and even shares, and one of them two rounds. In
`Payments` two payments stand for 500 in a transaction and 64 for 2^64; the
ratios that matter are kept: a batch of the largest amounts stays below half
the modulus, a fee below what is set aside, and the amounts enumerated include
one whose sum wraps to something payable (33) and one that wraps with the fee
(63). In `Keystore` the third address lets one call add two while the other adds
one. A request of `Server` is handled without regard to others, so one of every
kind is enough for `server_requests`; the numbers in the URL differ from those
in the body, so that one taken for the other shows. Both include the first and
the last integer of a range, their neighbours outside it, what `ParseUint` takes
and `Atoi` does not (from 2^63 up) and the reverse (a sign), and what neither does;
128 for 2^63 keeps their order. In `server_stop` three
requests can be at different places when the process ends. `MaxTaken`, `MCNext` of `MCPressEVM` limit how many calls build on each
other in one run; `EvmController` has two calls in sequence. In `MCSendPress`
the table changes only while some call still reads it, which no property of the
run can tell from a later change. `MCPayments` starts with one unconfirmed row.

Every run says CHECK_DEADLOCK FALSE: requests are finite in number, calls end,
a press may hang, and a process ends, so each of the systems may really stop.

## Fairness

The goroutines of a call are weakly fair: the Go scheduler runs what can run,
`time.Sleep` comes back, and an HTTP call comes back with an answer or an error
(the Qitmeer client after five seconds; for the Ethereum client, which sets no
time limit, this is an assumption about the nodes). Getting the mutex is weakly fair per request: Go's
mutex goes into starvation mode after a millisecond. No fairness is assumed for
requests arriving, nodes gossiping, the database catching up, a stop, or, in
`SendPress`, for the nodes' answers: `ReturnsUnanswered` holds without any.

`Keystore` assumes that a goroutine with something to do is scheduled while the
process runs, and that the file system answers; nothing makes the process end
or start. With two writers weak fairness is enough for the lock, because each
adds a bounded number of addresses. `Server` assumes fairness of `main` and of
the listener goroutine only: no request needs to be sent, to be read to its end
or to come back, and no interrupt needs to come.

## Proofs

Every invariant and every action property that a run checks, and every
refinement, is also a theorem, for any values of the constants that satisfy the
named assumptions. The inductive invariants were evaluated by TLC on the runs'
instances first, where they range over no infinite set. In every proof module one lemma per action says that the
action keeps the invariant; the theorems follow from it.

`PressEVMProofs`, for any number of nodes, accounts and transactions, from
`EvmConfig` (at least one node and one account), `PressArguments` (arguments are
integers) and `NoJobIsNoJob`. It is about `PressSpec`, a press among others who
change the pools as they please between its steps; `NodesAreOthers` says that
`Spec`, with gossiping nodes, is one of these. The inductive invariant `IInv`
says nothing of the pools. It joins `PressTypes` with `Queue` (the channel holds
the latest transactions in order), `Filling` (what was built is what the accounts
served so far add up to), `Running` (goroutines exist only when all is built; one
that is done has seen the channel empty), `Accounted` (a transaction taken out is
attempted or in exactly one goroutine's hands), `Overtaking` and `LastOneReturns`.
None of the properties is inductive alone: that nothing is sent twice needs the
numbers in the channel to be consecutive, and that the shares add up is the
arithmetic of `Filling`. From it follow the safety properties and the refinement
`PressIsADealer`: only `Call`, `Send` and the end of a call change what the dealer
sees. That `Send` is its `HandOver` takes `Accounted` (the transaction was not
handed over before) and the bound of `LittleReordering`; that the end of a call
leaves nothing takes `AllAttempted`.

`OpenPressIsADealer` and `OpenPressIsSafe` state the same for `PressSpec`.
`EvmControllerProofs` proves that the server implements `P!PressSpec`
(`ServerIsSerial`); the two together say that the press inside the server, with
fundings and other presses before and after it, is a dealer and safe. This last
substitution is made here and not in a module: the prover cannot cite a theorem
of an instantiated module.

`EvmControllerProofs` adds `RequestsAreRequests` and `FieldsAreNumbers`. Its
invariant `Exclusion` says that an operation is under way only while the
request that started it has the lock; from it follow `NeverBothOperations`,
`StuckPressHoldsMutex` and `ServerIsSerial`, the refinement: each step of the
server is a step of the module's serial specification or leaves it unchanged.
`PoolInv` describes the pools: which sender holds which nonces and what a
funding under way has already placed; from it follow `FunderConflicts`,
`TokensBeforeMeer`, `NoGap` and `TakenNonce`. Types need both (`TypeCorrect`): that
what a goroutine sends is a transaction is `PoolInv`, that a call begins only
when the last has ended is `Exclusion`.

`KeystoreProofs`, for any number of calls and addresses, from `KeystoreConfig`. Its
invariant adds to `TypeOK` and `ServedIsOnDisk`: an address at hand belongs to one
call, is not in the map, and its file is as far as the call is (`AtHand`); there
is no file for an address nobody generated (`Fresh`); what a call is about to
answer with is served (`ToldIsServed`); a process that is gone remembers nothing
(`Forgotten`). `ImplementsRegistry` needs `AtHand` to know that creating a file
never replaces a whole key and that the entry follows a whole file.

`ServerProofs`, for any requests, from `ServerConfig`. `RunsAsAsked` speaks of the end
of a request; its invariant says what is known on the way: requests exist only
while main serves (`Places`), how much of a body has been read and that nothing
was called yet (`Steps`), and that a controller that was called was called after
all the checks with what they make of the request (`Checked`). `ServerConfig` says
of numbers only that `Half`, the 2^63 of the code, is above 1: a request holds
numerals of any sign and size, texts or nothing. `AtoiValueType` gives the value
of `Atoi` for all of them, and `NumberAsked` what each operation makes of it. `EngineFirst`, that
the engine is stopped before the server and the server only after an interrupt,
is what `DeafIsForever` needs.

`SendPressProofs`, for any number of calls, clients and outputs, from `SendConfig`.
`Collected` says that what a call has read are different outputs, `Walk` that a
client's goroutine has passed an even number of the outputs dealt to it and that
`tried` is exactly the pairs it passed, `Sent` that what is in flight or taken was
tried. `NoOutputTwice` is then the arithmetic of the slices: those of two clients
are disjoint, whatever the remainder that the last one gets.
`OnlyCallsConflict` follows with it, and `LeftoverBound` from `Walk` at the return.
`Late` is for the stop. `NeverOverReports` needs more than a sum: `Counters` says
that a counter plus the goroutines that have still to add to it, also what one of
them is about to write, is no more than the node took of this call, which the
unlocked increments can make smaller and never larger; `Added` carries it through
the summing up, which may run while goroutines still count.

`PaymentsProofs`, for any number of calls, outputs, addresses and any amounts, from
`LedgerConfig`, `PaymentsConfig` and `AmountsFit`. `Orders` and `Addresses` are the keys
of a map, so an order names each address once and they are finitely many.
`AmountsFit` says that a batch of the largest amount a transaction may carry, a
change and the fee stay below 2^64: the largest amount is some 2.1 * 10^15, and
500 times that is far below. Nothing is assumed of the amounts requests ask for
or of the balance, so products and sums wrap as they do in the code. The
invariant has for each call a part of its own, in terms of what it has handed
over, what was answered and the table (`CallInv`): where it may be (`Places`), the
loops' variables (`Loops`), the transaction at hand (`AtHand`) and those handed over
with their numbers and payees (`Numbered`), that a `TransferAll` that has sent one
batch can pay for the rest (`Affordable`), the counts (`Counted`) and the spends
(`Spent`). `NoValueCreated` needs `BuiltTx`: that the checks of `TxEncode` on wrapped
numbers leave only transactions whose true sums agree. `RefusedMeansNothingSent`
needs `Affordable`, because the last batch may be smaller and wrap differently.
`PaidOnce` needs `Numbered`, since batches are disjoint parts of an injective list.
`OwnSpendsNotReused` needs `Spent` through the marking, where some rows are still
usable, and `SpentStays`, that what other calls, the filling of the table and
marks do keeps it.

`Sets` proves what the library offers only with an operator as parameter:
induction over sets of numbers (from the least element of a well-founded
relation), that a finite set of numbers can be put in order, what
`SumFunctionOnSet` does with one element more, and that measures, three numbers
of which an earlier one weighs more, do not descend for ever (`NoEndlessDescent`).

Liveness under fairness is out of the prover's reach, so the six liveness
properties, `AnsweredOrStuck`, `EveryoneAnswered`, `ReturnsUnanswered`,
`EveryCallEnds`, `EveryAddEnds` and `InterruptEnds`, are only model-checked. The half
of them that is safety is proved: `PressGetsOn`, `ShareGetsOn`, `SendGetsOn`,
`CallsGetOn` (of `PaymentsProofs` and of `KeystoreProofs`) and `InterruptGetsOn` give
each call, goroutine or process a measure of what is left, and say that each of
its steps makes it smaller, whatever nodes, files and the database answer, and
that nobody else's step makes it larger. With `NoEndlessDescent` nothing takes
steps for ever; that it takes them until it ends is the fairness, and, for a
press, that it is not stuck. `InterruptGetsOn` adds that one of main and the
listener waits for nobody until the process is gone. That nobody waits for ever
for the mutex of the controller or the lock of the key store is left to TLC.

## What the models say about the code

Behaviour worth knowing that the models contain and the properties are worded
around:

* With two or more nodes a press can hang for good and then blocks every later
  EVM request; with count 0 it does so with one node, too.
* `Send` calls that overlap send conflicting transactions, and the number
  reported may be smaller than what the nodes took.
* `TransferAll` reports addresses it passed over without paying, and `Split`
  takes the rest for the size of every round when the number of rounds is 501.
* `MergerUTXO` panics on a last slice shorter than 500 unless the slice happens
  to have room, after the earlier slices have been sent.
* A key file cut short by a crash is loaded as a key and its address is listed
  after the restart: `TransferAll` pays to it. Nobody was ever told of the
  address, which is what `ImplementsRegistry` says.
* An interrupt in the moment between `go listenInterrupt()` and the assignment of
  `Serv` stops the engine and not the server, and no later interrupt is received.
  The cancelled context is looked at only by `Engine.send`: `sendPress` sends
  nothing any more, while `split`, the transfers, `mergeUTXO` and the EVM requests
  go on as before.
* Requests still running five seconds after the server returned are cut off,
  since `main` waits for neither them nor `Shutdown`.
* The parameters of a form body are lost, and so are those of a body whose
  Content-Type names a charset or is missing: `addAddress` then adds one address,
  the other operations answer with an error. A count of a press that is no
  number becomes 0, one beyond 64 bits the largest or the smallest integer,
  because the error of its `Atoi` is overwritten by that of the rate; `make`
  panics for either. Counts and rates may be negative, amounts of a transfer
  have no sign and go up to 2^64 - 1.

## Not modelled, and why

* `abi/token.go` is generated; what it does is part of the environment.
  `external/api.go` is not used. `config` only provides constants.
* Code that nothing calls, which no reachable state enters: `evm.PressEVM`, the
  first version of the press, with `sendTransferByTps`; the faucet records of
  `db/sqldb`; the block, coin and transaction queries of `rpc`;
  `Keystore.RandAddress`.
* `UnspentCount` and the counting queries read and answer; they change nothing.
* Error codes, wording and headers of answers (`error.go`, parts of `core.go`), and
  the files `handleFile` serves.
* That a channel may be too large for memory, for which `make` panics as it does
  for a negative size: `PressEVM` panics for the negative one only.
* In `Server`, a kill of the process from outside; what it would leave behind is
  on the disk only, and `Crash` of `Keystore` is about that.

## Plan

Done: `EvmNode`, `PressEVM` with `Dealer`, `ShareMoney`, `EvmController`; `SendPress`;
`Ledger`, `Payments`; `Keystore` with `Registry`; `Server`; theorems for every
invariant, action property and refinement of the runs, and for the safety half
of the liveness properties.

1. An abstract specification of a wallet call (build, hand over, mark) that
   `Payments` implements, and the refinement as a theorem.
2. Who waits for whom: that a request that waits for the mutex, or a call that
   waits for the key store's lock, waits for one that has less to do, as an
   invariant over the measures; the same for `wg.Wait` of a press and its
   goroutines outside of `Stuck`.
