---------------------------- MODULE ServerProofs ----------------------------
(***************************************************************************)
(* For any number of requests and whatever stands in them, numbers of any  *)
(* size included: an operation runs only as its request asked, and a       *)
(* process that took its interrupt too early is never shut down.           *)
(***************************************************************************)
EXTENDS Server, Sets

\* Requests come in only after main has begun to serve, and go with it.
Places ==
  /\ main \in {"load", "run", "assigned"} => \A r \in Reqs : at[r] = "new"
  /\ main = "gone" => \A r \in Reqs : at[r] # "connected"

\* How far a request has come before its controller is called.
Steps ==
  \A r \in Reqs :
    /\ at[r] \in {"new", "connected"} => got[r] = 0
    /\ at[r] \in {"new", "connected", "reading", "dispatch"} => args[r] = Uncalled
    /\ at[r] \in {"reading", "dispatch"} \/ Called(r) => Routed(req[r])
    /\ at[r] = "reading" => got[r] < req[r].length

\* A controller that was called was called with what these make of it.
Checked ==
  \A r \in Reqs : Called(r) =>
    /\ ~FormFails(req[r], got[r])
    /\ Authorised(req[r])
    /\ Parses(req[r])
    /\ args[r] = Args(req[r])

\* The engine is stopped before the server is, and only for an interrupt.
EngineFirst ==
  /\ main = "load" => listener = "off"
  /\ listener \in {"stop", "shutdown", "over"} => stopped
  /\ shut => listener \in {"shutdown", "over"}

IInv == TypeOK /\ Places /\ Steps /\ Checked /\ EngineFirst

-----------------------------------------------------------------------------
\* What a handler reads is a form, wherever the request keeps it.
LEMMA GivenType == ASSUME NEW q \in Request PROVE Given(q) \in Fields
  BY DEF Given, Form, Request, Fields, Nothing, Texts

\* A numeral stands for an integer, and one without a sign for a natural number.
LEMMA ValueType ==
  ASSUME NEW t \in Numerals
  PROVE  Value(t) \in Int /\ (t.sign = "" => Value(t) = t.digits /\ t.digits \in Nat)
<1>1. t.digits \in Nat
  BY DEF Numerals
<1>2. \A n \in Nat : -n \in Int /\ n \in Int
  OBVIOUS
<1>3. -t.digits \in Int /\ t.digits \in Int
  BY <1>1, <1>2, Zenon
<1>4. t.sign = "-" => Value(t) = -t.digits
  BY Zenon DEF Value
<1>5. t.sign # "-" => Value(t) = t.digits
  BY Zenon DEF Value
<1>6. "" # "-"
  OBVIOUS
<1> QED
  BY <1>1, <1>3, <1>4, <1>5, <1>6, Zenon

\* The ends of the ranges of int and uint64 are integers, in order.
LEMMA Ranges ==
  /\ MinInt \in Int /\ MaxInt \in Int /\ MaxUint \in Int
  /\ MinInt < 0 /\ 0 < MaxInt /\ MaxInt < MaxUint
  BY ServerConfig DEF MinInt, MaxInt, MaxUint

\* Atoi's value is an int, whatever the text, and what a text in range stands
\* for.
LEMMA AtoiValueType ==
  ASSUME NEW t
  PROVE  /\ AtoiValue(t) \in MinInt .. MaxInt
         /\ IsInt(t) => AtoiValue(t) = Value(t)
         /\ ~IsInt(t) => AtoiValue(t) \in {0, MaxInt, MinInt}
<1>1. CASE t \notin Numerals
  BY <1>1, Ranges DEF AtoiValue, IsInt
<1>2. CASE t \in Numerals
  <2>1. Value(t) \in Int
    BY <1>2, ValueType
  <2> QED
    BY <1>2, <2>1, Ranges DEF AtoiValue, IsInt
<1> QED
  BY <1>1, <1>2

\* A call's arguments fit the types of the operation's parameters.
ArgsFit(path, a) ==
  /\ path \in {"split", "addAddress"} \cup Presses => a.number \in MinInt .. MaxInt
  /\ path \in Transfers => a.number \in 0 .. MaxUint
  /\ path \in Presses => a.tps \in MinInt .. MaxInt

\* What the controller is called with fits.
LEMMA ArgsType ==
  ASSUME NEW q \in Request, Routed(q), Parses(q)
  PROVE  /\ Args(q) \in [number : {Missing} \cup Int, tps : {Missing} \cup Int,
                          amount : Texts]
         /\ ArgsFit(q.path, Args(q))
<1>1. Given(q).number \in Texts /\ Given(q).tps \in Texts
  BY GivenType DEF Fields
<1>2. q.path \in PostPaths \cup GetPaths
  BY DEF Routed
<1>3. Amount(q) \in Texts
  BY <1>1 DEF Amount, Hundred, Texts, Numerals
<1>4. q.path \in Presses =>
        /\ Number(q) \in MinInt .. MaxInt
        /\ Value(Given(q).tps) \in MinInt .. MaxInt
  <2>1. q.path \in Presses => Number(q) = AtoiValue(Given(q).number)
    BY DEF Number, Presses, Transfers
  <2>2. q.path \in Presses => IsInt(Given(q).tps)
    BY DEF Parses
  <2> QED
    BY <2>1, <2>2, AtoiValueType, Zenon DEF IsInt
<1>5. q.path \in {"split", "addAddress"} => Number(q) \in MinInt .. MaxInt
  <2>1. 1 \in MinInt .. MaxInt
    BY ServerConfig DEF MinInt, MaxInt
  <2>2. q.path = "split" => Number(q) = Value(Given(q).number) /\ IsInt(Given(q).number)
    BY DEF Number, Parses, Presses, Transfers
  <2>3. q.path = "addAddress" =>
          Number(q) = IF IsInt(Given(q).number) THEN Value(Given(q).number) ELSE 1
    BY DEF Number, Presses, Transfers
  <2> QED
    BY <2>1, <2>2, <2>3, Zenon DEF IsInt
<1>6. q.path \in Transfers => Number(q) \in 0 .. MaxUint
  <2> SUFFICES ASSUME q.path \in Transfers PROVE Number(q) \in 0 .. MaxUint
    OBVIOUS
  <2>1. Number(q) = Value(Given(q).number) /\ IsUint(Given(q).number)
    BY DEF Number, Parses, Presses, Transfers
  <2>2. /\ Number(q) = Given(q).number.digits /\ Number(q) \in Nat
        /\ Given(q).number.digits <= MaxUint
    BY <2>1, ValueType, Zenon DEF IsUint
  <2>3. Number(q) <= MaxUint
    BY <2>2, Zenon
  <2> QED
    BY <2>2, <2>3, Ranges
<1>7. Number(q) \in {Missing} \cup Int
  <2>1. CASE q.path \in Presses \cup Transfers \cup {"split", "addAddress"}
    BY <1>4, <1>5, <1>6, <2>1, Ranges
  <2>2. CASE q.path \notin Presses \cup Transfers \cup {"split", "addAddress"}
    BY <2>2 DEF Number
  <2> QED
    BY <2>1, <2>2
<1>8. Args(q).tps \in {Missing} \cup Int
  BY <1>4, Ranges DEF Args
<1>9. ArgsFit(q.path, Args(q))
  BY <1>4, <1>5, <1>6 DEF ArgsFit, Args
<1> QED
  BY <1>3, <1>7, <1>8, <1>9 DEF Args

-----------------------------------------------------------------------------
\* Before the process has loaded anything the invariant holds.
LEMMA InitIInv == Init => IInv
<1>1. Nothing \in Fields /\ NoRequest.length = 0
  BY DEF Nothing, Fields, Texts, NoRequest
<1>2. NoRequest \in Request
  BY <1>1 DEF NoRequest, Request
<1>3. Uncalled \in [number : {Missing} \cup Int, tps : {Missing} \cup Int,
                     amount : Texts]
  BY DEF Uncalled, Texts
<1> SUFFICES ASSUME Init PROVE IInv
  OBVIOUS
<1>4. TypeOK
  <2>1. stopped \in BOOLEAN /\ shut \in BOOLEAN
    BY DEF Init
  <2>2. \A r \in Reqs : at[r] = "new" /\ got[r] = 0 /\ req[r].length = 0
    BY <1>1 DEF Init
  <2> QED
    BY <1>2, <1>3, <2>1, <2>2 DEF Init, TypeOK, Called, Active, Ended
<1>5. Places /\ Steps /\ Checked /\ EngineFirst
  BY DEF Init, Places, Steps, Checked, EngineFirst, Called
<1> QED
  BY <1>4, <1>5 DEF IInv

\* main keeps it: when the process goes, its requests are cut.
LEMMA MainStep == ASSUME IInv, Main PROVE IInv'
<1>1. CASE Load \/ Start
  BY <1>1 DEF Load, Start, requestVars, IInv, TypeOK, Places, Steps, Checked,
     EngineFirst, Called, Active
<1>2. CASE Listen \/ Served
  BY <1>2 DEF Listen, Served, requestVars, IInv, TypeOK, Places, Steps, Checked,
     EngineFirst, Called, Active
<1>3. CASE Exit
  BY <1>3 DEF Exit, Gone, Close, IInv, TypeOK, Places, Steps, Checked,
     EngineFirst, Called, Active, Ended
<1> QED
  BY <1>1, <1>2, <1>3 DEF Main

\* The goroutine that waits for the interrupt keeps it.
LEMMA ListenerStep == ASSUME IInv, Listener PROVE IInv'
<1>1. CASE Notify
  BY <1>1 DEF Notify, requestVars, IInv, TypeOK, Places, Steps, Checked,
     EngineFirst, Called
<1>2. CASE StopEngine
  <2>1. UNCHANGED <<main, shut, at, req, got, args>>
    BY <1>2 DEF StopEngine, requestVars
  <2>2. stopped' /\ stopped' \in BOOLEAN /\ listener' = "stop" /\ main # "load" /\ ~shut
    BY <1>2 DEF StopEngine, IInv, EngineFirst
  <2>3. TypeOK'
    BY <2>1, <2>2 DEF IInv, TypeOK, Called
  <2> QED
    BY <2>1, <2>2, <2>3 DEF IInv, Places, Steps, Checked, EngineFirst, Called
<1>3. CASE StopRest
  <2>1. UNCHANGED <<main, stopped, at, req, got, args>>
    BY <1>3 DEF StopRest, requestVars
  <2>2. /\ stopped /\ main # "load"
        /\ listener' \in {"over", "shutdown"} /\ shut' \in BOOLEAN
    BY <1>3 DEF StopRest, IInv, TypeOK, EngineFirst
  <2>3. TypeOK'
    BY <2>1, <2>2 DEF IInv, TypeOK, Called
  <2> QED
    BY <2>1, <2>2, <2>3 DEF IInv, Places, Steps, Checked, EngineFirst, Called
<1>4. CASE ShutdownReturns
  BY <1>4 DEF ShutdownReturns, Close, IInv, TypeOK, Places, Steps, Checked,
     EngineFirst, Called, Active, Ended
<1> QED
  BY <1>1, <1>2, <1>3, <1>4 DEF Listener

\* An interrupt keeps it, whether it kills the process or is taken.
LEMMA InterruptStep == ASSUME IInv, Interrupt PROVE IInv'
  BY DEF Interrupt, Receives, Gone, Close, requestVars, IInv, TypeOK, Places,
     Steps, Checked, EngineFirst, Called, Active, Ended

\* A new connection keeps it.
LEMMA ConnectStep ==
  ASSUME IInv, main # "gone", NEW r \in Reqs, Connect(r) PROVE IInv'
  BY DEF Connect, Go, processVars, IInv, TypeOK, Places, Steps, Checked,
     EngineFirst, Called, Active, Ended

\* A request keeps it: of its body nothing has been read.
LEMMA ArriveStep ==
  ASSUME IInv, main # "gone", NEW r \in Reqs, Arrive(r) PROVE IInv'
<1>1. PICK q \in Requests :
        /\ req' = [req EXCEPT ![r] = q]
        /\ at' = [at EXCEPT ![r] =
             IF q.method = "OPTIONS" THEN "options"
             ELSE IF ~Routed(q) THEN "file"
             ELSE IF q.method = "POST" /\ q.length > 0 THEN "reading"
             ELSE "dispatch"]
  BY DEF Arrive, Go
<1>2. q \in Request /\ q.length \in Nat
  BY ServerConfig DEF Request
<1>3. at[r] = "connected" /\ UNCHANGED <<processVars, got, args>>
  BY DEF Arrive
<1>4. got[r] = 0
  BY <1>3 DEF IInv, Steps
<1>5. TypeOK'
  BY <1>1, <1>2, <1>3, <1>4 DEF processVars, IInv, TypeOK, Places, Called, Active, Ended
<1>6. (Places /\ Steps /\ Checked /\ EngineFirst)'
  BY <1>1, <1>2, <1>3, <1>4 DEF processVars, IInv, TypeOK, Places, Steps, Checked,
     EngineFirst, Called
<1> QED
  BY <1>5, <1>6 DEF IInv

\* A piece of the body keeps it: there are no more than were announced.
LEMMA ReadStep ==
  ASSUME IInv, main # "gone", NEW r \in Reqs, Read(r) PROVE IInv'
<1>1. req[r].length \in Nat
  BY DEF IInv, TypeOK, Request
<1>2. /\ at[r] = "reading" /\ UNCHANGED <<processVars, req, args>>
      /\ \E p \in {"reading", "dispatch"} : at' = [at EXCEPT ![r] = p]
      /\ \/ got' = got /\ at' = [at EXCEPT ![r] = "dispatch"]
         \/ /\ got' = [got EXCEPT ![r] = @ + 1]
            /\ at'[r] = "reading" => got[r] + 1 < req[r].length
  BY <1>1 DEF Read, Go, IInv, TypeOK
<1>3. TypeOK'
  BY <1>1, <1>2 DEF processVars, IInv, TypeOK, Places, Steps, Called, Active, Ended
<1>4. (Places /\ Steps /\ Checked /\ EngineFirst)'
  BY <1>1, <1>2 DEF processVars, IInv, TypeOK, Places, Steps, Checked,
     EngineFirst, Called
<1> QED
  BY <1>3, <1>4 DEF IInv

\* The checks keep it: they are what it says of a call of the controller.
LEMMA DispatchStep ==
  ASSUME IInv, main # "gone", NEW r \in Reqs, Dispatch(r) PROVE IInv'
<1>1. at[r] = "dispatch" /\ UNCHANGED <<processVars, req, got>>
  BY DEF Dispatch
<1>2. req[r] \in Request /\ Routed(req[r])
  BY <1>1 DEF IInv, TypeOK, Steps
<1>3. CASE args' = args /\ \E p \in {"form", "unauthorized", "unknown"} :
                             at' = [at EXCEPT ![r] = p]
  BY <1>1, <1>3 DEF processVars, IInv, TypeOK, Places, Steps, Checked,
     EngineFirst, Called, Active, Ended
<1>4. CASE /\ ~FormFails(req[r], got[r]) /\ Authorised(req[r]) /\ Parses(req[r])
           /\ at' = [at EXCEPT ![r] = "running"]
           /\ args' = [args EXCEPT ![r] = Args(req[r])]
  <2>1. /\ Args(req[r]) \in [number : {Missing} \cup Int, tps : {Missing} \cup Int,
                             amount : Texts]
        /\ ArgsFit(req[r].path, Args(req[r]))
    BY <1>2, <1>4, ArgsType
  <2>2. TypeOK'
    BY <1>1, <1>4, <2>1 DEF processVars, IInv, TypeOK, ArgsFit, Places, Called,
       Active, Ended
  <2>3. (Places /\ Steps /\ Checked /\ EngineFirst)'
    BY <1>1, <1>2, <1>4 DEF processVars, IInv, TypeOK, Places, Steps, Checked,
       EngineFirst, Called
  <2> QED
    BY <2>2, <2>3 DEF IInv
<1> QED
  BY <1>3, <1>4 DEF Dispatch, Go

\* The end of an operation keeps it.
LEMMA FinishStep ==
  ASSUME IInv, main # "gone", NEW r \in Reqs, Finish(r) PROVE IInv'
  BY DEF Finish, Go, processVars, IInv, TypeOK, Places, Steps, Checked,
     EngineFirst, Called, Active, Ended

\* Every step keeps the invariant.
LEMMA NextIInv == IInv /\ [Next]_vars => IInv'
<1> SUFFICES ASSUME IInv, [Next]_vars PROVE IInv'
  OBVIOUS
<1>1. CASE UNCHANGED vars
  BY <1>1 DEF vars, IInv, TypeOK, Places, Steps, Checked, EngineFirst, Called
<1>2. CASE Main \/ Listener \/ Interrupt
  BY <1>2, MainStep, ListenerStep, InterruptStep
<1>3. CASE main # "gone" /\ \E r \in Reqs :
             Connect(r) \/ Arrive(r) \/ Read(r) \/ Dispatch(r) \/ Finish(r)
  BY <1>3, ConnectStep, ArriveStep, ReadStep, DispatchStep, FinishStep
<1> QED
  BY <1>1, <1>2, <1>3 DEF Next

\* The invariant holds for any requests.
THEOREM Invariant == Spec => []IInv
  BY InitIInv, NextIInv, PTL DEF Spec

\* Every variable of the process has its type, and no request is under way
\* before main serves or after it has gone (main.go:24-61, router.go:89-97).
THEOREM TypeCorrect == Spec => []TypeOK
  BY Invariant, PTL DEF IInv

-----------------------------------------------------------------------------
\* What the request names is in the form or the URL, and the number of the
\* call is one of these or the operation's default.
LEMMA NumberAsked ==
  ASSUME NEW q \in Request, Routed(q), Parses(q), q.path \notin NoNumber
  PROVE  /\ Number(q) \in Named(q) \cup Default(q)
         /\ Fits(q, Given(q).number) => Number(q) = Value(Given(q).number)
<1> DEFINE t == Given(q).number
<1>1. q.path \in Presses \cup Transfers \cup {"split", "addAddress"}
  BY DEF Routed, PostPaths, GetPaths, NoNumber, Presses, Transfers
<1>2. Fits(q, t) => Number(q) = Value(t)
  BY <1>1, AtoiValueType DEF Fits, Number, Presses, Transfers
<1>3. Fits(q, t) => t \in {q.url.number, q.body.number}
  <2>1. Given(q) \in {q.url, q.body, Nothing}
    BY DEF Given, Form, Request
  <2>2. Nothing.number = Missing /\ ~Fits(q, Missing)
    BY ServerConfig DEF Nothing, Fits, IsInt, IsUint
  <2> QED
    BY <2>1, <2>2
<1>4. ~Fits(q, t) => Number(q) \in Default(q)
  BY <1>1, AtoiValueType DEF Fits, Number, Parses, Default, Presses, Transfers
<1> QED
  BY <1>2, <1>3, <1>4 DEF Named

\* A call that passed the checks of Handle and of its handler does what its
\* request asks.
LEMMA CheckedRuns == IInv => RunsAsAsked
<1> SUFFICES ASSUME IInv, NEW r \in Reqs, Called(r)
             PROVE  LET q == req[r]
                        n == args[r].number
                        json == q.method = "POST" /\ q.type = "json" /\ q.length > 0
                    IN  /\ AuthOn => q.token = "good"
                        /\ json => got[r] = q.length /\ q.json # "invalid"
                        /\ q.path \notin NoNumber =>
                             /\ n \in Named(q) \cup Default(q)
                             /\ json /\ q.json = "object" /\ Fits(q, q.body.number) =>
                                  n = Value(q.body.number)
                        /\ q.path \in Presses =>
                             \E t \in {q.url.tps, q.body.tps} :
                               IsInt(t) /\ args[r].tps = Value(t)
                        /\ q.path = "shareMoney" =>
                             args[r].amount \in {q.url.number, Hundred} \ {Missing}
  BY DEF RunsAsAsked
<1> DEFINE q == req[r]
<1>1. q \in Request /\ q.length \in Nat /\ Routed(q) /\ got[r] \in 0 .. q.length
  BY DEF IInv, TypeOK, Steps, Request
<1>2. /\ ~FormFails(q, got[r]) /\ Authorised(q) /\ Parses(q) /\ args[r] = Args(q)
  BY DEF IInv, Checked
<1>3. AuthOn => q.token = "good"
  BY <1>2 DEF Authorised
<1>4. q.method = "POST" /\ q.type = "json" /\ q.length > 0 =>
        got[r] = q.length /\ q.json # "invalid"
  BY <1>1, <1>2 DEF FormFails
<1>5. Given(q) \in {q.url, q.body, Nothing}
  BY <1>1 DEF Given, Form, Request
<1>6. /\ q.method = "POST" /\ q.type = "json" /\ q.length > 0 /\ q.json = "object"
           => Given(q) = q.body
  BY <1>1 DEF Given, Form
<1>7. q.path \notin NoNumber =>
        /\ args[r].number \in Named(q) \cup Default(q)
        /\ Fits(q, Given(q).number) => args[r].number = Value(Given(q).number)
  BY <1>1, <1>2, NumberAsked DEF Args
<1>8. q.path \in Presses =>
        \E t \in {q.url.tps, q.body.tps} : IsInt(t) /\ args[r].tps = Value(t)
  <2> SUFFICES ASSUME q.path \in Presses
               PROVE  \E t \in {q.url.tps, q.body.tps} : IsInt(t) /\ args[r].tps = Value(t)
    OBVIOUS
  <2>1. IsInt(Given(q).tps) /\ args[r].tps = Value(Given(q).tps)
    BY <1>2 DEF Parses, Args
  <2>2. Nothing.tps = Missing /\ ~IsInt(Missing)
    BY ServerConfig DEF Nothing, IsInt
  <2> QED
    BY <1>5, <2>1, <2>2
<1>9. q.path = "shareMoney" =>
        args[r].amount \in {q.url.number, Hundred} \ {Missing}
  <2> SUFFICES ASSUME q.path = "shareMoney"
               PROVE  args[r].amount \in {q.url.number, Hundred} \ {Missing}
    OBVIOUS
  <2>1. Given(q) = q.url
    BY <1>1 DEF Routed, PostPaths, Given
  <2>2. Hundred # Missing
    <3>1. Hundred \in Numerals
      BY DEF Hundred, Numerals
    <3> QED
      BY <3>1, ServerConfig
  <2> QED
    BY <1>2, <2>1, <2>2 DEF Args, Amount
<1> QED
  BY <1>3, <1>4, <1>6, <1>7, <1>8, <1>9

\* Whatever the parameters are, texts, numerals of any size or nothing: every
\* operation runs authorised, on a body that was received whole and with
\* numbers in the range of their types, a payment or a split never on a
\* default, and a press on 0 or an end of the range only for a count that
\* does not parse (core.go:36-47, router.go:144-200, api.go:47-154).
THEOREM Asked == Spec => []RunsAsAsked
  BY Invariant, CheckedRuns, PTL

\* No step takes a deaf server out of its state, and its engine's context is
\* cancelled.
LEMMA DeafStays == IInv /\ [Next]_vars => (Deaf => Deaf' /\ stopped')
<1> SUFFICES ASSUME IInv, [Next]_vars, Deaf PROVE Deaf' /\ stopped'
  OBVIOUS
<1>1. stopped /\ listener = "over" /\ main = "serving" /\ ~shut
  BY DEF IInv, EngineFirst, Deaf
<1>2. UNCHANGED processVars
  <2>1. CASE \E r \in Reqs :
               Connect(r) \/ Arrive(r) \/ Read(r) \/ Dispatch(r) \/ Finish(r)
    BY <2>1 DEF Connect, Arrive, Read, Dispatch, Finish
  <2>2. CASE UNCHANGED vars
    BY <2>2 DEF vars, processVars
  <2> QED
    BY <1>1, <2>1, <2>2 DEF Next, Main, Load, Start, Listen, Served, Exit,
       Listener, Notify, StopEngine, StopRest, ShutdownReturns, Interrupt, Receives
<1> QED
  BY <1>1, <1>2 DEF processVars, Deaf

\* An interrupt taken before there was a server is lost for good: the server
\* goes on, is never shut down and takes no other interrupt. Its engine's
\* context stays cancelled, which only Engine.send looks at (main.go:63-67,
\* api.go:160, router.go:96, presstest.go:146).
THEOREM DeafForever == Spec => DeafIsForever
  BY Invariant, DeafStays, PTL DEF Spec, DeafIsForever
-----------------------------------------------------------------------------
(***************************************************************************)
(* An interrupt that is taken brings the process to its end.               *)
(***************************************************************************)

\* What main and the listener have before them.
MainLeft ==
  CASE main = "load" -> 5 [] main = "run" -> 4 [] main = "assigned" -> 3
    [] main = "serving" -> 2 [] main = "sleep" -> 1 [] main = "gone" -> 0
ListenerLeft ==
  CASE listener = "off" -> 7 [] listener = "spawned" -> 6
    [] listener = "notified" -> 5 [] listener = "waiting" -> 4
    [] listener = "taken" -> 3 [] listener = "stop" -> 2
    [] listener = "shutdown" -> 1 [] listener = "over" -> 0
ToGo == <<MainLeft, ListenerLeft, 0>>

\* The interrupt has been taken.
Interrupted == listener \in {"taken", "stop", "shutdown", "over"}

\* main, or the listener, waits for nobody.
MainMoves == main \in {"run", "assigned", "sleep"} \/ (main = "serving" /\ shut)
ListenerMoves == listener \in {"taken", "stop"}

\* Nobody waits for the server to come down before it was told to.
Shutting == listener = "shutdown" => shut

\* What is left is three numbers.
LEMMA ToGoIsMeasure == TypeOK => ToGo \in Measures
<1> SUFFICES ASSUME TypeOK PROVE ToGo \in Measures
  OBVIOUS
<1>1. MainLeft \in Nat
  BY DEF TypeOK, MainLeft
<1>2. ListenerLeft \in Nat
  BY DEF TypeOK, ListenerLeft
<1> QED
  BY <1>1, <1>2 DEF ToGo, Measures

\* main, the listener and interrupts bring the end closer.
LEMMA ProcessCloser ==
  ASSUME TypeOK, Main \/ Listener \/ Interrupt
  PROVE  Closer(ToGo', ToGo)
<1>1. CASE main' = main /\ ListenerLeft' < ListenerLeft
  <2>1. MainLeft' = MainLeft
    BY <1>1 DEF MainLeft
  <2> QED
    BY <1>1, <2>1 DEF Closer, ToGo
<1>2. CASE MainLeft' < MainLeft
  BY <1>2 DEF Closer, ToGo
<1>3. Main => MainLeft' < MainLeft
  BY DEF Main, Load, Start, Listen, Served, Exit, Gone, MainLeft
<1>4. Listener => main' = main /\ ListenerLeft' < ListenerLeft
  BY DEF Listener, Notify, StopEngine, StopRest, ShutdownReturns, ListenerLeft
<1>5. Interrupt => \/ MainLeft' < MainLeft
                   \/ main' = main /\ ListenerLeft' < ListenerLeft
  <2>1. main # "gone" /\ Gone => MainLeft' < MainLeft
    BY DEF Gone, TypeOK, MainLeft
  <2>2. Receives /\ listener' = "taken" /\ UNCHANGED main =>
          main' = main /\ ListenerLeft' < ListenerLeft
    BY DEF Receives, ListenerLeft
  <2> QED
    BY <2>1, <2>2 DEF Interrupt
<1> QED
  BY <1>1, <1>2, <1>3, <1>4, <1>5

\* A request changes nothing of main and the listener.
LEMMA RequestsLeaveIt ==
  ASSUME NEW r \in Reqs, Connect(r) \/ Arrive(r) \/ Read(r) \/ Dispatch(r) \/ Finish(r)
  PROVE  UNCHANGED processVars
  BY DEF Connect, Arrive, Read, Dispatch, Finish

(* The half of InterruptEnds that does not depend on who is scheduled:     *)
(* whoever takes a step of the process brings its end closer, no request   *)
(* takes it back, and once an interrupt has been taken there is always one *)
(* of the two that waits for nobody, until the process has gone, unless it *)
(* is deaf (main.go:47-67, router.go:89-97).                               *)
THEOREM InterruptGetsOn ==
  Spec =>
    /\ [](ToGo \in Measures)
    /\ [](Interrupted => main = "gone" \/ Deaf \/ MainMoves \/ ListenerMoves)
    /\ [][/\ Main \/ Listener \/ Interrupt => Closer(ToGo', ToGo)
          /\ ToGo' = ToGo \/ Closer(ToGo', ToGo)]_vars
<1> DEFINE GetsOn == /\ Main \/ Listener \/ Interrupt => Closer(ToGo', ToGo)
                     /\ ToGo' = ToGo \/ Closer(ToGo', ToGo)
<1>1. Init => Shutting
  BY DEF Init, Shutting
<1>2. Shutting /\ [Next]_vars => Shutting'
  <2> SUFFICES ASSUME Shutting, [Next]_vars PROVE Shutting'
    OBVIOUS
  <2>1. CASE Main \/ Listener \/ Interrupt
    BY <2>1 DEF Shutting, Main, Load, Start, Listen, Served, Exit, Gone, Interrupt,
       Receives, Listener, Notify, StopEngine, StopRest, ShutdownReturns
  <2>2. CASE UNCHANGED processVars
    BY <2>2 DEF Shutting, processVars
  <2> QED
    BY <2>1, <2>2, RequestsLeaveIt DEF Next, vars, processVars
<1>3. IInv /\ Shutting =>
        (Interrupted => main = "gone" \/ Deaf \/ MainMoves \/ ListenerMoves)
  <2>1. TypeOK => main \in {"load", "run", "assigned", "serving", "sleep", "gone"}
    BY DEF TypeOK
  <2>2. EngineFirst => (main = "load" => listener = "off")
    BY DEF EngineFirst
  <2> QED
    BY <2>1, <2>2 DEF IInv, Shutting, Interrupted, Deaf, MainMoves, ListenerMoves
<1>4. IInv /\ [Next]_vars => GetsOn
  <2> SUFFICES ASSUME IInv, [Next]_vars PROVE GetsOn
    OBVIOUS
  <2>1. Main \/ Listener \/ Interrupt => Closer(ToGo', ToGo)
    BY ProcessCloser DEF IInv
  <2>2. UNCHANGED processVars => ToGo' = ToGo
    BY DEF processVars, ToGo, MainLeft, ListenerLeft
  <2> QED
    BY <2>1, <2>2, RequestsLeaveIt DEF Next, vars, processVars
<1>5. IInv => ToGo \in Measures
  BY ToGoIsMeasure DEF IInv
<1> QED
  BY <1>1, <1>2, <1>3, <1>4, <1>5, Invariant, PTL DEF Spec
=============================================================================
