------------------------------- MODULE Server -------------------------------
(***************************************************************************)
(* The process and its REST server: main starts it, one goroutine waits    *)
(* for an interrupt and stops it, and every request is read, dispatched,   *)
(* authorised and parsed on a goroutine of its own before it reaches the   *)
(* controller.  What the operations do is the matter of other modules;     *)
(* here they return, panic or never come back.                             *)
(***************************************************************************)
EXTENDS Integers

CONSTANTS
  Reqs,
  Requests,   \* what a request may be: see Request
  Half,       \* 2^63
  Missing,    \* a parameter that is not there (the empty string)
  Bad,        \* one that is no number
  AuthOn      \* conf.Auth.Jwt

MaxInt  == Half - 1
MinInt  == -Half
MaxUint == 2 * Half - 1

(* A numeral is a sign and digits, whose number has no bound.  A text that *)
(* is beyond 64 bits before its first wrong character counts as one:       *)
(* strconv goes no further.                                                *)
Numerals == [sign : {"", "+", "-"}, digits : Nat]
Value(t) == IF t.sign = "-" THEN -t.digits ELSE t.digits
Texts == {Missing, Bad} \cup Numerals

\* The numeric parameters: an amount or a count, and a rate.
Fields == [number : Texts, tps : Texts]
Nothing == [number |-> Missing, tps |-> Missing]

\* What the controller gets: numbers, and of ShareMoney a text.
Uncalled == [number |-> Missing, tps |-> Missing, amount |-> Missing]

PostPaths == {"sendPress", "split", "addAddress", "transferAll", "transfer",
              "mergeUTXO"}
GetPaths  == {"unspentCount", "shareMoney", "pressEVM"}

(* length is Content-Length, counted in the pieces that Body.Read returns, *)
(* and 0 if it is not given; json is what the body is as JSON, and body    *)
(* the parameters in it, in whatever encoding.                             *)
Request ==
  [method : {"GET", "POST", "OPTIONS"}, path : PostPaths \cup GetPaths \cup {"other"},
   token : {"none", "bad", "good"}, type : {"json", "form", "other"},
   length : Nat, json : {"object", "null", "invalid"}, url : Fields, body : Fields]

ASSUME ServerConfig ==
  /\ Half \in Nat /\ Half > 1
  /\ Missing \notin Numerals /\ Bad \notin Numerals /\ Missing # Bad
  /\ Requests \subseteq Request
  /\ AuthOn \in BOOLEAN

VARIABLES
  main,      \* "load", "run", "assigned", "serving", "sleep" or "gone"
  listener,  \* "off", "spawned", "notified", "waiting", "taken", "stop",
             \* "shutdown" or "over"
  stopped,   \* the engine's context is cancelled
  shut,      \* Shutdown has been called
  at,        \* at[r]: where request r is: see Active and Ended
  req,       \* req[r]: what it is
  got,       \* got[r]: pieces of its body that have been read
  args       \* args[r]: what the controller was called with

processVars == <<main, listener, stopped, shut>>
requestVars == <<at, req, got, args>>
vars == <<main, listener, stopped, shut, at, req, got, args>>

Active == {"reading", "dispatch", "running"}
Ended  == {"options", "file", "form", "unauthorized", "unknown", "done",
           "panicked", "cut"}

NoRequest == [method |-> "OPTIONS", path |-> "other", token |-> "none",
              type |-> "other", length |-> 0, json |-> "invalid",
              url |-> Nothing, body |-> Nothing]

Init ==
  /\ main = "load" /\ listener = "off"
  /\ stopped = FALSE /\ shut = FALSE
  /\ at = [r \in Reqs |-> "new"]
  /\ req = [r \in Reqs |-> NoRequest]
  /\ got = [r \in Reqs |-> 0]
  /\ args = [r \in Reqs |-> Uncalled]

-----------------------------------------------------------------------------
(* run: the configuration and everything NewApi builds, or an exit.        *)
Load ==
  /\ main = "load"
  /\ \/ main' = "run" /\ listener' = "spawned"
     \/ main' = "gone" /\ UNCHANGED listener
  /\ UNCHANGED <<stopped, shut, requestVars>>

\* api.Run: the routes are entered, then Start assigns Serv.
Start ==
  /\ main = "run"
  /\ main' = "assigned"
  /\ UNCHANGED <<listener, stopped, shut, requestVars>>

(* ListenAndServe: it returns when it cannot bind, and at once or later    *)
(* when Shutdown is called.                                                *)
Listen ==
  /\ main = "assigned"
  /\ main' \in (IF shut THEN {"sleep"} ELSE {"serving", "sleep"})
  /\ UNCHANGED <<listener, stopped, shut, requestVars>>

Served ==
  /\ main = "serving" /\ shut
  /\ main' = "sleep"
  /\ UNCHANGED <<listener, stopped, shut, requestVars>>

\* Requests in these places are cut off.
Close(places) == at' = [r \in Reqs |-> IF at[r] \in places THEN "cut" ELSE at[r]]

\* What main waits for after the server: five seconds, not the requests.
BugWaitsForRequests == \A r \in Reqs : at[r] \notin Active
TimeIsUp == TRUE

\* The process is gone and cuts what is under way.
Gone ==
  /\ main' = "gone"
  /\ Close({"connected"} \cup Active)
  /\ UNCHANGED <<listener, stopped, shut, req, got, args>>

Exit == main = "sleep" /\ TimeIsUp /\ Gone

-----------------------------------------------------------------------------
(* listenInterrupt: Notify, then a goroutine that receives once from an    *)
(* unbuffered channel.                                                     *)
Notify ==
  /\ listener \in {"spawned", "notified"}
  /\ listener' = IF listener = "spawned" THEN "notified" ELSE "waiting"
  /\ UNCHANGED <<main, stopped, shut, requestVars>>

\* A goroutine waits to receive from the channel; it does so once.
BugReceivesAgain == listener \in {"waiting", "over"}
Receives == listener = "waiting"

(* An interrupt: before Notify it ends the process.  After it, it reaches  *)
(* the goroutine that waits and is dropped when there is none.             *)
Interrupt ==
  \/ main # "gone" /\ listener \in {"off", "spawned"} /\ Gone
  \/ /\ main # "gone" /\ Receives
     /\ listener' = "taken"
     /\ UNCHANGED <<main, stopped, shut, requestVars>>

\* api.Stop: first the engine's context ...
StopEngine ==
  /\ listener = "taken"
  /\ stopped' = TRUE
  /\ listener' = "stop"
  /\ UNCHANGED <<main, shut, requestVars>>

(* ... then the server, if Serv is there.  It is read without a lock: at   *)
(* first the assignment may not be seen yet.                               *)
StopRest ==
  /\ listener = "stop"
  /\ \/ /\ main \in {"run", "assigned"}
        /\ listener' = "over"
        /\ UNCHANGED shut
     \/ /\ main \notin {"run", "load"}
        /\ listener' = "shutdown"
        /\ shut' = TRUE
  /\ UNCHANGED <<main, stopped, requestVars>>

(* Shutdown comes back when no request is under way; connections that have *)
(* sent none are closed.                                                   *)
ShutdownReturns ==
  /\ listener = "shutdown"
  /\ \A r \in Reqs : at[r] \notin Active
  /\ listener' = "over"
  /\ Close({"connected"})
  /\ UNCHANGED <<main, stopped, shut, req, got, args>>

-----------------------------------------------------------------------------
Go(r, place) == at' = [at EXCEPT ![r] = place]

\* There is a route for the request's method and path.
Routed(q) ==
  \/ q.method = "POST" /\ q.path \in PostPaths
  \/ q.method = "GET" /\ q.path \in GetPaths

\* ListenAndServe takes connections until Shutdown closes its socket.
Connect(r) ==
  /\ main = "serving" /\ ~shut
  /\ at[r] = "new"
  /\ Go(r, "connected")
  /\ UNCHANGED <<processVars, req, got, args>>

(* Handle: OPTIONS is answered at once, a path that is no route by a file  *)
(* or with 404; the body is read if there is one.                          *)
Arrive(r) ==
  /\ at[r] = "connected"
  /\ \E q \in Requests :
       /\ req' = [req EXCEPT ![r] = q]
       /\ Go(r, IF q.method = "OPTIONS" THEN "options"
                ELSE IF ~Routed(q) THEN "file"
                ELSE IF q.method = "POST" /\ q.length > 0 THEN "reading"
                ELSE "dispatch")
  /\ UNCHANGED <<processVars, got, args>>

\* initForm's loop: a piece of the body, or an error, which ends the loop.
Read(r) ==
  /\ at[r] = "reading"
  /\ \/ /\ got' = [got EXCEPT ![r] = @ + 1]
        /\ Go(r, IF got[r] + 1 >= req[r].length THEN "dispatch" ELSE "reading")
     \/ /\ Go(r, "dispatch")
        /\ UNCHANGED got
  /\ UNCHANGED <<processVars, req, args>>

(* The body is not JSON though it should be: a part of an object never is, *)
(* white space after it aside, which is none of the pieces.                *)
BugNeverFails(q, n) == FALSE
FormFails(q, n) ==
  /\ q.method = "POST" /\ q.length > 0 /\ q.type = "json"
  /\ n < q.length \/ q.json = "invalid"

(* The form: nil without a Content-Length; with the type "form" the body   *)
(* has been read before ParseForm, which finds the parameters of the URL;  *)
(* any other type, or one with a charset, leaves it empty.                 *)
Form(q) ==
  CASE q.length < 1      -> Nothing
    [] q.type = "json"   -> IF q.json = "object" THEN q.body ELSE Nothing
    [] q.type = "form"   -> q.url
    [] q.type = "other"  -> Nothing

\* What a handler looks at.
Given(q) == IF q.method = "GET" THEN q.url ELSE Form(q)

Authorised(q) == AuthOn => q.token = "good"

Presses == {"sendPress", "pressEVM"}
Transfers == {"transferAll", "transfer"}

\* strconv.Atoi and strconv.ParseUint have no error; the latter knows no sign.
IsInt(t)  == t \in Numerals /\ Value(t) \in MinInt .. MaxInt
IsUint(t) == t \in Numerals /\ t.sign = "" /\ t.digits <= MaxUint

\* The parameters that must parse: of a press only the rate.
BugSignedAmount(q) ==
  /\ q.path \in Presses => IsInt(Given(q).tps)
  /\ q.path \in {"split"} \cup Transfers => IsInt(Given(q).number)
Parses(q) ==
  /\ q.path \in Presses => IsInt(Given(q).tps)
  /\ q.path = "split" => IsInt(Given(q).number)
  /\ q.path \in Transfers => IsUint(Given(q).number)

(* Atoi's value, which a press uses whatever the error: 0 for no number,   *)
(* and for one out of range the end of the range.                          *)
AtoiValue(t) ==
  IF t \notin Numerals THEN 0
  ELSE IF Value(t) > MaxInt THEN MaxInt
  ELSE IF Value(t) < MinInt THEN MinInt
  ELSE Value(t)

\* Operations without a number; ShareMoney parses its amount itself.
NoNumber == {"mergeUTXO", "unspentCount", "shareMoney"}

\* What the controller is called with.
Number(q) ==
  LET t == Given(q).number
  IN  CASE q.path \in Presses                 -> AtoiValue(t)
        [] q.path = "addAddress"              -> IF IsInt(t) THEN Value(t) ELSE 1
        [] q.path \in {"split"} \cup Transfers -> Value(t)
        [] OTHER                              -> Missing

Hundred == [sign |-> "", digits |-> 100]
Amount(q) ==
  LET t == Given(q).number
  IN  IF q.path # "shareMoney" THEN Missing
      ELSE IF t = Missing THEN Hundred ELSE t

Args(q) ==
  [number |-> Number(q),
   tps    |-> IF q.path \in Presses THEN Value(Given(q).tps) ELSE Missing,
   amount |-> Amount(q)]

(* The rest of Handle up to the call of the controller.                    *)
Dispatch(r) ==
  LET q == req[r]
  IN  /\ at[r] = "dispatch"
      /\ IF FormFails(q, got[r]) THEN Go(r, "form") /\ UNCHANGED args
         ELSE IF ~Authorised(q) THEN Go(r, "unauthorized") /\ UNCHANGED args
         ELSE IF ~Parses(q) THEN Go(r, "unknown") /\ UNCHANGED args
         ELSE Go(r, "running") /\ args' = [args EXCEPT ![r] = Args(q)]
      /\ UNCHANGED <<processVars, req, got>>

\* The controller comes back, or panics, which net/http recovers.
Finish(r) ==
  /\ at[r] = "running"
  /\ Go(r, "done") \/ Go(r, "panicked")
  /\ UNCHANGED <<processVars, req, got, args>>

Main == Load \/ Start \/ Listen \/ Served \/ Exit
Listener == Notify \/ StopEngine \/ StopRest \/ ShutdownReturns

Next ==
  \/ Main
  \/ main # "gone" /\ Listener
  \/ Interrupt
  \/ main # "gone" /\ \E r \in Reqs : Connect(r) \/ Arrive(r) \/ Read(r) \/ Dispatch(r) \/ Finish(r)

Spec == Init /\ [][Next]_vars

(* main and the listener are scheduled and the sleep comes to an end.      *)
(* Requests need not: neither clients nor operations owe an answer.        *)
Fairness == WF_vars(Main) /\ WF_vars(main # "gone" /\ Listener)
FairSpec == Spec /\ Fairness

-----------------------------------------------------------------------------
\* The numbers in range that the request names, and what may replace them.
Fits(q, t) == IF q.path \in Transfers THEN IsUint(t) ELSE IsInt(t)
Named(q) == {Value(t) : t \in {u \in {q.url.number, q.body.number} : Fits(q, u)}}
Default(q) ==
  CASE q.path \in Presses     -> {0, MaxInt, MinInt}
    [] q.path = "addAddress" -> {1}
    [] OTHER                 -> {}

\* The controller has been called for r.
Called(r) == at[r] \in {"running", "done", "panicked"}

TypeOK ==
  /\ main \in {"load", "run", "assigned", "serving", "sleep", "gone"}
  /\ listener \in {"off", "spawned", "notified", "waiting", "taken", "stop",
                   "shutdown", "over"}
  /\ stopped \in BOOLEAN /\ shut \in BOOLEAN
  /\ at \in [Reqs -> {"new", "connected"} \cup Active \cup Ended]
  /\ req \in [Reqs -> Request]
  /\ got \in [Reqs -> Nat] /\ \A r \in Reqs : got[r] <= req[r].length
  /\ args \in [Reqs -> [number : {Missing} \cup Int, tps : {Missing} \cup Int,
                        amount : Texts]]
  /\ \A r \in Reqs : Called(r) =>
       /\ req[r].path \in {"split", "addAddress"} \cup Presses =>
            args[r].number \in MinInt .. MaxInt
       /\ req[r].path \in Transfers => args[r].number \in 0 .. MaxUint
       /\ req[r].path \in Presses => args[r].tps \in MinInt .. MaxInt
  /\ main \in {"load", "run", "assigned", "gone"} =>
       \A r \in Reqs : at[r] \notin Active

(* An operation is only ever carried out for an authorised request, whose  *)
(* body, if it is JSON, was received whole, and with numbers that stand in *)
(* the request and are in the range of the operation's type: a payment or  *)
(* a split never runs on a default, no amount is negative, and what a JSON *)
(* body asks for is what is done.  Only a press replaces a count that does *)
(* not parse, by 0 or an end of the range of int, and addAddress by 1; of  *)
(* a missing amount shareMoney makes 100 and passes any other text on      *)
(* (core.go:36-47, router.go:144-200, api.go:47-154).                      *)
RunsAsAsked ==
  \A r \in Reqs : Called(r) =>
    LET q == req[r]
        n == args[r].number
        json == q.method = "POST" /\ q.type = "json" /\ q.length > 0
    IN  /\ AuthOn => q.token = "good"
        /\ json => got[r] = q.length /\ q.json # "invalid"
        /\ q.path \notin NoNumber =>
             /\ n \in Named(q) \cup Default(q)
             /\ json /\ q.json = "object" /\ Fits(q, q.body.number) =>
                  n = Value(q.body.number)
        /\ q.path \in Presses =>
             \E t \in {q.url.tps, q.body.tps} : IsInt(t) /\ args[r].tps = Value(t)
        /\ q.path = "shareMoney" =>
             args[r].amount \in {q.url.number, Hundred} \ {Missing}

\* The interrupt was taken before there was a server to stop.
Deaf == listener = "over" /\ main = "serving" /\ ~shut

(* An interrupt that is taken ends the process, whatever its requests do,  *)
(* unless it came before there was a server (main.go:47-53, 63-67,         *)
(* router.go:89, 95-97).                                                   *)
InterruptEnds == listener = "taken" ~> main = "gone" \/ Deaf

(* Otherwise the server goes on for good: whatever requests, interrupts    *)
(* and main do, it is not shut down, and no later interrupt is received.   *)
(* The context of its engine stays cancelled, too; only Engine.send looks  *)
(* at that, so it goes on with all operations but that one                 *)
(* (main.go:63-67, api.go:160, router.go:96, presstest.go:146).            *)
DeafIsForever == [][Deaf => Deaf' /\ stopped']_vars
=============================================================================
