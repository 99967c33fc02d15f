------------------------------ MODULE MCServer ------------------------------
(***************************************************************************)
(* Server for TLC: the requests, with other numbers in the URL than in the *)
(* body.                                                                   *)
(***************************************************************************)
EXTENDS Server

Plain(n)  == [sign |-> "", digits |-> n]
Plus(n)   == [sign |-> "+", digits |-> n]
Minus(n)  == [sign |-> "-", digits |-> n]

(* At, below and above the ends of the ranges, with any sign, and no       *)
(* number: in either field, next to one that parses.                       *)
TextsOf(n) ==
  {Plain(MaxInt - n), Plain(Half + n), Plain(MaxUint - n), Plain(MaxUint + 1 + n),
   Plus(n), Minus(n), Minus(Half), Minus(Half + 1 + n), Bad, Missing}
Of(n) == {Nothing} \cup [number : TextsOf(n), tps : {Plain(n)}]
           \cup [number : {Plain(n)}, tps : {Minus(n), Plain(Half), Bad, Missing}]

\* Every path with every method, its parameters where they are looked for.
MCRequests ==
  {q \in [method : {"GET", "POST", "OPTIONS"},
          path : PostPaths \cup GetPaths \cup {"other"},
          token : {"none", "bad", "good"}, type : {"json", "form", "other"},
          length : {0, 2}, json : {"object", "null", "invalid"},
          url : Of(5), body : Of(7)] :
     /\ q.method = "GET" => q.length = 0 /\ q.type = "other"
     /\ q.method = "OPTIONS" \/ q.path = "other" => q.token = "none" /\ q.url = Nothing
     /\ q.length = 0 \/ q.type = "other" => q.json = "object" /\ q.body = Nothing
     /\ q.length = 0 => q.type = "other"}

\* A few for the runs about the process.
MCFewRequests ==
  {[method |-> "GET", path |-> "pressEVM", token |-> "none", type |-> "other",
    length |-> 0, json |-> "object",
    url |-> [number |-> Plain(5), tps |-> Plain(5)], body |-> Nothing],
   [method |-> "POST", path |-> "transfer", token |-> "none", type |-> "json",
    length |-> 2, json |-> "object", url |-> Nothing,
    body |-> [number |-> Plain(7), tps |-> Plain(7)]]}
=============================================================================
