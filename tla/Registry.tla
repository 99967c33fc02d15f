------------------------------ MODULE Registry ------------------------------
(***************************************************************************)
(* What the key store promises to those who are told an address: its key   *)
(* is stored for good, and every process that starts finds it.             *)
(***************************************************************************)
CONSTANT Addresses

VARIABLES
  stored,     \* addresses whose key is stored
  served,     \* those the running process serves, none while it is down
  reported    \* addresses that somebody was told of

registryVars == <<stored, served, reported>>

Init ==
  /\ stored \subseteq Addresses
  /\ served = stored
  /\ reported = {}

Store(a) ==
  /\ stored' = stored \cup {a}
  /\ UNCHANGED <<served, reported>>

\* Only what is stored is served, ...
Serve(a) ==
  /\ a \in stored
  /\ served' = served \cup {a}
  /\ UNCHANGED <<stored, reported>>

\* ... and only what is served is told of.
Report(told) ==
  /\ told \subseteq served
  /\ reported' = reported \cup told
  /\ UNCHANGED <<stored, served>>

\* The process stops, and the next one serves all that is stored.
Stop ==
  /\ served' = {}
  /\ UNCHANGED <<stored, reported>>
Restart ==
  /\ served = {}
  /\ served' = stored
  /\ UNCHANGED <<stored, reported>>

Next ==
  \/ \E a \in Addresses : Store(a) \/ Serve(a)
  \/ \E told \in SUBSET Addresses : Report(told)
  \/ Stop
  \/ Restart

Spec == Init /\ [][Next]_registryVars
=============================================================================
