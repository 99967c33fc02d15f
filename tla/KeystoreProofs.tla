--------------------------- MODULE KeystoreProofs ---------------------------
(***************************************************************************)
(* The key store keeps its promise for any number of calls and addresses,  *)
(* whatever fails and whenever the process ends, and its calls get on.     *)
(***************************************************************************)
EXTENDS Keystore, Sets

\* Where AddAddress has an address at hand that is not in the map yet.
Adds == {"lock", "open", "write", "map", "giveup"}

\* How far the file of the address at hand has got.
Progress(r, a) ==
  /\ at[r] \in {"lock", "open"} => disk[a] = "none"
  /\ at[r] = "write" => disk[a] = "cut"
  /\ at[r] = "map" => disk[a] = "key"

\* An address at hand is one call's, was generated, and is in no map.
AtHand ==
  /\ \A r \in Calls : at[r] \in Adds =>
       \E a \in Addresses :
         address[r] = {a} /\ a \in used /\ keys[a] = "none" /\ Progress(r, a)
  /\ \A r, s \in Calls : r # s /\ at[r] \in Adds /\ at[s] \in Adds =>
       address[r] \cap address[s] = {}

\* No file exists for an address that nobody generated.
Fresh == \A a \in Addresses \ used : disk[a] = "none"

\* What a call is about to answer with is served.
ToldIsServed == \A r \in Calls : \A a \in addresses[r] : keys[a] = "key"

\* A process that is gone has nothing in memory.
Forgotten ==
  ~running =>
    /\ \A a \in Addresses : keys[a] = "none"
    /\ \A r \in Calls : at[r] \in Resting /\ addresses[r] = {}

IInv == TypeOK /\ ServedIsOnDisk /\ AtHand /\ Fresh /\ ToldIsServed /\ Forgotten

-----------------------------------------------------------------------------
\* The invariant holds when the first process has loaded the directory.
LEMMA InitIInv == Init => IInv
  BY KeystoreConfig DEF Init, IInv, TypeOK, ServedIsOnDisk, AtHand, Progress,
     Fresh, ToldIsServed, Forgotten, Adds, Resting, NoAddress

\* A new request to add addresses keeps it.
LEMMA AddAddressStep ==
  ASSUME IInv, running, NEW r \in Calls, AddAddress(r) PROVE IInv'
  BY KeystoreConfig DEF AddAddress, IInv, TypeOK, ServedIsOnDisk, AtHand,
     Progress, Fresh, ToldIsServed, Forgotten, Adds, Resting

\* An answer keeps it.
LEMMA AnswerStep ==
  ASSUME IInv, running, NEW r \in Calls, Answer(r) PROVE IInv'
  BY KeystoreConfig DEF Answer, Data, IInv, TypeOK, ServedIsOnDisk, AtHand,
     Progress, Fresh, ToldIsServed, Forgotten, Adds, Resting

\* A fresh address keeps it: there is no file and no entry for it yet.
LEMMA GenerateStep ==
  ASSUME IInv, running, NEW r \in Calls, Generate(r) PROVE IInv'
  BY KeystoreConfig DEF Generate, IInv, TypeOK, ServedIsOnDisk, AtHand,
     Progress, Fresh, ToldIsServed, Forgotten, Adds, Resting

\* Taking the lock keeps it.
LEMMA LockStep ==
  ASSUME IInv, running, NEW r \in Calls, Lock(r) PROVE IInv'
  BY KeystoreConfig DEF Lock, IInv, TypeOK, ServedIsOnDisk, AtHand,
     Progress, Fresh, ToldIsServed, Forgotten, Adds, Resting

\* Creating the file keeps it: nothing is served under its name.
LEMMA OpenStep ==
  ASSUME IInv, running, NEW r \in Calls, Open(r) PROVE IInv'
  BY KeystoreConfig DEF Open, File, AfterError, IInv, TypeOK, ServedIsOnDisk,
     AtHand, Progress, Fresh, ToldIsServed, Forgotten, Adds, Resting

\* Writing it keeps it, whether all is written or not.
LEMMA WriteStep ==
  ASSUME IInv, running, NEW r \in Calls, Write(r) PROVE IInv'
  BY KeystoreConfig DEF Write, File, AfterError, IInv, TypeOK, ServedIsOnDisk,
     AtHand, Progress, Fresh, ToldIsServed, Forgotten, Adds, Resting

\* The entry of the map keeps it: the file is whole by then.
LEMMA RecordStep ==
  ASSUME IInv, running, NEW r \in Calls, Record(r) PROVE IInv'
  BY KeystoreConfig DEF Record, Entry, Unlocked, NoAddress, IInv, TypeOK,
     ServedIsOnDisk, AtHand, Progress, Fresh, ToldIsServed, Forgotten, Adds, Resting

\* Leaving AddKey after an error keeps it.
LEMMA GiveUpStep ==
  ASSUME IInv, running, NEW r \in Calls, GiveUp(r) PROVE IInv'
  BY KeystoreConfig DEF GiveUp, Unlocked, IInv, TypeOK, ServedIsOnDisk, AtHand,
     Progress, Fresh, ToldIsServed, Forgotten, Adds, Resting

\* Listing the addresses keeps it.
LEMMA AddressListStep ==
  ASSUME IInv, running, NEW r \in Calls, AddressList(r) PROVE IInv'
  BY KeystoreConfig DEF AddressList, IInv, TypeOK, ServedIsOnDisk, AtHand,
     Progress, Fresh, ToldIsServed, Forgotten, Adds, Resting

\* Looking keys up keeps it.
LEMMA KeyStep ==
  ASSUME IInv, running, NEW r \in Calls, Key(r) PROVE IInv'
  BY KeystoreConfig DEF Key, IInv, TypeOK, ServedIsOnDisk, AtHand,
     Progress, Fresh, ToldIsServed, Forgotten, Adds, Resting

\* The end of the process keeps it, at whatever point it comes.
LEMMA CrashStep ==
  ASSUME IInv, Crash PROVE IInv'
<1>1. /\ \A r \in Calls : at'[r] \in Resting
      /\ \A a \in Addresses : keys'[a] = "none"
      /\ \A r \in Calls : address'[r] = {} /\ addresses'[r] = {}
  BY DEF Crash, NoAddress, Resting
<1>2. TypeOK'
  <2>1. at' \in [Calls -> Resting]
    BY DEF Crash, Resting
  <2>2. \A r \in Calls : NoCall # r
    BY KeystoreConfig
  <2>3. \A r \in Calls : writer' = r
          <=> at'[r] \in {"open", "write", "map", "giveup"}
    BY <1>1, <2>2 DEF Crash, Resting
  <2>4. /\ keys' \in [Addresses -> {"none", "cut", "key"}]
        /\ left' \in [Calls -> Int]
        /\ address' \in [Calls -> SUBSET Addresses]
        /\ addresses' \in [Calls -> SUBSET Addresses]
    BY DEF Crash, NoAddress
  <2>5. /\ disk' \in [Addresses -> {"none", "cut", "key"}]
        /\ running' \in BOOLEAN
        /\ writer' \in Calls \cup {NoCall}
        /\ reported' \subseteq Addresses
        /\ used' \subseteq Addresses
    BY DEF Crash, IInv, TypeOK
  <2>6. QED
    BY <2>1, <2>3, <2>4, <2>5 DEF TypeOK
<1>3. /\ ServedIsOnDisk'
      /\ AtHand'
      /\ ToldIsServed'
      /\ Forgotten'
  BY <1>1 DEF ServedIsOnDisk, AtHand, Adds, Resting, ToldIsServed, Forgotten
<1>4. Fresh'
  BY DEF Crash, IInv, Fresh
<1>5. QED
  BY <1>2, <1>3, <1>4 DEF IInv

\* The next start keeps it: the map is what the directory holds.
LEMMA LoadKeyStep ==
  ASSUME IInv, LoadKey PROVE IInv'
  BY KeystoreConfig DEF LoadKey, IInv, TypeOK, ServedIsOnDisk, AtHand,
     Progress, Fresh, ToldIsServed, Forgotten, Adds, Resting

\* Every step keeps the invariant.
LEMMA NextStep == IInv /\ [Next]_vars => IInv'
<1> SUFFICES ASSUME IInv, [Next]_vars PROVE IInv'
  OBVIOUS
<1>1. ASSUME NEW r \in Calls, running, Adding(r) \/ AddressList(r) \/ Key(r)
      PROVE  IInv'
  BY <1>1, AddAddressStep, AnswerStep, GenerateStep, LockStep, OpenStep, WriteStep,
     RecordStep, GiveUpStep, AddressListStep, KeyStep DEF Adding
<1>2. CASE Crash
  BY <1>2, CrashStep
<1>3. CASE LoadKey
  BY <1>3, LoadKeyStep
<1>4. CASE UNCHANGED vars
  BY <1>4 DEF vars, memory, IInv, TypeOK, ServedIsOnDisk, AtHand, Progress,
     Fresh, ToldIsServed, Forgotten
<1>5. QED
  BY <1>1, <1>2, <1>3, <1>4 DEF Next

\* The invariant holds throughout, through any number of restarts
\* (keystore.go:15-76, controller.go:84-135).
THEOREM AlwaysConsistent == Spec => []IInv
  BY InitIInv, NextStep, PTL DEF Spec

\* Every variable has its type, and the lock is held exactly by the call that
\* is inside AddKey (keystore.go:66-76).
THEOREM TypeCorrect == Spec => []TypeOK
  BY AlwaysConsistent, PTL DEF IInv

\* The map never serves a key that the directory does not hold, and what was
\* listed is found (keystore.go:38-54, 66-76).
THEOREM MapFollowsDisk == Spec => []ServedIsOnDisk
  BY AlwaysConsistent, PTL DEF IInv

-----------------------------------------------------------------------------
(* The refinement.                                                         *)
Same == UNCHANGED <<disk, keys, reported>>

\* What the promise speaks of stays the same.
LEMMA Stutters ==
  ASSUME Same PROVE UNCHANGED R!registryVars
  BY DEF Same, R!registryVars

\* At first everything stored is served, and nobody was told of anything.
LEMMA RegistryInit == Init => R!Init
  BY DEF Init, R!Init

\* A call names only what is served.
LEMMA AnswerIsReport ==
  ASSUME IInv, NEW r \in Calls, Answer(r) PROVE R!Next
<1>1. Data(r) \subseteq {a \in Addresses : keys[a] = "key"}
  BY DEF Data, IInv, TypeOK, ToldIsServed
<1>2. R!Report(Data(r))
  BY <1>1 DEF Answer, R!Report
<1>3. Data(r) \in SUBSET Addresses
  BY DEF Data, IInv, TypeOK
<1>4. QED
  BY <1>2, <1>3 DEF R!Next

\* Creating the file stores nothing, as there was none of this name.
LEMMA OpenIsStutter ==
  ASSUME IInv, NEW r \in Calls, Open(r) PROVE UNCHANGED R!registryVars
<1>1. PICK a \in Addresses : address[r] = {a} /\ disk[a] = "none"
  BY DEF Open, IInv, AtHand, Adds, Progress
<1>2. {b \in Addresses : disk'[b] = "key"} = {b \in Addresses : disk[b] = "key"}
  BY <1>1 DEF Open, File, IInv, TypeOK
<1>3. QED
  BY <1>2 DEF Open, R!registryVars

\* Writing stores the key, or nothing.
LEMMA WriteIsStore ==
  ASSUME IInv, NEW r \in Calls, Write(r) PROVE R!Next \/ UNCHANGED R!registryVars
<1>1. PICK a \in Addresses : address[r] = {a} /\ disk[a] = "cut"
  BY DEF Write, IInv, AtHand, Adds, Progress
<1>2. UNCHANGED <<keys, reported>>
  BY DEF Write
<1>3. CASE File(r, "key")
  <2>1. {b \in Addresses : disk'[b] = "key"}
          = {b \in Addresses : disk[b] = "key"} \cup {a}
    BY <1>1, <1>3 DEF File
  <2>2. R!Store(a)
    BY <1>2, <2>1 DEF R!Store
  <2>3. QED
    BY <2>2 DEF R!Next
<1>4. CASE File(r, "cut")
  <2>1. {b \in Addresses : disk'[b] = "key"} = {b \in Addresses : disk[b] = "key"}
    BY <1>1, <1>4 DEF File
  <2>2. QED
    BY <1>2, <2>1 DEF R!registryVars
<1>5. QED
  BY <1>3, <1>4 DEF Write

\* The entry of the map serves an address whose file is whole.
LEMMA RecordIsServe ==
  ASSUME IInv, NEW r \in Calls, Record(r) PROVE R!Next
<1>1. PICK a \in Addresses : address[r] = {a} /\ disk[a] = "key"
  BY DEF Record, IInv, AtHand, Adds, Progress
<1>2. {b \in Addresses : keys'[b] = "key"}
        = {b \in Addresses : keys[b] = "key"} \cup {a}
  BY <1>1 DEF Record, Entry
<1>3. R!Serve(a)
  BY <1>1, <1>2 DEF Record, R!Serve
<1>4. QED
  BY <1>3 DEF R!Next

\* The end of the process serves nothing, and the next start all that is stored.
LEMMA ProcessStep ==
  ASSUME IInv, Crash \/ LoadKey PROVE R!Next
<1>1. CASE Crash
  <2>1. {a \in Addresses : keys'[a] = "key"} = {}
    BY <1>1 DEF Crash
  <2>2. R!Stop
    BY <1>1, <2>1 DEF Crash, R!Stop
  <2>3. QED
    BY <2>2 DEF R!Next
<1>2. CASE LoadKey
  <2>1. {a \in Addresses : keys[a] = "key"} = {}
    BY <1>2 DEF LoadKey, IInv, Forgotten
  <2>2. R!Restart
    BY <1>2, <2>1 DEF LoadKey, R!Restart
  <2>3. QED
    BY <2>2 DEF R!Next
<1>3. QED
  BY <1>1, <1>2

\* Every step is one of the promise's, or changes nothing it speaks of.
LEMMA RegistryStep == IInv /\ [Next]_vars => [R!Next]_(R!registryVars)
<1> SUFFICES ASSUME IInv, [Next]_vars PROVE R!Next \/ UNCHANGED R!registryVars
  OBVIOUS
<1>1. ASSUME NEW r \in Calls, Adding(r) \/ AddressList(r) \/ Key(r)
      PROVE  R!Next \/ UNCHANGED R!registryVars
  <2>1. CASE AddAddress(r) \/ Generate(r) \/ Lock(r) \/ GiveUp(r)
               \/ AddressList(r) \/ Key(r)
    <3>1. Same
      BY <2>1 DEF AddAddress, Generate, Lock, GiveUp, AddressList, Key, Same
    <3>2. QED
      BY <3>1, Stutters
  <2>2. CASE Answer(r) \/ Open(r) \/ Write(r) \/ Record(r)
    BY <2>2, AnswerIsReport, OpenIsStutter, WriteIsStore, RecordIsServe
  <2>3. QED
    BY <1>1, <2>1, <2>2 DEF Adding
<1>2. CASE Crash \/ LoadKey
  BY <1>2, ProcessStep
<1>3. CASE UNCHANGED vars
  <2>1. Same
    BY <1>3 DEF vars, memory, Same
  <2>2. QED
    BY <2>1, Stutters
<1>4. QED
  BY <1>1, <1>2, <1>3 DEF Next

\* An address is named in an answer only when its key is stored and served; it
\* stays stored, and every later process serves it (keystore.go:15-36, 66-76,
\* controller.go:84-135).
THEOREM KeystoreIsARegistry == Spec => ImplementsRegistry
<1>1. Spec => R!Spec
  BY RegistryInit, RegistryStep, AlwaysConsistent, PTL DEF Spec, R!Spec
<1>2. QED
  BY <1>1 DEF ImplementsRegistry

-----------------------------------------------------------------------------
\* Places of a call, the later ones lower; of a turn of AddAddress's loop
\* those of AddKey come after its top.
Place(p) ==
  CASE p = "new"                -> 8
    [] p = "loop"               -> 7
    [] p = "lock"               -> 6
    [] p = "open"               -> 5
    [] p = "write"              -> 4
    [] p \in {"map", "giveup"}  -> 3
    [] p = "failed"             -> 2
    [] p = "key"                -> 1
    [] OTHER                    -> 0

\* What call r has left to do: turns, then places in this turn.
ToGo(r) == <<IF left[r] > 0 THEN left[r] ELSE 0, Place(at[r]), 0>>

\* Places are numbers.
LEMMA PlaceIsNat == \A p : Place(p) \in Nat
BY DEF Place

\* What is left to do is a measure.
LEMMA ToGoIsMeasure == TypeOK => \A r \in Calls : ToGo(r) \in Measures
BY PlaceIsNat DEF TypeOK, ToGo, Measures

\* A call is in AddKey only in a turn of its loop.
Turning == \A r \in Calls : at[r] \in Adds => left[r] > 0

\* Every step keeps that.
LEMMA TurningKept == TypeOK /\ Turning /\ [Next]_vars => Turning'
<1> SUFFICES ASSUME TypeOK, Turning, [Next]_vars, NEW r \in Calls
             PROVE  (at[r] \in Adds => left[r] > 0)'
  BY DEF Turning
<1> USE DEF TypeOK, Turning, Adds
<1>1. ASSUME NEW q \in Calls, Adding(q)
      PROVE  (at[r] \in Adds => left[r] > 0)'
  BY <1>1 DEF Adding, AddAddress, Answer, Generate, Lock, Open, Write, Record,
     GiveUp, AfterError
<1>2. ASSUME NEW q \in Calls, AddressList(q) \/ Key(q)
      PROVE  (at[r] \in Adds => left[r] > 0)'
  BY <1>2 DEF AddressList, Key
<1>3. CASE Crash \/ LoadKey \/ UNCHANGED vars
  BY <1>3 DEF Crash, LoadKey, Resting, vars, memory
<1> QED
  BY <1>1, <1>2, <1>3 DEF Next

\* A step of a call that was begun brings it closer to its end.
LEMMA OwnStepCloser ==
  ASSUME TypeOK, Turning, NEW r \in Calls, at[r] # "new", Adding(r) \/ Key(r)
  PROVE  Closer(ToGo(r)', ToGo(r))
<1>1. left \in [Calls -> Int] /\ at \in [Calls -> Resting \cup {"loop", "lock", "open",
        "write", "map", "giveup", "failed", "key"}]
  BY DEF TypeOK
<1>2. CASE Record(r)
  <2>1. /\ at[r] = "map" /\ at'[r] = "loop" /\ left'[r] = left[r] - 1
        /\ left[r] > 0
    BY <1>1, <1>2 DEF Record, Turning, Adds
  <2> QED
    BY <1>1, <2>1 DEF ToGo, Closer, Place
<1>3. CASE ~ Record(r)
  BY <1>1, <1>3 DEF Adding, AddAddress, Answer, Generate, Lock, Open, Write,
     GiveUp, Key, AfterError, ToGo, Closer, Place
<1> QED
  BY <1>2, <1>3

\* No step of others, nor the end of the process, takes a call back.
LEMMA OthersTakeNothingBack ==
  ASSUME TypeOK, Turning, [Next]_vars, NEW r \in Calls, at[r] # "new"
  PROVE  ToGo(r)' = ToGo(r) \/ Closer(ToGo(r)', ToGo(r))
<1>1. left \in [Calls -> Int] /\ at \in [Calls -> Resting \cup {"loop", "lock", "open",
        "write", "map", "giveup", "failed", "key"}]
  BY DEF TypeOK
<1>2. ASSUME NEW q \in Calls, Adding(q) \/ AddressList(q) \/ Key(q), q # r
      PROVE  at'[r] = at[r] /\ left'[r] = left[r]
  BY <1>1, <1>2 DEF Adding, AddAddress, Answer, Generate, Lock, Open, Write,
     Record, GiveUp, AddressList, Key
<1>3. CASE \E q \in Calls : Adding(q) \/ AddressList(q) \/ Key(q)
  <2>1. ~ AddressList(r)
    BY DEF AddressList
  <2> QED
    BY <1>2, <1>3, <2>1, OwnStepCloser DEF ToGo
<1>4. CASE Crash
  BY <1>1, <1>4 DEF Crash, Resting, ToGo, Closer, Place
<1>5. CASE LoadKey \/ UNCHANGED vars
  BY <1>5 DEF LoadKey, vars, memory, ToGo
<1> QED
  BY <1>3, <1>4, <1>5 DEF Next

(* Every step of a call that was begun brings it closer to its end, and    *)
(* neither another call nor a crash takes it back; by NoEndlessDescent it  *)
(* takes finitely many steps.  This is what EveryAddEnds rests on besides  *)
(* fairness (keystore.go:66-76, controller.go:84-135).                     *)
THEOREM CallsGetOn ==
  Spec =>
    /\ [](\A r \in Calls : ToGo(r) \in Measures)
    /\ [][\A r \in Calls : at[r] # "new" =>
           /\ Adding(r) \/ Key(r) => Closer(ToGo(r)', ToGo(r))
           /\ ToGo(r)' = ToGo(r) \/ Closer(ToGo(r)', ToGo(r))]_vars
<1> DEFINE Measured == \A r \in Calls : ToGo(r) \in Measures
<1> DEFINE GetsOn ==
      \A r \in Calls : at[r] # "new" =>
        /\ Adding(r) \/ Key(r) => Closer(ToGo(r)', ToGo(r))
        /\ ToGo(r)' = ToGo(r) \/ Closer(ToGo(r)', ToGo(r))
<1>1. Init => Turning
  BY DEF Init, Turning, Adds
<1>2. IInv /\ Turning /\ [Next]_vars => Turning'
  BY TurningKept DEF IInv
<1>3. IInv /\ Turning /\ [Next]_vars => GetsOn
  BY OwnStepCloser, OthersTakeNothingBack DEF IInv
<1>4. IInv => Measured
  BY ToGoIsMeasure DEF IInv
<1> QED
  BY <1>1, <1>2, <1>3, <1>4, AlwaysConsistent, PTL DEF Spec
=============================================================================
