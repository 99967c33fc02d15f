------------------------------ MODULE Keystore ------------------------------
(***************************************************************************)
(* keystore.Keystore, a directory of key files and a map that serves them, *)
(* with Controller.AddAddress, which fills both, and the calls that read   *)
(* the map.  The process may end at any point, through a crash or through  *)
(* main, which exits five seconds after the server stopped whatever        *)
(* requests are still running; the next one loads the directory.           *)
(*                                                                         *)
(* NewEngine has the load of the directory commented out.  The module is   *)
(* about an engine that has its key store, as Payments is.                 *)
(***************************************************************************)
EXTENDS Integers, FiniteSets

CONSTANTS
  Calls,
  NoCall,      \* nobody holds the write lock
  Addresses,   \* addresses that key files are or will be for
  Counts       \* values of "count" after the handler's default

ASSUME KeystoreConfig ==
  /\ NoCall \notin Calls
  /\ Counts \subseteq Int

VARIABLES
  disk,      \* disk[a]: the file <a>.key: "none", "cut" (empty or only the
             \* beginning of the key) or "key"
  keys,      \* keys[a]: the entry of the map, likewise
  running,   \* there is a process
  writer,    \* holder of the write lock of the RWMutex
  at,        \* at[r]: where call r is
  left,      \* left[r]: turns of AddAddress's loop to go
  address,   \* address[r]: the one at hand; of a reader: those it listed
  addresses, \* addresses[r]: the answer so far
  reported,  \* history: addresses that an answer named
  used       \* history: addresses that were generated

memory == <<keys, writer, at, left, address, addresses>>
vars == <<disk, running, reported, used, memory>>

NoAddress == {}
Resting == {"new", "answered", "lost"}

Init ==
  /\ disk \in [Addresses -> {"none", "key"}]
  /\ keys = disk
  /\ running = TRUE
  /\ writer = NoCall
  /\ at = [r \in Calls |-> "new"]
  /\ left = [r \in Calls |-> 0]
  /\ address = [r \in Calls |-> NoAddress]
  /\ addresses = [r \in Calls |-> {}]
  /\ reported = {}
  /\ used = {a \in Addresses : disk[a] # "none"}

-----------------------------------------------------------------------------
(* AddAddress.                                                             *)
AddAddress(r) ==
  /\ at[r] = "new"
  /\ \E n \in Counts : left' = [left EXCEPT ![r] = n]
  /\ at' = [at EXCEPT ![r] = "loop"]
  /\ UNCHANGED <<disk, running, reported, used, keys, writer, address, addresses>>

(* The answer, after an error as well, names the addresses added so far.   *)
BugNamesUnsaved(r) == addresses[r] \cup address[r]
Data(r) == addresses[r]

Answer(r) ==
  /\ at[r] \in {"failed", "loop"}
  /\ at[r] = "loop" => left[r] <= 0
  /\ reported' = reported \cup Data(r)
  /\ at' = [at EXCEPT ![r] = "answered"]
  /\ UNCHANGED <<disk, running, used, keys, writer, left, address, addresses>>

(* A fresh key pair and its address, or an error of any of the four calls  *)
(* that make them.                                                         *)
Generate(r) ==
  /\ at[r] = "loop"
  /\ left[r] > 0
  /\ \/ \E a \in Addresses \ used :
          /\ address' = [address EXCEPT ![r] = {a}]
          /\ used' = used \cup {a}
          /\ at' = [at EXCEPT ![r] = "lock"]
     \/ /\ at' = [at EXCEPT ![r] = "failed"]
        /\ UNCHANGED <<address, used>>
  /\ UNCHANGED <<disk, running, reported, keys, writer, left, addresses>>

-----------------------------------------------------------------------------
(* AddKey, one step for each thing a crash can fall between.               *)
Lock(r) ==
  /\ at[r] = "lock"
  /\ writer = NoCall
  /\ writer' = r
  /\ at' = [at EXCEPT ![r] = "open"]
  /\ UNCHANGED <<disk, running, reported, used, keys, left, address, addresses>>

\* The file of call r's address holds c from now on.
File(r, c) == disk' = [a \in Addresses |-> IF a \in address[r] THEN c ELSE disk[a]]

\* Where AddKey goes when a part of WriteFile failed.
BugCarriesOn == "map"
AfterError == "giveup"

\* ioutil.WriteFile: the file is created, or emptied; ...
Open(r) ==
  /\ at[r] = "open"
  /\ \/ File(r, "cut") /\ at' = [at EXCEPT ![r] = "write"]
     \/ at' = [at EXCEPT ![r] = AfterError] /\ UNCHANGED disk
  /\ UNCHANGED <<running, reported, used, keys, writer, left, address, addresses>>

\* ... written, perhaps in part; and closed, which may fail as well.
Write(r) ==
  /\ at[r] = "write"
  /\ \/ File(r, "key") /\ at' = [at EXCEPT ![r] = "map"]
     \/ \E c \in {"cut", "key"} :
          File(r, c) /\ at' = [at EXCEPT ![r] = AfterError]
  /\ UNCHANGED <<running, reported, used, keys, writer, left, address, addresses>>

\* What the deferred Unlock leaves of the lock held by call r.
BugKeepsLock(r) == r
Unlocked(r) == NoCall

\* What the map serves for the new address.
Entry(r) == [a \in Addresses |-> IF a \in address[r] THEN "key" ELSE keys[a]]

(* The entry, the deferred Unlock and the next turn of the loop.           *)
Record(r) ==
  /\ at[r] = "map"
  /\ keys' = Entry(r)
  /\ writer' = Unlocked(r)
  /\ addresses' = [addresses EXCEPT ![r] = @ \cup address[r]]
  /\ address' = [address EXCEPT ![r] = NoAddress]
  /\ left' = [left EXCEPT ![r] = @ - 1]
  /\ at' = [at EXCEPT ![r] = "loop"]
  /\ UNCHANGED <<disk, running, reported, used>>

GiveUp(r) ==
  /\ at[r] = "giveup"
  /\ writer' = Unlocked(r)
  /\ at' = [at EXCEPT ![r] = "failed"]
  /\ UNCHANGED <<disk, running, reported, used, keys, left, address, addresses>>

-----------------------------------------------------------------------------
(* The engine's other calls: AddressList, then Key for what it listed,     *)
(* each under the read lock but not under one together.                    *)
AddressList(r) ==
  /\ at[r] = "new"
  /\ writer = NoCall
  /\ address' = [address EXCEPT ![r] = {a \in Addresses : keys[a] # "none"}]
  /\ at' = [at EXCEPT ![r] = "key"]
  /\ UNCHANGED <<disk, running, reported, used, keys, writer, left, addresses>>

Key(r) ==
  /\ at[r] = "key"
  /\ writer = NoCall
  /\ at' = [at EXCEPT ![r] = "answered"]
  /\ UNCHANGED <<disk, running, reported, used, keys, writer, left, address, addresses>>

-----------------------------------------------------------------------------
(* The process is gone, and with it all but the files and what was said.   *)
Crash ==
  /\ running
  /\ running' = FALSE
  /\ keys' = [a \in Addresses |-> "none"]
  /\ writer' = NoCall
  /\ at' = [r \in Calls |-> IF at[r] \in Resting THEN at[r] ELSE "lost"]
  /\ left' = [r \in Calls |-> 0]
  /\ address' = [r \in Calls |-> NoAddress]
  /\ addresses' = [r \in Calls |-> {}]
  /\ UNCHANGED <<disk, reported, used>>

(* LoadKey takes every file for a whole key.  One that cannot be read ends *)
(* the start, and the process with it.                                     *)
LoadKey ==
  /\ ~running
  /\ running' = TRUE
  /\ keys' = disk
  /\ UNCHANGED <<disk, reported, used, writer, at, left, address, addresses>>

Adding(r) ==
  \/ AddAddress(r) \/ Generate(r) \/ Answer(r)
  \/ Lock(r) \/ Open(r) \/ Write(r) \/ Record(r) \/ GiveUp(r)

Next ==
  \/ running /\ \E r \in Calls : Adding(r) \/ AddressList(r) \/ Key(r)
  \/ Crash
  \/ LoadKey

Spec == Init /\ [][Next]_vars

\* Goroutines are scheduled and the file system answers.
Fairness == \A r \in Calls : WF_vars(running /\ (Adding(r) \/ Key(r)))
FairSpec == Spec /\ Fairness

-----------------------------------------------------------------------------
TypeOK ==
  /\ disk \in [Addresses -> {"none", "cut", "key"}]
  /\ keys \in [Addresses -> {"none", "cut", "key"}]
  /\ running \in BOOLEAN
  /\ writer \in Calls \cup {NoCall}
  /\ at \in [Calls -> Resting \cup {"loop", "lock", "open", "write", "map",
                                    "giveup", "failed", "key"}]
  /\ left \in [Calls -> Int]
  /\ address \in [Calls -> SUBSET Addresses]
  /\ addresses \in [Calls -> SUBSET Addresses]
  /\ reported \subseteq Addresses
  /\ used \subseteq Addresses
  /\ \A r \in Calls : writer = r <=> at[r] \in {"open", "write", "map", "giveup"}

(* The map never serves a key that the directory does not hold, so nothing *)
(* is used that a restart would not find, and a call that listed an        *)
(* address finds its entry when it asks for the key, whatever fails or     *)
(* runs in between (keystore.go:38-54, 66-76).                             *)
ServedIsOnDisk ==
  /\ \A a \in Addresses : keys[a] # "none" => keys[a] = disk[a]
  /\ \A r \in Calls : at[r] = "key" => \A a \in address[r] : keys[a] # "none"

R == INSTANCE Registry WITH
       stored <- {a \in Addresses : disk[a] = "key"},
       served <- {a \in Addresses : keys[a] = "key"}

(* The key store keeps its promise: an address is named in an answer only  *)
(* when its whole key is on the disk and served, it stays there, and every *)
(* later process serves it, through errors and crashes at any point of the *)
(* write; a file cut short is never one of an address anybody was told of  *)
(* (keystore.go:15-36, 66-76, controller.go:84-135).                       *)
ImplementsRegistry == R!Spec

(* Every AddAddress is answered, or its process ends: an error in the      *)
(* middle of AddKey leaves nobody waiting for the lock (keystore.go:67-73, *)
(* controller.go:119-126).                                                 *)
EveryAddEnds ==
  \A r \in Calls : at[r] = "loop" ~> at[r] \in {"answered", "lost"}
=============================================================================
