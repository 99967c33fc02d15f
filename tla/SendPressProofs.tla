-------------------------- MODULE SendPressProofs --------------------------
(***************************************************************************)
(* For any number of calls, clients and outputs: a call spends no output   *)
(* twice, tries all but one output for each client, never reports more     *)
(* than the nodes took, and ends with the engine.                          *)
(***************************************************************************)
EXTENDS SendPress, SequenceTheorems, Sets

\* The outputs of client c are those after position First(r, c) up to Last(r, c).
First(r, c) == c * OneCount(r)
Last(r, c) ==
  IF c = NumRpcs - 1 THEN Len(utxos[r]) ELSE (c + 1) * OneCount(r)

\* The pair of outputs that follow i outputs of the call.
PairAfter(r, i) == {utxos[r][i + 1], utxos[r][i + 2]}

\* A call that has not dealt its outputs has nothing under way.
Untouched ==
  \A r \in Calls : pc[r] \notin {"wait", "returned"} =>
    /\ \A c \in Nodes : at[r][c] = "off" /\ pos[r][c] = 0 /\ success[r][c] = 0
    /\ flight[r] = {} /\ tried[r] = {}
    /\ all[r] = 0 /\ summed[r] = 0

\* What a call collects are different outputs: an address that it has yet
\* to query owns none of them.
Collected ==
  \A r \in Calls :
    /\ pc[r] = "new" => utxos[r] = <<>>
    /\ pc[r] = "collect" =>
         \A i \in 1 .. Len(utxos[r]) : Owner[utxos[r][i]] \notin todo[r]
    /\ \A i, j \in 1 .. Len(utxos[r]) : i # j => utxos[r][i] # utxos[r][j]

\* Where a client's goroutine is says how far it has got.
Walks(r, c) ==
  LET length == Last(r, c) - First(r, c)
  IN  /\ \E m \in Nat : pos[r][c] = 2 * m
      /\ pos[r][c] = 0 \/ pos[r][c] <= length
      /\ at[r][c] = "build" => pos[r][c] + 2 <= length
      /\ at[r][c] = "done" /\ ~stopped => pos[r][c] + 2 > length
      /\ pc[r] = "returned" => at[r][c] = "done"

\* A call has tried the pairs that its goroutines have passed, and no other.
Passed(r) ==
  /\ \A t \in tried[r] : \E m \in Nat :
       /\ 2 * m + 2 <= pos[r][t[1]]
       /\ t[2] = PairAfter(r, First(r, t[1]) + 2 * m)
  /\ \A c \in Nodes, m \in Nat : 2 * m + 2 <= pos[r][c] =>
       <<c, PairAfter(r, First(r, c) + 2 * m)>> \in tried[r]

Walk == \A r \in Calls : Passed(r) /\ \A c \in Nodes : Walks(r, c)

\* Nothing is sent that was not tried.
Sent ==
  /\ \A r \in Calls : \A f \in flight[r] : <<f.node, f.outs>> \in tried[r]
  /\ \A c \in Nodes : \A t \in taken[c] : <<c, t.outs>> \in tried[t.call]

\* A goroutine that builds after the stop has not done so before.
Late ==
  \A r \in Calls, c \in Nodes :
    /\ late[r][c] <= 1
    /\ at[r][c] = "build" \/ ~stopped => late[r][c] = 0

\* Transactions of call r that node c took, and goroutines of the call that
\* have learnt of one and not counted it yet.
Own(r, c) == {t \in taken[c] : t.call = r}
Counting(r, c) == {f \in flight[r] : f.node = c /\ f.step \in {"read", "write"}}

\* A counter, and what a goroutine is about to write into it, counts only
\* transactions whose goroutines are through.
CountsTaken(r, c) ==
  /\ success[r][c] + Cardinality(Counting(r, c)) <= Cardinality(Own(r, c))
  /\ \A f \in Counting(r, c) : f.step = "write" =>
       f.seen + Cardinality(Counting(r, c)) <= Cardinality(Own(r, c))
Counters ==
  \A r \in Calls : IsFiniteSet(flight[r]) /\ \A c \in Nodes : CountsTaken(r, c)

\* Transactions of the call that the first n nodes took.
OwnUpTo(r, n) == {t \in UNION {taken[c] : c \in 0 .. n - 1} : t.call = r}

\* What has been added up so far is no more than these nodes took.
Added ==
  \A r \in Calls :
    /\ pc[r] = "wait" => summed[r] < NumRpcs
    /\ all[r] <= Cardinality(OwnUpTo(r, summed[r]))

IInv ==
  /\ TypeOK /\ Untouched /\ Collected /\ Walk /\ Sent /\ Late
  /\ Counters /\ Added

-----------------------------------------------------------------------------
\* What a query returns: outputs of its address, each of them once.
LEMMA RowsFacts ==
  ASSUME SendConfig, usable \subseteq Outs, NEW a
  PROVE  /\ Rows(a) \in Seq(Outs)
         /\ \A i \in 1 .. Len(Rows(a)) : Owner[Rows(a)[i]] = a
         /\ \A i, j \in 1 .. Len(Rows(a)) : i # j => Rows(a)[i] # Rows(a)[j]
<1> DEFINE S == {o \in usable : Owner[o] = a}
<1>1. S \in SUBSET (1 .. NumOuts) /\ NumOuts \in Nat
  BY DEF SendConfig, Outs
<1>2. /\ InOrder(S) \in Seq(S)
      /\ \A i, j \in 1 .. Len(InOrder(S)) :
           i # j => InOrder(S)[i] # InOrder(S)[j]
  BY <1>1, InOrderFacts
<1>3. S \subseteq Outs /\ \A o \in S : Owner[o] = a
  BY <1>1 DEF Outs
<1> DEFINE s == InOrder(S)
<1>4. s = Rows(a)
  BY DEF Rows
<1> HIDE DEF S, s
<1>5. \A i \in 1 .. Len(s) : s[i] \in S
  BY <1>2 DEF s
<1>6. s \in Seq(Outs)
  BY <1>2, <1>3 DEF s
<1>7. \A i \in 1 .. Len(s) : Owner[s[i]] = a
  BY <1>3, <1>5
<1> QED
  BY <1>2, <1>4, <1>6, <1>7 DEF s

-----------------------------------------------------------------------------
\* Equal shares are not more than there is.
LEMMA Shares ==
  ASSUME NEW n \in Nat, NEW m \in Nat, m > 0
  PROVE  n \div m \in Nat /\ m * (n \div m) <= n
<1>1. n \div m \in Nat
  OBVIOUS
<1>2. m * (n \div m) <= n
  BY SMTT(20)
<1> QED
  BY <1>1, <1>2

\* The slices: a share of the outputs for each client, and the last one's
\* ends with the outputs.
LEMMA ChunkBounds ==
  ASSUME SendConfig, TypeOK, NEW r \in Calls, NEW c \in Nodes
  PROVE  /\ OneCount(r) \in Nat
         /\ First(r, c) \in Nat /\ Last(r, c) \in Nat
         /\ First(r, c) <= Last(r, c) /\ Last(r, c) <= Len(utxos[r])
<1> DEFINE n == Len(utxos[r])
           k == OneCount(r)
<1>1. n \in Nat /\ NumRpcs \in Nat /\ NumRpcs > 0 /\ c \in Nat /\ c + 1 <= NumRpcs
  BY DEF SendConfig, TypeOK, Nodes
<1>2. k = n \div NumRpcs
  BY DEF OneCount
<1> HIDE DEF n, k
<1>3. k \in Nat /\ NumRpcs * k <= n
  BY <1>1, <1>2, Shares
<1>4. c * k \in Nat /\ (c + 1) * k \in Nat /\ c * k <= (c + 1) * k
  BY <1>1, <1>3
<1>5. (c + 1) * k <= NumRpcs * k
  BY <1>1, <1>3
<1> QED
  BY <1>1, <1>3, <1>4, <1>5 DEF First, Last, n, k

\* What a client gets is what lies between its bounds.
LEMMA ChunkIs ==
  ASSUME SendConfig, TypeOK, NEW r \in Calls, NEW c \in Nodes
  PROVE  /\ Len(Chunk(r, c)) = Last(r, c) - First(r, c)
         /\ \A i \in 1 .. Len(Chunk(r, c)) :
              Chunk(r, c)[i] = utxos[r][First(r, c) + i]
<1> DEFINE f == First(r, c)
           l == Last(r, c)
<1>1. utxos[r] \in Seq(Outs)
  BY DEF TypeOK
<1>2. f \in Nat /\ l \in Nat /\ f <= l /\ l <= Len(utxos[r])
  BY ChunkBounds
<1>3. Chunk(r, c) = SubSeq(utxos[r], f + 1, l)
  BY DEF Chunk, First, Last
<1> HIDE DEF f, l
<1>4. f + 1 \in 1 .. Len(utxos[r]) + 1 /\ l \in (f + 1) - 1 .. Len(utxos[r])
  BY <1>1, <1>2
<1>5. Len(Chunk(r, c)) = l - (f + 1) + 1
  BY <1>1, <1>3, <1>4, SubSeqProperties
<1>6. \A i \in 1 .. l - (f + 1) + 1 : Chunk(r, c)[i] = utxos[r][(f + 1) + i - 1]
  BY <1>1, <1>3, <1>4, SubSeqProperties
<1>7. ASSUME NEW i \in 1 .. l - (f + 1) + 1 PROVE (f + 1) + i - 1 = f + i
  BY <1>2
<1>8. l - (f + 1) + 1 = l - f
  BY <1>2
<1> QED
  BY <1>5, <1>6, <1>7, <1>8 DEF f, l

\* No position lies in two slices.
LEMMA ChunksApart ==
  ASSUME SendConfig, TypeOK, NEW r \in Calls, NEW c \in Nodes, NEW d \in Nodes,
         c < d
  PROVE  Last(r, c) <= First(r, d)
<1>1. c \in Nat /\ d \in Nat /\ c + 1 <= d /\ c # NumRpcs - 1 /\ OneCount(r) \in Nat
  BY ChunkBounds DEF SendConfig, Nodes
<1>2. (c + 1) * OneCount(r) <= d * OneCount(r)
  BY <1>1
<1> QED
  BY <1>1, <1>2 DEF First, Last

-----------------------------------------------------------------------------
\* The slices depend only on what was collected.
LEMMA SlicesKept ==
  ASSUME NEW r, utxos'[r] = utxos[r]
  PROVE  \A c, i : /\ First(r, c)' = First(r, c) /\ Last(r, c)' = Last(r, c)
                   /\ PairAfter(r, i)' = PairAfter(r, i)
  BY DEF First, Last, OneCount, PairAfter

\* A goroutine that stays where it is keeps its place in its slice ...
LEMMA WalksKept ==
  ASSUME NEW r, NEW c, Walks(r, c), utxos'[r] = utxos[r],
         pos'[r][c] = pos[r][c], at'[r][c] = at[r][c], stopped => stopped',
         pc'[r] = "returned" => pc[r] = "returned"
  PROVE  Walks(r, c)'
  BY SlicesKept DEF Walks

\* ... and with all of its goroutines a call keeps what it has passed.
LEMMA PassedKept ==
  ASSUME NEW r, Passed(r), utxos'[r] = utxos[r], pos'[r] = pos[r],
         tried'[r] = tried[r]
  PROVE  Passed(r)'
  BY SlicesKept DEF Passed

\* What was taken or is to be counted depends only on the nodes and the
\* goroutines that send.
LEMMA OwnKept ==
  ASSUME UNCHANGED taken
  PROVE  \A r, c, n : Own(r, c)' = Own(r, c) /\ OwnUpTo(r, n)' = OwnUpTo(r, n)
  BY DEF Own, OwnUpTo

\* What counts for a client depends on the goroutines that send.
LEMMA CountingKept ==
  ASSUME UNCHANGED flight
  PROVE  \A r, c : Counting(r, c)' = Counting(r, c)
  BY DEF Counting

\* With what nodes took and what was counted the counters stay right.
LEMMA CountersKept ==
  ASSUME Counters, UNCHANGED <<taken, flight, success>>
  PROVE  Counters'
  BY OwnKept, CountingKept DEF Counters, CountsTaken

\* Before the first call the invariant holds.
LEMMA InitIInv == Init => IInv
<1> SUFFICES ASSUME Init PROVE IInv
  OBVIOUS
<1>1. TypeOK
  <2>1. stopped \in BOOLEAN
    BY DEF Init
  <2>2. 0 \in 0 .. NumRpcs
    BY SendConfig
  <2> QED
    BY <2>1, <2>2 DEF Init, TypeOK
<1>2. Untouched /\ Collected /\ Sent /\ Late
  BY DEF Init, Untouched, Collected, Sent, Late
<1>3. Walk
  <2>1. \A r \in Calls, c \in Nodes : pos[r][c] = 2 * 0 /\ at[r][c] = "off"
    BY DEF Init
  <2> QED
    BY <2>1 DEF Init, Walk, Walks, Passed
<1>4. Counters
  <2>1. IsFiniteSet({}) /\ Cardinality({}) = 0
    BY FS_EmptySet
  <2>2. ASSUME NEW r \in Calls PROVE IsFiniteSet(flight[r])
    BY <2>1 DEF Init
  <2>3. ASSUME NEW r \in Calls, NEW c \in Nodes PROVE CountsTaken(r, c)
    <3>1. Own(r, c) = {} /\ Counting(r, c) = {} /\ success[r][c] = 0
      BY DEF Init, Own, Counting
    <3> QED
      BY <2>1, <3>1 DEF CountsTaken
  <2> QED
    BY <2>2, <2>3 DEF Counters
<1>5. Added
  <2>1. \A r \in Calls : pc[r] = "new" /\ summed[r] = 0 /\ all[r] = 0
    BY DEF Init
  <2>2. \A r \in Calls : OwnUpTo(r, 0) = {}
    BY DEF Init, OwnUpTo
  <2> QED
    BY <2>1, <2>2, FS_EmptySet DEF Added
<1> QED
  BY <1>1, <1>2, <1>3, <1>4, <1>5 DEF IInv

\* A call that begins keeps it.
LEMMA SendStep == ASSUME IInv, NEW r \in Calls, Send(r) PROVE IInv'
<1>1. PICK n \in Counts, known \in BOOLEAN :
        /\ count' = [count EXCEPT ![r] = n]
        /\ pc' = [pc EXCEPT ![r] = IF ~known THEN "nocoin"
                                   ELSE IF ~KeyLoaded THEN "panicked"
                                   ELSE "collect"]
        /\ todo' = [todo EXCEPT ![r] = IF known /\ KeyLoaded THEN Addresses ELSE {}]
  BY DEF Send
<1>2. /\ pc[r] = "new"
      /\ UNCHANGED <<usable, taken, stopped, utxos, summed, all,
                     at, pos, flight, success, tried, late>>
  BY DEF Send, dbVars, goVars
<1>3. /\ utxos[r] = <<>> /\ pc'[r] \in {"nocoin", "panicked", "collect"}
      /\ \A s \in Calls : s # r => pc'[s] = pc[s] /\ todo'[s] = todo[s]
  BY <1>1, <1>2 DEF IInv, TypeOK, Collected
<1>4. TypeOK'
  BY <1>1, <1>2, SendConfig DEF IInv, TypeOK
<1>5. (Untouched /\ Collected)'
  BY <1>2, <1>3 DEF IInv, Untouched, Collected
<1>6. Walk'
  BY <1>2, <1>3, WalksKept, PassedKept DEF IInv, Walk
<1>7. (Sent /\ Late)'
  BY <1>2 DEF IInv, Sent, Late
<1>8. (Counters /\ Added)'
  <2>1. Counters'
    BY <1>2, CountersKept DEF IInv
  <2>2. Added'
    BY <1>2, <1>3, OwnKept DEF IInv, Added
  <2> QED
    BY <2>1, <2>2
<1> QED
  BY <1>4, <1>5, <1>6, <1>7, <1>8 DEF IInv

\* Dealing the outputs keeps it.
LEMMA DealStep == ASSUME IInv, NEW r \in Calls, Deal(r) PROVE IInv'
<1>1. /\ pc[r] \in {"deal", "collect"}
      /\ pc' = [pc EXCEPT ![r] = "wait"]
      /\ at' = [at EXCEPT ![r] = [c \in Nodes |-> "top"]]
      /\ UNCHANGED <<usable, taken, stopped, count, todo, utxos, summed, all, pos,
                     flight, success, tried, late>>
  BY DEF Deal, dbVars
<1>2. /\ \A c \in Nodes : at[r][c] = "off" /\ pos[r][c] = 0 /\ at'[r][c] = "top"
      /\ \A s \in Calls : s # r => pc'[s] = pc[s] /\ at'[s] = at[s]
      /\ pc'[r] = "wait" /\ summed[r] = 0
  BY <1>1 DEF IInv, TypeOK, Untouched
<1>3. TypeOK'
  BY <1>1 DEF IInv, TypeOK
<1>4. (Untouched /\ Collected)'
  BY <1>1, <1>2 DEF IInv, Untouched, Collected
<1>5. Walk'
  <2>1. ASSUME NEW s \in Calls, s # r PROVE Passed(s)' /\ \A c \in Nodes : Walks(s, c)'
    BY <1>1, <1>2, <2>1, WalksKept, PassedKept DEF IInv, Walk
  <2>2. Passed(r)'
    BY <1>1, PassedKept DEF IInv, Walk
  <2>3. ASSUME NEW c \in Nodes PROVE Walks(r, c)'
    BY <1>1, <1>2, SlicesKept DEF IInv, Walk, Walks
  <2> QED
    BY <2>1, <2>2, <2>3 DEF Walk
<1>6. (Sent /\ Late)'
  BY <1>1, <1>2 DEF IInv, Sent, Late
<1>7. (Counters /\ Added)'
  <2>1. Counters'
    BY <1>1, CountersKept DEF IInv
  <2>2. 0 < NumRpcs
    BY SendConfig
  <2>3. Added'
    BY <1>1, <1>2, <2>2, OwnKept DEF IInv, Added
  <2> QED
    BY <2>1, <2>3
<1> QED
  BY <1>3, <1>4, <1>5, <1>6, <1>7 DEF IInv

\* A stop keeps it: no goroutine has built anything after it yet.
LEMMA StopStep == ASSUME IInv, Stop PROVE IInv'
<1>1. /\ ~stopped /\ stopped' /\ stopped' \in BOOLEAN
      /\ UNCHANGED <<usable, taken, pc, count, todo, utxos, summed, all, at, pos,
                     flight, success, tried, late>>
  BY DEF Stop, mainVars, goVars
<1>2. TypeOK'
  BY <1>1 DEF IInv, TypeOK
<1>3. (Untouched /\ Collected /\ Sent)'
  BY <1>1 DEF IInv, Untouched, Collected, Sent
<1>4. Walk'
  BY <1>1, WalksKept, PassedKept DEF IInv, Walk
<1>5. Late'
  BY <1>1 DEF IInv, Late
<1>6. (Counters /\ Added)'
  <2>1. Counters'
    BY <1>1, CountersKept DEF IInv
  <2>2. Added'
    BY <1>1, OwnKept DEF IInv, Added
  <2> QED
    BY <2>1, <2>2
<1> QED
  BY <1>2, <1>3, <1>4, <1>5, <1>6 DEF IInv

\* A spend that the database learns of keeps it.
LEMMA SyncStep == ASSUME IInv, Sync PROVE IInv'
<1>1. /\ usable' \subseteq usable
      /\ UNCHANGED <<taken, stopped, pc, count, todo, utxos, summed, all, at, pos,
                     flight, success, tried, late>>
  BY DEF Sync, mainVars, goVars
<1>2. TypeOK'
  BY <1>1 DEF IInv, TypeOK
<1>3. (Untouched /\ Collected /\ Sent /\ Late)'
  BY <1>1 DEF IInv, Untouched, Collected, Sent, Late
<1>4. Walk'
  BY <1>1, WalksKept, PassedKept DEF IInv, Walk
<1>5. (Counters /\ Added)'
  <2>1. Counters'
    BY <1>1, CountersKept DEF IInv
  <2>2. Added'
    BY <1>1, OwnKept DEF IInv, Added
  <2> QED
    BY <2>1, <2>2
<1> QED
  BY <1>2, <1>3, <1>4, <1>5 DEF IInv

-----------------------------------------------------------------------------
\* Collecting from one address keeps it: no other address owns its rows.
LEMMA CollectStep == ASSUME IInv, NEW r \in Calls, Collect(r) PROVE IInv'
<1> DEFINE u == utxos[r]
<1>0. PICK a \in todo[r] : \E rows \in {Rows(a), <<>>} :
        /\ todo' = [todo EXCEPT ![r] = @ \ {a}]
        /\ IF Len(u \o rows) < count[r]
           THEN utxos' = [utxos EXCEPT ![r] = u \o rows] /\ UNCHANGED pc
           ELSE IF count[r] < 0
           THEN pc' = [pc EXCEPT ![r] = "panicked"] /\ UNCHANGED utxos
           ELSE /\ utxos' = [utxos EXCEPT ![r] = SubSeq(u \o rows, 1, count[r])]
                /\ pc' = [pc EXCEPT ![r] = "deal"]
  BY DEF Collect
<1>1. PICK rows \in {Rows(a), <<>>} :
        /\ todo' = [todo EXCEPT ![r] = @ \ {a}]
        /\ IF Len(u \o rows) < count[r]
           THEN utxos' = [utxos EXCEPT ![r] = u \o rows] /\ UNCHANGED pc
           ELSE IF count[r] < 0
           THEN pc' = [pc EXCEPT ![r] = "panicked"] /\ UNCHANGED utxos
           ELSE /\ utxos' = [utxos EXCEPT ![r] = SubSeq(u \o rows, 1, count[r])]
                /\ pc' = [pc EXCEPT ![r] = "deal"]
  BY <1>0
<1>2. /\ pc[r] = "collect"
      /\ UNCHANGED <<usable, taken, stopped, count, summed, all, at, pos, flight,
                     success, tried, late>>
  BY DEF Collect, dbVars, goVars
<1>3. /\ u \in Seq(Outs) /\ count[r] \in Int
      /\ \A i \in 1 .. Len(u) : Owner[u[i]] \notin todo[r]
      /\ \A i, j \in 1 .. Len(u) : i # j => u[i] # u[j]
  BY <1>2 DEF IInv, TypeOK, Collected
<1>4. /\ rows \in Seq(Outs)
      /\ \A i \in 1 .. Len(rows) : Owner[rows[i]] = a
      /\ \A i, j \in 1 .. Len(rows) : i # j => rows[i] # rows[j]
  <2>1. CASE rows = Rows(a)
    BY <2>1, RowsFacts, SendConfig DEF IInv, TypeOK
  <2>2. CASE rows = <<>>
    BY <2>2
  <2> QED
    BY <2>1, <2>2
<1> DEFINE got == u \o rows
<1>5. /\ got \in Seq(Outs) /\ Len(got) = Len(u) + Len(rows)
      /\ \A i \in 1 .. Len(u) : got[i] = u[i]
      /\ \A i \in 1 .. Len(got) : i > Len(u) =>
           i - Len(u) \in 1 .. Len(rows) /\ got[i] = rows[i - Len(u)]
  BY <1>3, <1>4
<1> HIDE DEF got, u
<1>6. ASSUME NEW i \in 1 .. Len(got) PROVE Owner[got[i]] \notin todo[r] \ {a}
  <2>1. CASE i <= Len(u)
    <3>1. i \in 1 .. Len(u)
      BY <1>5, <2>1
    <3> QED
      BY <1>3, <1>5, <3>1
  <2>2. CASE i > Len(u)
    BY <1>4, <1>5, <2>2
  <2> QED
    BY <1>3, <1>5, <2>1, <2>2
<1>7. ASSUME NEW i \in 1 .. Len(got), NEW j \in 1 .. Len(got), i # j
      PROVE  got[i] # got[j]
  <2>1. ASSUME NEW k \in 1 .. Len(got)
        PROVE  \/ k \in 1 .. Len(u) /\ got[k] = u[k] /\ Owner[got[k]] # a
               \/ /\ k > Len(u) /\ k - Len(u) \in 1 .. Len(rows)
                  /\ got[k] = rows[k - Len(u)] /\ Owner[got[k]] = a
    BY <1>1, <1>3, <1>4, <1>5
  <2>2. CASE i \in 1 .. Len(u) /\ j \in 1 .. Len(u) /\ got[i] = u[i] /\ got[j] = u[j]
    BY <1>3, <1>7, <2>2
  <2>3. CASE /\ i > Len(u) /\ i - Len(u) \in 1 .. Len(rows) /\ got[i] = rows[i - Len(u)]
             /\ j > Len(u) /\ j - Len(u) \in 1 .. Len(rows) /\ got[j] = rows[j - Len(u)]
    <3>1. i - Len(u) # j - Len(u)
      BY <1>3, <1>5, <1>7
    <3> QED
      BY <1>4, <2>3, <3>1
  <2> QED
    BY <2>1, <2>2, <2>3
<1>8. PICK n \in Seq(Outs) :
        /\ utxos' = [utxos EXCEPT ![r] = n]
        /\ pc'[r] \in {"collect", "deal", "panicked"}
        /\ pc'[r] = "collect" => n = got
        /\ \A i, j \in 1 .. Len(n) : i # j => n[i] # n[j]
  <2>1. CASE Len(got) < count[r]
    BY <1>1, <1>2, <1>5, <1>7, <2>1 DEF got, u
  <2>2. CASE ~ (Len(got) < count[r]) /\ count[r] < 0
    <3>1. utxos' = [utxos EXCEPT ![r] = u] /\ pc'[r] = "panicked"
      BY <1>1, <1>2, <2>2 DEF got, u, IInv, TypeOK
    <3> QED
      BY <1>3, <3>1
  <2>3. CASE ~ (Len(got) < count[r]) /\ ~ (count[r] < 0)
    <3>1. utxos' = [utxos EXCEPT ![r] = SubSeq(got, 1, count[r])] /\ pc'[r] = "deal"
      BY <1>1, <1>2, <2>3 DEF got, u, IInv, TypeOK
    <3>2. \A i \in 1 .. count[r] : i \in 1 .. Len(got) /\ got[i] \in Outs
      BY <1>3, <1>5, <2>3
    <3>3. /\ SubSeq(got, 1, count[r]) \in Seq(Outs)
          /\ Len(SubSeq(got, 1, count[r])) = count[r]
          /\ \A i \in 1 .. count[r] : SubSeq(got, 1, count[r])[i] = got[i]
      BY <1>3, <2>3, <3>2, <1>5
    <3> DEFINE cut == SubSeq(got, 1, count[r])
    <3>4. \A i, j \in 1 .. Len(cut) : i # j => cut[i] # cut[j]
      BY <1>7, <3>2, <3>3
    <3> HIDE DEF cut
    <3>5. utxos' = [utxos EXCEPT ![r] = cut] /\ cut \in Seq(Outs)
      BY <3>1, <3>3 DEF cut
    <3> QED
      BY <3>1, <3>4, <3>5
  <2> QED
    BY <2>1, <2>2, <2>3
<1>9. /\ utxos'[r] = n /\ todo'[r] = todo[r] \ {a}
      /\ \A s \in Calls : s # r =>
           utxos'[s] = utxos[s] /\ pc'[s] = pc[s] /\ todo'[s] = todo[s]
  BY <1>1, <1>2, <1>8 DEF IInv, TypeOK
<1>10. TypeOK'
  BY <1>1, <1>2, <1>8 DEF IInv, TypeOK
<1>11. Untouched'
  BY <1>2, <1>8, <1>9 DEF IInv, Untouched
<1>12. Collected'
  BY <1>6, <1>8, <1>9 DEF IInv, Collected
<1>13. Walk'
  <2>1. ASSUME NEW s \in Calls, s # r PROVE Passed(s)' /\ \A c \in Nodes : Walks(s, c)'
    BY <1>2, <1>9, <2>1, WalksKept, PassedKept DEF IInv, Walk
  <2>2. \A c \in Nodes : at'[r][c] = "off" /\ pos'[r][c] = 0
    BY <1>2 DEF IInv, Untouched
  <2>3. tried'[r] = {} /\ pc'[r] # "returned"
    BY <1>2, <1>8 DEF IInv, Untouched
  <2>4. Passed(r)'
    BY <2>2, <2>3 DEF Passed
  <2>5. ASSUME NEW c \in Nodes PROVE Walks(r, c)'
    <3>1. pos'[r][c] = 2 * 0 /\ at'[r][c] = "off"
      BY <2>2
    <3> QED
      BY <2>3, <3>1 DEF Walks
  <2> QED
    BY <2>1, <2>4, <2>5 DEF Walk
<1>14. (Sent /\ Late)'
  BY <1>2 DEF IInv, Sent, Late
<1>15. Counters'
  BY <1>2, CountersKept DEF IInv
<1>16. Added'
  <2>1. \A s \in Calls : pc'[s] = "wait" => pc[s] = "wait"
    BY <1>8, <1>9
  <2> QED
    BY <1>2, <2>1, OwnKept DEF IInv, Added
<1> QED
  BY <1>10, <1>11, <1>12, <1>13, <1>14, <1>15, <1>16 DEF IInv

-----------------------------------------------------------------------------
\* Two outputs that follow each other in a slice are a pair.
LEMMA PairFacts ==
  ASSUME TypeOK, Collected, NEW r \in Calls, NEW i \in Nat, i + 2 <= Len(utxos[r])
  PROVE  PairAfter(r, i) \in Pairs
<1> DEFINE x == utxos[r][i + 1]
           y == utxos[r][i + 2]
<1>1. Len(utxos[r]) \in Nat /\ utxos[r] \in Seq(Outs)
  BY DEF TypeOK
<1>2. i + 1 \in 1 .. Len(utxos[r]) /\ i + 2 \in 1 .. Len(utxos[r]) /\ i + 1 # i + 2
  BY <1>1
<1>3. x \in Outs /\ y \in Outs /\ x # y
  BY <1>1, <1>2 DEF Collected
<1> HIDE DEF x, y
<1>4. Cardinality({x, y}) = 2
  BY <1>3, TwoElements
<1> QED
  BY <1>3, <1>4 DEF PairAfter, Pairs, x, y

\* The top of the loop keeps it: the goroutine goes on only if it has a pair
\* left and the engine is not stopped.
LEMMA TopStep ==
  ASSUME IInv, NEW r \in Calls, NEW c \in Nodes, Top(r, c) PROVE IInv'
<1> DEFINE length == Last(r, c) - First(r, c)
<1>1. /\ at[r][c] = "top"
      /\ at' = [at EXCEPT ![r][c] = IF GoesOn(r, c) THEN "build" ELSE "done"]
      /\ UNCHANGED <<usable, taken, stopped, pc, count, todo, utxos, summed, all,
                     pos, flight, success, tried, late>>
  BY DEF Top, dbVars, mainVars
<1>2. /\ pos[r][c] \in Nat /\ length \in Int
      /\ GoesOn(r, c) <=> pos[r][c] + 2 <= length /\ ~stopped
  <2>1. Len(Chunk(r, c)) = length /\ length \in Int /\ pos[r][c] \in Nat
    BY ChunkIs, ChunkBounds, SendConfig DEF IInv, TypeOK
  <2> HIDE DEF length
  <2>2. pos[r][c] < Len(Chunk(r, c)) - 1 <=> pos[r][c] + 2 <= length
    BY <2>1
  <2> QED
    BY <2>1, <2>2 DEF GoesOn
<1>3. /\ at'[r][c] = IF GoesOn(r, c) THEN "build" ELSE "done"
      /\ \A s \in Calls, d \in Nodes : s # r \/ d # c => at'[s][d] = at[s][d]
  BY <1>1 DEF IInv, TypeOK
<1>4. pc[r] = "wait"
  BY <1>1 DEF IInv, Untouched, Walk, Walks, TypeOK
<1>5. TypeOK'
  BY <1>1 DEF IInv, TypeOK
<1>6. (Untouched /\ Collected /\ Sent)'
  <2>1. Untouched'
    BY <1>1, <1>3, <1>4 DEF IInv, Untouched
  <2>2. (Collected /\ Sent)'
    BY <1>1 DEF IInv, Collected, Sent
  <2> QED
    BY <2>1, <2>2
<1>7. Walk'
  <2>1. \A s \in Calls : Passed(s)'
    BY <1>1, PassedKept DEF IInv, Walk
  <2>2. ASSUME NEW s \in Calls, NEW d \in Nodes, s # r \/ d # c
        PROVE  Walks(s, d)'
    BY <1>1, <1>3, <2>2, WalksKept DEF IInv, Walk
  <2>3. Walks(r, c)'
    <3>1. /\ First(r, c)' = First(r, c) /\ Last(r, c)' = Last(r, c)
          /\ pos'[r][c] = pos[r][c] /\ pc'[r] # "returned" /\ Walks(r, c)
          /\ stopped' = stopped
      BY <1>1, <1>4, SlicesKept DEF IInv, Walk
    <3>2. CASE GoesOn(r, c)
      BY <1>2, <1>3, <3>1, <3>2 DEF Walks
    <3>3. CASE ~GoesOn(r, c)
      BY <1>2, <1>3, <3>1, <3>3 DEF Walks
    <3> QED
      BY <3>2, <3>3
  <2> QED
    BY <2>1, <2>2, <2>3 DEF Walk
<1>8. Late'
  <2>1. at'[r][c] = "build" => ~stopped
    BY <1>2, <1>3
  <2> QED
    BY <1>1, <1>3, <2>1 DEF IInv, Late
<1>9. Counters'
  BY <1>1, CountersKept DEF IInv
<1>10. Added'
  BY <1>1, OwnKept DEF IInv, Added
<1> QED
  BY <1>5, <1>6, <1>7, <1>8, <1>9, <1>10 DEF IInv

\* Building a pair keeps it: the next pair of the slice is tried, nothing else.
LEMMA BuildStep ==
  ASSUME IInv, NEW r \in Calls, NEW c \in Nodes, Build(r, c) PROVE IInv'
<1> DEFINE p == PairAfter(r, First(r, c) + pos[r][c])
           g == [node |-> c, outs |-> p, step |-> "send", seen |-> 0]
<1>1. /\ at[r][c] = "build"
      /\ at' = [at EXCEPT ![r][c] = "top"]
      /\ pos' = [pos EXCEPT ![r][c] = @ + 2]
      /\ late' = [late EXCEPT ![r][c] = IF stopped THEN @ + 1 ELSE @]
      /\ UNCHANGED <<usable, taken, stopped, pc, count, todo, utxos, summed, all,
                     success>>
  BY DEF Build, dbVars, mainVars
<1>2. /\ pos[r][c] \in Nat /\ First(r, c) \in Nat /\ Last(r, c) \in Nat
      /\ pos[r][c] + 2 <= Last(r, c) - First(r, c) /\ Last(r, c) <= Len(utxos[r])
      /\ Len(utxos[r]) \in Nat
  BY <1>1, ChunkBounds, SendConfig DEF IInv, TypeOK, Walk, Walks
<1>3. Pair(r, c) = p
  <2>1. pos[r][c] + 1 \in 1 .. Last(r, c) - First(r, c)
        /\ pos[r][c] + 2 \in 1 .. Last(r, c) - First(r, c)
    BY <1>2
  <2>2. /\ Chunk(r, c)[pos[r][c] + 1] = utxos[r][First(r, c) + (pos[r][c] + 1)]
        /\ Chunk(r, c)[pos[r][c] + 2] = utxos[r][First(r, c) + (pos[r][c] + 2)]
    BY <2>1, ChunkIs, SendConfig DEF IInv
  <2>3. /\ First(r, c) + (pos[r][c] + 1) = (First(r, c) + pos[r][c]) + 1
        /\ First(r, c) + (pos[r][c] + 2) = (First(r, c) + pos[r][c]) + 2
    BY <1>2
  <2> QED
    BY <2>2, <2>3 DEF Pair, PairAfter
<1>4. p \in Pairs
  <2>1. First(r, c) + pos[r][c] \in Nat
        /\ (First(r, c) + pos[r][c]) + 2 <= Len(utxos[r])
    BY <1>2
  <2> QED
    BY <2>1, PairFacts DEF IInv
<1> HIDE DEF p
<1>5. /\ flight' = flight \/ flight' = [flight EXCEPT ![r] = @ \cup {g}]
      /\ tried' = [tried EXCEPT ![r] = @ \cup {<<c, p>>}]
  BY <1>3 DEF Build
<1>6. /\ at'[r][c] = "top" /\ pos'[r][c] = pos[r][c] + 2
      /\ late[r][c] = 0 /\ late'[r][c] = IF stopped THEN 1 ELSE 0
      /\ \A s \in Calls, d \in Nodes : s # r \/ d # c =>
           at'[s][d] = at[s][d] /\ pos'[s][d] = pos[s][d] /\ late'[s][d] = late[s][d]
      /\ \A s \in Calls : s # r =>
           pos'[s] = pos[s] /\ tried'[s] = tried[s] /\ flight'[s] = flight[s]
      /\ tried'[r] = tried[r] \cup {<<c, p>>}
      /\ flight'[r] \subseteq flight[r] \cup {g}
  BY <1>1, <1>5 DEF IInv, TypeOK, Late
<1>7. pc[r] = "wait"
  BY <1>1 DEF IInv, Untouched, Walk, Walks, TypeOK
<1>8. TypeOK'
  <2>1. g \in Flight
    BY <1>4 DEF Flight
  <2>2. flight' \in [Calls -> SUBSET Flight] /\ tried' \in [Calls -> SUBSET (Nodes \X Pairs)]
    <3> HIDE DEF g
    <3>1. flight' \in [Calls -> SUBSET Flight]
      <4>1. flight \in [Calls -> SUBSET Flight] /\ flight[r] \cup {g} \in SUBSET Flight
        BY <2>1 DEF IInv, TypeOK
      <4> QED
        BY <1>5, <4>1
    <3>2. <<c, p>> \in Nodes \X Pairs
      BY <1>4
    <3>3. tried' \in [Calls -> SUBSET (Nodes \X Pairs)]
      BY <1>5, <3>2 DEF IInv, TypeOK
    <3> QED
      BY <3>1, <3>3
  <2>3. /\ at' \in [Calls -> [Nodes -> {"off", "top", "build", "done"}]]
        /\ pos' \in [Calls -> [Nodes -> Nat]]
        /\ late' \in [Calls -> [Nodes -> Nat]]
    BY <1>1 DEF IInv, TypeOK
  <2> QED
    BY <1>1, <2>2, <2>3 DEF IInv, TypeOK
<1>9. Untouched'
  BY <1>1, <1>6, <1>7 DEF IInv, Untouched
<1>10. Collected'
  BY <1>1 DEF IInv, Collected
<1>11. Walk'
  <2>1. ASSUME NEW s \in Calls, s # r PROVE Passed(s)' /\ \A d \in Nodes : Walks(s, d)'
    BY <1>1, <1>6, <2>1, WalksKept, PassedKept DEF IInv, Walk
  <2>2. ASSUME NEW d \in Nodes, d # c PROVE Walks(r, d)'
    BY <1>1, <1>6, <2>2, WalksKept DEF IInv, Walk
  <2>3. PICK k \in Nat : pos[r][c] = 2 * k
    BY DEF IInv, Walk, Walks
  <2>4. \A d, i : /\ First(r, d)' = First(r, d) /\ Last(r, d)' = Last(r, d)
                  /\ PairAfter(r, i)' = PairAfter(r, i)
    BY <1>1, SlicesKept
  <2>5. Walks(r, c)'
    <3>1. pos'[r][c] = 2 * (k + 1) /\ k + 1 \in Nat
      BY <1>6, <2>3
    <3> QED
      BY <1>1, <1>2, <1>6, <1>7, <2>4, <3>1 DEF Walks
  <2>6. ASSUME NEW t \in tried'[r]
        PROVE  \E m \in Nat : /\ 2 * m + 2 <= pos'[r][t[1]]
                              /\ t[2] = PairAfter(r, First(r, t[1]) + 2 * m)
    <3>1. CASE t = <<c, p>>
      <4>1. t[1] = c /\ t[2] = PairAfter(r, First(r, c) + 2 * k)
        BY <2>3, <3>1 DEF p
      <4>2. 2 * k + 2 <= pos'[r][c]
        BY <1>6, <2>3
      <4> QED
        BY <4>1, <4>2
    <3>2. CASE t \in tried[r]
      <4>1. PICK m \in Nat : /\ 2 * m + 2 <= pos[r][t[1]]
                             /\ t[2] = PairAfter(r, First(r, t[1]) + 2 * m)
        BY <3>2 DEF IInv, Walk, Passed
      <4>2. t[1] \in Nodes
        BY <3>2 DEF IInv, TypeOK
      <4>3. pos[r][t[1]] \in Nat /\ pos[r][t[1]] <= pos'[r][t[1]]
        BY <1>2, <1>6, <4>2 DEF IInv, TypeOK
      <4>4. pos'[r][t[1]] \in Nat
        BY <1>8, <4>2 DEF TypeOK
      <4>5. 2 * m + 2 <= pos'[r][t[1]]
        BY <4>1, <4>3, <4>4
      <4> QED
        BY <4>1, <4>5
    <3> QED
      BY <1>6, <3>1, <3>2
  <2>7. ASSUME NEW d \in Nodes, NEW m \in Nat, 2 * m + 2 <= pos'[r][d]
        PROVE  <<d, PairAfter(r, First(r, d) + 2 * m)>> \in tried'[r]
    <3>1. CASE d # c \/ 2 * m + 2 <= pos[r][c]
      <4>1. 2 * m + 2 <= pos[r][d]
        BY <1>6, <2>7, <3>1
      <4> QED
        BY <1>6, <4>1 DEF IInv, Walk, Passed
    <3>2. CASE d = c /\ ~ (2 * m + 2 <= pos[r][c])
      <4>1. m = k
        BY <1>6, <2>3, <2>7, <3>2
      <4> QED
        BY <1>6, <2>3, <3>2, <4>1 DEF p
    <3> QED
      BY <3>1, <3>2
  <2>8. Passed(r)'
    BY <2>4, <2>6, <2>7 DEF Passed
  <2> QED
    BY <2>1, <2>2, <2>5, <2>8 DEF Walk
<1>12. Sent'
  <2>1. \A s \in Calls : tried[s] \subseteq tried'[s]
    BY <1>6
  <2>2. ASSUME NEW s \in Calls, NEW f \in flight'[s]
        PROVE  <<f.node, f.outs>> \in tried'[s]
    BY <1>6, <2>1, <2>2 DEF IInv, Sent
  <2>3. ASSUME NEW d \in Nodes, NEW t \in taken'[d]
        PROVE  <<d, t.outs>> \in tried'[t.call]
    <3>1. t.call \in Calls /\ t \in taken[d]
      BY <1>1 DEF IInv, TypeOK, Tx
    <3> QED
      BY <2>1, <3>1 DEF IInv, Sent
  <2> QED
    BY <2>2, <2>3 DEF Sent
<1>13. Late'
  BY <1>1, <1>6 DEF IInv, Late
<1>14. Counters'
  <2>1. ASSUME NEW s \in Calls, NEW d PROVE Counting(s, d)' = Counting(s, d)
    <3>1. flight'[s] \in {flight[s], flight[s] \cup {g}} /\ g.step = "send"
      BY <1>5 DEF IInv, TypeOK
    <3> HIDE DEF g
    <3> QED
      BY <3>1 DEF Counting
  <2>2. ASSUME NEW s \in Calls PROVE IsFiniteSet(flight'[s])
    <3>1. IsFiniteSet(flight[s]) /\ flight'[s] \in {flight[s], flight[s] \cup {g}}
      BY <1>5 DEF IInv, Counters, TypeOK
    <3> QED
      BY <3>1, FS_AddElement
  <2>3. ASSUME NEW s \in Calls, NEW d \in Nodes PROVE CountsTaken(s, d)'
    BY <1>1, <2>1, OwnKept DEF IInv, Counters, CountsTaken
  <2> QED
    BY <2>2, <2>3 DEF Counters
<1>15. Added'
  BY <1>1, OwnKept DEF IInv, Added
<1> QED
  BY <1>8, <1>9, <1>10, <1>11, <1>12, <1>13, <1>14, <1>15 DEF IInv

-----------------------------------------------------------------------------
\* Whatever a call tried lies within the slice of the client it was for.
LEMMA TriedAt ==
  ASSUME IInv, NEW r \in Calls, NEW t \in tried[r]
  PROVE  /\ t[1] \in Nodes
         /\ \E m \in Nat :
              /\ t[2] = PairAfter(r, First(r, t[1]) + 2 * m)
              /\ First(r, t[1]) + 2 * m + 2 <= Last(r, t[1])
<1>1. t[1] \in Nodes
  BY DEF IInv, TypeOK
<1>2. PICK m \in Nat : /\ 2 * m + 2 <= pos[r][t[1]]
                       /\ t[2] = PairAfter(r, First(r, t[1]) + 2 * m)
  BY DEF IInv, Walk, Passed
<1>3. Walks(r, t[1]) /\ pos[r][t[1]] \in Nat
  BY <1>1 DEF IInv, Walk, TypeOK
<1>4. First(r, t[1]) \in Nat /\ Last(r, t[1]) \in Nat
  BY <1>1, ChunkBounds, SendConfig DEF IInv
<1>5. pos[r][t[1]] <= Last(r, t[1]) - First(r, t[1])
  BY <1>2, <1>3, <1>4 DEF Walks
<1>6. First(r, t[1]) + 2 * m + 2 <= Last(r, t[1])
  BY <1>2, <1>3, <1>4, <1>5
<1> QED
  BY <1>1, <1>2, <1>6

\* Pairs at different places share no output.
LEMMA PlacesApart ==
  ASSUME TypeOK, Collected, NEW r \in Calls, NEW i \in Nat, NEW j \in Nat,
         i + 2 <= j, j + 2 <= Len(utxos[r])
  PROVE  PairAfter(r, i) \cap PairAfter(r, j) = {}
<1> DEFINE u == utxos[r]
<1>1. Len(u) \in Nat
  BY DEF TypeOK
<1>2. /\ i + 1 \in 1 .. Len(u) /\ i + 2 \in 1 .. Len(u)
      /\ j + 1 \in 1 .. Len(u) /\ j + 2 \in 1 .. Len(u)
      /\ i + 1 # j + 1 /\ i + 1 # j + 2 /\ i + 2 # j + 1 /\ i + 2 # j + 2
  BY <1>1
<1>3. \A k, l \in 1 .. Len(u) : k # l => u[k] # u[l]
  BY DEF Collected
<1> HIDE DEF u
<1>4. /\ u[i + 1] # u[j + 1] /\ u[i + 1] # u[j + 2]
      /\ u[i + 2] # u[j + 1] /\ u[i + 2] # u[j + 2]
  BY <1>2, <1>3
<1> QED
  BY <1>4 DEF PairAfter, u

\* A call puts no output into two transactions.
LEMMA TriedApart == IInv => NoOutputTwice
<1> SUFFICES ASSUME IInv, NEW r \in Calls, NEW p \in tried[r], NEW q \in tried[r],
                    p # q
             PROVE  p[2] \cap q[2] = {}
  BY DEF NoOutputTwice
<1>1. PICK m \in Nat : /\ p[2] = PairAfter(r, First(r, p[1]) + 2 * m)
                       /\ First(r, p[1]) + 2 * m + 2 <= Last(r, p[1])
  BY TriedAt
<1>2. PICK n \in Nat : /\ q[2] = PairAfter(r, First(r, q[1]) + 2 * n)
                       /\ First(r, q[1]) + 2 * n + 2 <= Last(r, q[1])
  BY TriedAt
<1> DEFINE i == First(r, p[1]) + 2 * m
           j == First(r, q[1]) + 2 * n
<1>3. /\ p[1] \in Nodes /\ q[1] \in Nodes /\ p = <<p[1], p[2]>> /\ q = <<q[1], q[2]>>
  BY DEF IInv, TypeOK
<1>4. /\ First(r, p[1]) \in Nat /\ First(r, q[1]) \in Nat
      /\ Last(r, p[1]) \in Nat /\ Last(r, q[1]) \in Nat
      /\ Last(r, p[1]) <= Len(utxos[r]) /\ Last(r, q[1]) <= Len(utxos[r])
      /\ Len(utxos[r]) \in Nat
  BY <1>3, ChunkBounds, SendConfig DEF IInv, TypeOK
<1>5. i \in Nat /\ j \in Nat /\ i + 2 <= Len(utxos[r]) /\ j + 2 <= Len(utxos[r])
  BY <1>1, <1>2, <1>4
<1>6. i + 2 <= j \/ j + 2 <= i
  <2>1. CASE p[1] = q[1]
    <3>1. m # n
      BY <1>1, <1>2, <1>3, <2>1
    <3>2. m + 1 <= n \/ n + 1 <= m
      BY <3>1
    <3> QED
      BY <1>4, <2>1, <3>2
  <2>2. CASE p[1] < q[1]
    <3>1. Last(r, p[1]) <= First(r, q[1])
      BY <1>3, <2>2, ChunksApart, SendConfig DEF IInv
    <3> QED
      BY <1>1, <1>4, <3>1
  <2>3. CASE q[1] < p[1]
    <3>1. Last(r, q[1]) <= First(r, p[1])
      BY <1>3, <2>3, ChunksApart, SendConfig DEF IInv
    <3> QED
      BY <1>2, <1>4, <3>1
  <2> QED
    BY <1>3, <2>1, <2>2, <2>3, SendConfig DEF Nodes
<1> HIDE DEF i, j
<1>7. PairAfter(r, i) \cap PairAfter(r, j) = {}
  BY <1>5, <1>6, PlacesApart DEF IInv
<1> QED
  BY <1>1, <1>2, <1>7 DEF i, j

\* A pair is not empty.
LEMMA PairsNotEmpty == \A s \in Pairs : s # {}
  BY FS_EmptySet DEF Pairs

\* Two nodes never take the same transaction of a call.
LEMMA OwnApart ==
  ASSUME IInv, NEW r \in Calls, NEW c \in Nodes, NEW d \in Nodes, c # d
  PROVE  Own(r, c) \cap Own(r, d) = {}
<1> SUFFICES ASSUME NEW t \in Own(r, c), t \in Own(r, d) PROVE FALSE
  OBVIOUS
<1>1. <<c, t.outs>> \in tried[r] /\ <<d, t.outs>> \in tried[r]
  BY DEF Own, IInv, Sent
<1>2. <<c, t.outs>>[2] \cap <<d, t.outs>>[2] = {}
  BY <1>1, TriedApart DEF NoOutputTwice
<1>3. t.outs \in Pairs
  BY DEF Own, IInv, TypeOK, Tx
<1> QED
  BY <1>2, <1>3, PairsNotEmpty

\* The transactions of one call are finitely many.
LEMMA OwnFinite ==
  ASSUME SendConfig, NEW r \in Calls, NEW S, S \subseteq {t \in Tx : t.call = r}
  PROVE  IsFiniteSet(S) /\ Cardinality(S) \in Nat
<1>1. IsFiniteSet(Pairs)
  <2>1. IsFiniteSet(Outs)
    BY FS_Interval DEF SendConfig, Outs
  <2>2. IsFiniteSet(SUBSET Outs)
    BY <2>1, FS_SUBSET
  <2> QED
    BY <2>2, FS_Subset DEF Pairs
<1> DEFINE f == [t \in S |-> t.outs]
<1>2. f \in Injection(S, Pairs)
  <2>1. f \in [S -> Pairs]
    BY DEF Tx
  <2>2. ASSUME NEW s \in S, NEW t \in S, f[s] = f[t] PROVE s = t
    BY <2>2 DEF Tx
  <2> QED
    BY <2>1, <2>2 DEF Injection, IsInjective
<1>3. IsFiniteSet(S)
  BY <1>1, <1>2, FS_Injection
<1> QED
  BY <1>3, FS_CardinalityType

\* So are those that a node took.
LEMMA OwnTypes ==
  ASSUME TypeOK, SendConfig, NEW r \in Calls, NEW c \in Nodes
  PROVE  IsFiniteSet(Own(r, c)) /\ Cardinality(Own(r, c)) \in Nat
  BY OwnFinite DEF TypeOK, Own

\* And those that the first nodes took.
LEMMA OwnUpToTypes ==
  ASSUME TypeOK, SendConfig, NEW r \in Calls, NEW n \in 0 .. NumRpcs
  PROVE  /\ IsFiniteSet(OwnUpTo(r, n)) /\ Cardinality(OwnUpTo(r, n)) \in Nat
<1>1. ASSUME NEW t \in OwnUpTo(r, n) PROVE t \in Tx /\ t.call = r
  <2>1. PICK c \in 0 .. n - 1 : t \in taken[c]
    BY DEF OwnUpTo
  <2>2. c \in Nodes
    BY SendConfig DEF Nodes
  <2> QED
    BY <2>1, <2>2 DEF OwnUpTo, TypeOK
<1> QED
  BY <1>1, OwnFinite

\* The goroutines that are still to count are finitely many.
LEMMA CountingTypes ==
  ASSUME Counters, NEW r \in Calls, NEW c
  PROVE  IsFiniteSet(Counting(r, c)) /\ Cardinality(Counting(r, c)) \in Nat
<1>1. IsFiniteSet(Counting(r, c))
  BY FS_Subset DEF Counters, Counting
<1> QED
  BY <1>1, FS_CardinalityType

-----------------------------------------------------------------------------
\* A goroutine that sends belongs to a call that has dealt its outputs.
LEMMA FlightFacts ==
  ASSUME IInv, NEW r \in Calls, NEW f \in flight[r]
  PROVE  /\ f \in Flight /\ f.node \in Nodes /\ f.outs \in Pairs
         /\ pc[r] \in {"wait", "returned"}
BY DEF IInv, TypeOK, Untouched, Flight

\* What the goroutines that send do leaves the rest of the call alone.
LEMMA SendersKeep ==
  ASSUME IInv, NEW r \in Calls, pc[r] \in {"wait", "returned"},
         \A s \in Calls : s # r => flight'[s] = flight[s] /\ success'[s] = success[s],
         UNCHANGED <<usable, stopped, pc, count, todo, utxos, summed, all, at, pos,
                     tried, late>>
  PROVE  (Untouched /\ Collected /\ Walk /\ Late)'
<1>1. Untouched'
  BY DEF IInv, Untouched
<1>2. (Collected /\ Late)'
  BY DEF IInv, Collected, Late
<1>3. Walk'
  BY WalksKept, PassedKept DEF IInv, Walk
<1> QED
  BY <1>1, <1>2, <1>3

\* A delivery, whatever comes of it, keeps it: a goroutine that learns that
\* its transaction was taken brings along the transaction it may count.
LEMMA DeliverStep ==
  ASSUME IInv, NEW r \in Calls, NEW f \in flight[r], Deliver(r, f) PROVE IInv'
<1> DEFINE n == f.node
           t == [call |-> r, outs |-> f.outs]
           g == [f EXCEPT !.step = "read"]
<1>1. /\ f.step = "send"
      /\ UNCHANGED <<usable, stopped, pc, count, todo, utxos, summed, all, at, pos,
                     success, tried, late>>
  BY DEF Deliver, mainVars
<1>2. PICK G \in {{}, {g}} :
        /\ flight' = [flight EXCEPT ![r] = (@ \ {f}) \cup G]
        /\ \/ /\ f.outs \cap Claimed(n) = {}
              /\ taken' = [taken EXCEPT ![n] = @ \cup {t}]
           \/ G = {} /\ taken' = taken
  <2>1. {[f EXCEPT !.step = s] : s \in {"read"} \ {"over"}} = {g}
    OBVIOUS
  <2>2. {[f EXCEPT !.step = s] : s \in {"over"} \ {"over"}} = {}
    OBVIOUS
  <2> HIDE DEF g
  <2> QED
    BY <2>1, <2>2 DEF Deliver, AfterError
<1>3. /\ n \in Nodes /\ f.outs \in Pairs /\ t \in Tx /\ g \in Flight
      /\ g.node = n /\ g.outs = f.outs /\ g.step = "read"
      /\ pc[r] \in {"wait", "returned"}
  BY FlightFacts DEF Flight, Tx
<1>4. t.call = r /\ t.outs = f.outs
  OBVIOUS
<1> HIDE DEF g, t
<1>5. /\ flight'[r] = (flight[r] \ {f}) \cup G
      /\ \A s \in Calls : s # r => flight'[s] = flight[s] /\ success'[s] = success[s]
  BY <1>1, <1>2 DEF IInv, TypeOK
<1>6. /\ \A c \in Nodes : c # n => taken'[c] = taken[c]
      /\ taken'[n] = taken[n] \/ taken'[n] = taken[n] \cup {t}
  BY <1>2, <1>3 DEF IInv, TypeOK
<1>7. TypeOK'
  <2>1. flight[r] \in SUBSET Flight /\ taken[n] \in SUBSET Tx
    BY <1>3 DEF IInv, TypeOK
  <2>2. (flight[r] \ {f}) \cup G \in SUBSET Flight /\ taken[n] \cup {t} \in SUBSET Tx
    BY <1>2, <1>3, <2>1
  <2>3. flight' \in [Calls -> SUBSET Flight]
    BY <1>2, <2>2 DEF IInv, TypeOK
  <2>4. taken' \in [Nodes -> SUBSET Tx]
    BY <1>2, <2>2 DEF IInv, TypeOK
  <2> QED
    BY <1>1, <2>3, <2>4 DEF IInv, TypeOK
<1>8. (Untouched /\ Collected /\ Walk /\ Late)'
  BY <1>1, <1>3, <1>5, SendersKeep
<1>9. Sent'
  <2>1. <<n, f.outs>> \in tried[r]
    BY DEF IInv, Sent
  <2>2. ASSUME NEW s \in Calls, NEW h \in flight'[s]
        PROVE  <<h.node, h.outs>> \in tried[s]
    <3>1. CASE h \in flight[s]
      BY <3>1 DEF IInv, Sent
    <3>2. CASE h \notin flight[s]
      <4>1. s = r /\ h = g
        BY <1>2, <1>5, <2>2, <3>2
      <4> QED
        BY <1>3, <2>1, <4>1
    <3> QED
      BY <3>1, <3>2
  <2>3. ASSUME NEW c \in Nodes, NEW x \in taken'[c]
        PROVE  <<c, x.outs>> \in tried[x.call]
    <3>1. CASE x \in taken[c]
      BY <3>1 DEF IInv, Sent
    <3>2. CASE x \notin taken[c]
      <4>1. c = n /\ x = t
        BY <1>6, <2>3, <3>2
      <4> QED
        BY <1>4, <2>1, <4>1
    <3> QED
      BY <3>1, <3>2
  <2> QED
    BY <1>1, <2>2, <2>3 DEF Sent
<1>10. Counters'
  <2>1. ASSUME NEW s \in Calls PROVE IsFiniteSet(flight'[s])
    <3>1. IsFiniteSet(flight[s]) /\ IsFiniteSet(flight[r])
      BY DEF IInv, Counters
    <3>2. IsFiniteSet(flight[r] \ {f})
      BY <3>1, FS_RemoveElement
    <3>3. IsFiniteSet((flight[r] \ {f}) \cup {g})
      BY <3>2, FS_AddElement
    <3>4. (flight[r] \ {f}) \cup {} = flight[r] \ {f}
      OBVIOUS
    <3> QED
      BY <1>2, <1>5, <3>1, <3>2, <3>3, <3>4
  <2>2. ASSUME NEW s \in Calls, NEW c \in Nodes, s # r \/ c # n
        PROVE  CountsTaken(s, c)'
    <3>1. Own(s, c)' = Own(s, c)
      BY <1>4, <1>6, <2>2 DEF Own
    <3>2. Counting(s, c)' = Counting(s, c)
      BY <1>1, <1>2, <1>3, <1>5, <2>2 DEF Counting
    <3> QED
      BY <1>1, <3>1, <3>2 DEF IInv, Counters, CountsTaken
  <2>3. CountsTaken(r, n)'
    <3>1. CountsTaken(r, n) /\ success' = success
      BY <1>1, <1>3 DEF IInv, Counters
    <3>2. CASE G = {} /\ taken' = taken
      <4>1. Counting(r, n)' = Counting(r, n)
        BY <1>1, <1>5, <3>2 DEF Counting
      <4> QED
        BY <3>1, <3>2, <4>1, OwnKept DEF CountsTaken
    <3>3. CASE /\ f.outs \cap Claimed(n) = {}
               /\ taken' = [taken EXCEPT ![n] = @ \cup {t}]
      <4>1. t \notin Own(r, n) /\ Own(r, n)' = Own(r, n) \cup {t}
        <5>1. taken'[n] = taken[n] \cup {t}
          BY <1>3, <3>3 DEF IInv, TypeOK
        <5>2. t \notin taken[n]
          BY <1>3, <1>4, <3>3, PairsNotEmpty DEF Claimed
        <5> QED
          BY <1>4, <5>1, <5>2 DEF Own
      <4>2. /\ IsFiniteSet(Own(r, n)) /\ Cardinality(Own(r, n)) \in Nat
            /\ IsFiniteSet(Counting(r, n)) /\ Cardinality(Counting(r, n)) \in Nat
        BY <1>3, OwnTypes, CountingTypes, SendConfig DEF IInv
      <4>3. Cardinality(Own(r, n) \cup {t}) = Cardinality(Own(r, n)) + 1
        BY <4>1, <4>2, FS_AddElement
      <4>4. Counting(r, n)' \subseteq Counting(r, n) \cup {g}
        BY <1>2, <1>5 DEF Counting
      <4>5. /\ IsFiniteSet(Counting(r, n) \cup {g})
            /\ Cardinality(Counting(r, n) \cup {g}) <= Cardinality(Counting(r, n)) + 1
            /\ Cardinality(Counting(r, n) \cup {g}) \in Nat
        <5>1. /\ IsFiniteSet(Counting(r, n) \cup {g})
              /\ Cardinality(Counting(r, n) \cup {g}) =
                   IF g \in Counting(r, n) THEN Cardinality(Counting(r, n))
                   ELSE Cardinality(Counting(r, n)) + 1
          BY <4>2, FS_AddElement
        <5> QED
          BY <4>2, <5>1
      <4>6. /\ Cardinality(Counting(r, n)') <= Cardinality(Counting(r, n) \cup {g})
            /\ Cardinality(Counting(r, n)') \in Nat
        BY <4>4, <4>5, FS_Subset, FS_CardinalityType
      <4>7. Cardinality(Counting(r, n)') <= Cardinality(Counting(r, n)) + 1
        BY <4>2, <4>5, <4>6
      <4>8. Cardinality(Own(r, n)') = Cardinality(Own(r, n)) + 1
        BY <4>1, <4>3
      <4>9. success[r][n] \in Nat
        BY <1>3 DEF IInv, TypeOK
      <4>10. success'[r][n] + Cardinality(Counting(r, n)') <= Cardinality(Own(r, n)')
        BY <3>1, <4>2, <4>6, <4>7, <4>8, <4>9 DEF CountsTaken
      <4>11. ASSUME NEW h \in Counting(r, n)', h.step = "write"
             PROVE  h.seen + Cardinality(Counting(r, n)') <= Cardinality(Own(r, n)')
        <5>1. h \in Counting(r, n)
          BY <1>3, <4>4, <4>11
        <5>2. h.seen \in Nat
          BY <5>1 DEF Counting, IInv, TypeOK, Flight
        <5>3. h.seen + Cardinality(Counting(r, n)) <= Cardinality(Own(r, n))
          BY <3>1, <4>11, <5>1 DEF CountsTaken
        <5> QED
          BY <4>2, <4>6, <4>7, <4>8, <5>2, <5>3
      <4> QED
        BY <4>10, <4>11 DEF CountsTaken
    <3> QED
      BY <1>2, <3>2, <3>3
  <2> QED
    BY <2>1, <2>2, <2>3 DEF Counters
<1>11. Added'
  <2>1. ASSUME NEW s \in Calls
        PROVE  Cardinality(OwnUpTo(s, summed[s])) <= Cardinality(OwnUpTo(s, summed[s])')
    <3>1. \A c \in 0 .. summed[s] - 1 : c \in Nodes
      <4>1. summed[s] \in 0 .. NumRpcs /\ NumRpcs \in Nat
        BY SendConfig DEF IInv, TypeOK
      <4> QED
        BY <4>1 DEF Nodes
    <3>2. OwnUpTo(s, summed[s]) \subseteq OwnUpTo(s, summed[s])'
      BY <1>1, <1>6, <3>1 DEF OwnUpTo
    <3>3. OwnUpTo(s, summed[s])' \subseteq {x \in Tx : x.call = s}
      BY <1>1, <1>7, <3>1 DEF OwnUpTo, TypeOK
    <3>4. IsFiniteSet(OwnUpTo(s, summed[s])')
      BY <3>3, OwnFinite, SendConfig
    <3> QED
      BY <3>2, <3>4, FS_Subset
  <2>2. ASSUME NEW s \in Calls
        PROVE  /\ pc'[s] = "wait" => summed'[s] < NumRpcs
               /\ all'[s] <= Cardinality(OwnUpTo(s, summed[s])')
    <3>1. all[s] \in Nat /\ all[s] <= Cardinality(OwnUpTo(s, summed[s]))
      BY DEF IInv, TypeOK, Added
    <3>2. Cardinality(OwnUpTo(s, summed[s])) \in Nat
      BY OwnUpToTypes, SendConfig DEF IInv, TypeOK
    <3>3. Cardinality(OwnUpTo(s, summed[s])') \in Nat
      <4>1. OwnUpTo(s, summed[s])' \subseteq {x \in Tx : x.call = s}
        BY <1>1, <1>7, SendConfig DEF OwnUpTo, TypeOK, Nodes
      <4> QED
        BY <4>1, OwnFinite, SendConfig
    <3> QED
      BY <1>1, <2>1, <3>1, <3>2, <3>3 DEF IInv, Added
  <2> QED
    BY <1>1, <2>2 DEF Added
<1> QED
  BY <1>7, <1>8, <1>9, <1>10, <1>11 DEF IInv

\* Both halves of an increment keep it: a value that was read late is too
\* small, never too large.
LEMMA IncrementStep ==
  ASSUME IInv, NEW r \in Calls, NEW f \in flight[r], Increment(r, f) PROVE IInv'
<1> DEFINE n == f.node
           g == [f EXCEPT !.step = "write", !.seen = success[r][f.node]]
<1>1. UNCHANGED <<usable, taken, stopped, pc, count, todo, utxos, summed, all, at,
                  pos, tried, late>>
  BY DEF Increment, dbVars, mainVars
<1>2. \/ /\ f.step = "read" /\ success' = success
         /\ flight' = [flight EXCEPT ![r] = (@ \ {f}) \cup {g}]
      \/ /\ f.step = "write"
         /\ flight' = [flight EXCEPT ![r] = @ \ {f}]
         /\ success' = [success EXCEPT ![r][n] = f.seen + 1]
  BY DEF Increment
<1>3. /\ n \in Nodes /\ f.seen \in Nat /\ success[r][n] \in Nat
      /\ pc[r] \in {"wait", "returned"}
  BY FlightFacts DEF Flight, IInv, TypeOK
<1>4. /\ g \in Flight /\ g.node = n /\ g.outs = f.outs /\ g.step = "write"
      /\ g.seen = success[r][n]
  BY <1>3, FlightFacts DEF Flight
<1> HIDE DEF g
<1>5. \A s \in Calls : s # r => flight'[s] = flight[s] /\ success'[s] = success[s]
  BY <1>2 DEF IInv, TypeOK
<1>6. flight'[r] = (flight[r] \ {f}) \cup {g} \/ flight'[r] = flight[r] \ {f}
  BY <1>2 DEF IInv, TypeOK
<1>7. \A c \in Nodes : c # n => success'[r][c] = success[r][c]
  BY <1>2 DEF IInv, TypeOK
<1>8. TypeOK'
  <2>1. flight' \in [Calls -> SUBSET Flight]
    <3>1. flight[r] \ {f} \in SUBSET Flight /\ (flight[r] \ {f}) \cup {g} \in SUBSET Flight
      BY <1>4 DEF IInv, TypeOK
    <3> QED
      BY <1>2, <3>1 DEF IInv, TypeOK
  <2>2. success' \in [Calls -> [Nodes -> Nat]]
    <3>1. f.seen + 1 \in Nat /\ success \in [Calls -> [Nodes -> Nat]]
      BY <1>3 DEF IInv, TypeOK
    <3>2. CASE success' = success
      BY <3>1, <3>2
    <3>3. CASE success' = [success EXCEPT ![r][n] = f.seen + 1]
      BY <1>3, <3>1, <3>3
    <3> QED
      BY <1>2, <3>2, <3>3
  <2> QED
    BY <1>1, <2>1, <2>2 DEF IInv, TypeOK
<1>9. (Untouched /\ Collected /\ Walk /\ Late)'
  BY <1>1, <1>3, <1>5, SendersKeep
<1>10. Sent'
  <2>1. ASSUME NEW s \in Calls, NEW h \in flight'[s]
        PROVE  <<h.node, h.outs>> \in tried[s]
    <3>1. CASE h \in flight[s]
      BY <3>1 DEF IInv, Sent
    <3>2. CASE h \notin flight[s]
      <4>1. s = r /\ h = g
        BY <1>5, <1>6, <2>1, <3>2
      <4>2. <<n, f.outs>> \in tried[r]
        BY DEF IInv, Sent
      <4> QED
        BY <1>4, <4>1, <4>2
    <3> QED
      BY <3>1, <3>2
  <2> QED
    BY <1>1, <2>1 DEF IInv, Sent
<1>11. Counters'
  <2>1. IsFiniteSet(flight[r] \ {f}) /\ IsFiniteSet((flight[r] \ {f}) \cup {g})
    <3>1. IsFiniteSet(flight[r])
      BY DEF IInv, Counters
    <3>2. IsFiniteSet(flight[r] \ {f})
      BY <3>1, FS_RemoveElement
    <3> QED
      BY <3>2, FS_AddElement
  <2>2. ASSUME NEW s \in Calls PROVE IsFiniteSet(flight'[s])
    BY <1>5, <1>6, <2>1 DEF IInv, Counters
  <2>3. ASSUME NEW s \in Calls, NEW c \in Nodes, s # r \/ c # n
        PROVE  CountsTaken(s, c)'
    <3>1. Counting(s, c)' = Counting(s, c)
      BY <1>4, <1>5, <1>6, <2>3 DEF Counting
    <3>2. success'[s][c] = success[s][c]
      BY <1>5, <1>7, <2>3
    <3> QED
      BY <1>1, <3>1, <3>2, OwnKept DEF IInv, Counters, CountsTaken
  <2>4. CountsTaken(r, n)'
    <3> DEFINE C == Counting(r, n)
               D == Counting(r, n)'
               o == Cardinality(Own(r, n))
    <3>1. /\ IsFiniteSet(C) /\ Cardinality(C) \in Nat /\ o \in Nat
          /\ Cardinality(Own(r, n)') = o
      BY <1>1, <1>3, OwnTypes, OwnKept, CountingTypes, SendConfig DEF IInv
    <3>2. /\ success[r][n] + Cardinality(C) <= o
          /\ \A h \in C : h.step = "write" => h.seen + Cardinality(C) <= o
      BY <1>3 DEF IInv, Counters, CountsTaken
    <3>3. f \in C /\ \A h \in C : h.seen \in Nat
      BY <1>2 DEF Counting, IInv, TypeOK, Flight
    <3>4. IsFiniteSet(C \ {f}) /\ Cardinality(C \ {f}) = Cardinality(C) - 1
      BY <3>1, <3>3, FS_RemoveElement
    <3>5. Cardinality(C) - 1 \in Nat
      BY <3>4, FS_CardinalityType
    <3>6. CASE /\ f.step = "read" /\ success' = success
               /\ flight'[r] = (flight[r] \ {f}) \cup {g}
      <4>1. D = (C \ {f}) \cup {g}
        BY <1>4, <3>6 DEF Counting
      <4> HIDE DEF C, D, o
      <4>2. Cardinality(D) \in Nat /\ Cardinality(D) <= Cardinality(C)
        <5>1. Cardinality((C \ {f}) \cup {g}) =
                IF g \in C \ {f} THEN Cardinality(C \ {f}) ELSE Cardinality(C \ {f}) + 1
          BY <3>4, FS_AddElement
        <5> QED
          BY <3>1, <3>4, <3>5, <4>1, <5>1
      <4>3. success'[r][n] + Cardinality(D) <= o
        BY <1>3, <3>1, <3>2, <3>6, <4>2
      <4>4. ASSUME NEW h \in D, h.step = "write" PROVE h.seen + Cardinality(D) <= o
        <5>1. CASE h = g
          BY <1>3, <1>4, <3>1, <3>2, <4>2, <5>1
        <5>2. CASE h \in C
          BY <3>1, <3>2, <3>3, <4>2, <4>4, <5>2
        <5> QED
          BY <4>1, <5>1, <5>2
      <4> QED
        BY <3>1, <4>3, <4>4 DEF CountsTaken, D
    <3>7. CASE /\ f.step = "write" /\ flight'[r] = flight[r] \ {f}
               /\ success'[r][n] = f.seen + 1
      <4>1. D = C \ {f}
        BY <3>7 DEF Counting
      <4> HIDE DEF C, D, o
      <4>2. Cardinality(D) = Cardinality(C) - 1
        BY <3>4, <4>1
      <4>3. success'[r][n] + Cardinality(D) <= o
        BY <1>3, <3>1, <3>2, <3>3, <3>7, <4>2
      <4>4. ASSUME NEW h \in D, h.step = "write" PROVE h.seen + Cardinality(D) <= o
        BY <3>1, <3>2, <3>3, <4>1, <4>2, <4>4
      <4> QED
        BY <3>1, <4>3, <4>4 DEF CountsTaken, D
    <3> QED
      <4>1. flight \in [Calls -> SUBSET Flight] /\ success \in [Calls -> [Nodes -> Nat]]
        BY DEF IInv, TypeOK
      <4> QED
        BY <1>2, <1>3, <3>6, <3>7, <4>1
  <2> QED
    BY <2>2, <2>3, <2>4 DEF Counters
<1>12. Added'
  BY <1>1, OwnKept DEF IInv, Added
<1> QED
  BY <1>8, <1>9, <1>10, <1>11, <1>12 DEF IInv

\* Adding up one more counter keeps it: the nodes have at least as many
\* transactions of the call, and no two of them the same one.
LEMMA SumStep == ASSUME IInv, NEW r \in Calls, Sum(r) PROVE IInv'
<1> DEFINE n == summed[r]
<1>1. /\ pc[r] = "wait" /\ \A c \in Nodes : at[r][c] = "done"
      /\ all' = [all EXCEPT ![r] = @ + success[r][n]]
      /\ summed' = [summed EXCEPT ![r] = @ + 1]
      /\ pc' = [pc EXCEPT ![r] = IF summed'[r] = NumRpcs THEN "returned" ELSE @]
      /\ UNCHANGED <<usable, taken, stopped, count, todo, utxos, at, pos, flight,
                     success, tried, late>>
  BY DEF Sum, WaitOver, dbVars, goVars
<1>2. n \in Nodes /\ n \in Nat /\ n + 1 \in 0 .. NumRpcs /\ success[r][n] \in Nat
  <2>1. n \in 0 .. NumRpcs /\ n < NumRpcs /\ NumRpcs \in Nat
    BY <1>1, SendConfig DEF IInv, TypeOK, Added
  <2>2. n \in Nodes
    BY <2>1 DEF Nodes
  <2> QED
    BY <2>1, <2>2 DEF IInv, TypeOK
<1>3. /\ summed'[r] = n + 1 /\ all'[r] = all[r] + success[r][n]
      /\ pc'[r] = IF n + 1 = NumRpcs THEN "returned" ELSE "wait"
      /\ \A s \in Calls : s # r =>
           pc'[s] = pc[s] /\ summed'[s] = summed[s] /\ all'[s] = all[s]
  BY <1>1 DEF IInv, TypeOK
<1>4. TypeOK'
  <2>1. pc' \in [Calls -> {"new", "nocoin", "panicked", "collect", "deal", "wait",
                           "returned"}]
    BY <1>1 DEF IInv, TypeOK
  <2>2. all' \in [Calls -> Nat] /\ summed' \in [Calls -> 0 .. NumRpcs]
    BY <1>1, <1>2 DEF IInv, TypeOK
  <2> QED
    BY <1>1, <2>1, <2>2 DEF IInv, TypeOK
<1>5. Untouched'
  BY <1>1, <1>3 DEF IInv, Untouched
<1>6. (Collected /\ Sent /\ Late)'
  <2>1. Collected'
    BY <1>1, <1>3 DEF IInv, Collected
  <2>2. (Sent /\ Late)'
    BY <1>1 DEF IInv, Sent, Late
  <2> QED
    BY <2>1, <2>2
<1>7. Walk'
  <2>1. \A s \in Calls : Passed(s)'
    BY <1>1, PassedKept DEF IInv, Walk
  <2>2. ASSUME NEW s \in Calls, NEW c \in Nodes, s # r PROVE Walks(s, c)'
    BY <1>1, <1>3, <2>2, WalksKept DEF IInv, Walk
  <2>3. ASSUME NEW c \in Nodes PROVE Walks(r, c)'
    BY <1>1, SlicesKept DEF IInv, Walk, Walks
  <2> QED
    BY <2>1, <2>2, <2>3 DEF Walk
<1>8. Counters'
  BY <1>1, CountersKept DEF IInv
<1>9. Added'
  <2> DEFINE A == OwnUpTo(r, n)
             B == Own(r, n)
  <2>1. OwnUpTo(r, n + 1) = A \cup B
    <3>1. 0 .. (n + 1) - 1 = (0 .. n - 1) \cup {n}
      BY <1>2
    <3> QED
      BY <3>1 DEF OwnUpTo, Own
  <2>2. A \cap B = {}
    <3> SUFFICES ASSUME NEW t \in A, t \in B PROVE FALSE
      OBVIOUS
    <3>1. PICK c \in 0 .. n - 1 : t \in taken[c]
      BY DEF OwnUpTo
    <3>2. c \in Nodes /\ c # n
      BY <1>2, SendConfig DEF Nodes
    <3>3. t \in Own(r, c)
      BY <3>1 DEF Own, OwnUpTo
    <3> QED
      BY <1>2, <3>2, <3>3, OwnApart
  <2>3. /\ IsFiniteSet(A) /\ Cardinality(A) \in Nat
        /\ IsFiniteSet(B) /\ Cardinality(B) \in Nat
    <3>1. n \in 0 .. NumRpcs
      BY DEF IInv, TypeOK
    <3> QED
      BY <1>2, <3>1, OwnTypes, OwnUpToTypes, SendConfig DEF IInv
  <2>4. all[r] \in Nat /\ all[r] <= Cardinality(A)
    BY DEF IInv, TypeOK, Added
  <2>5. success[r][n] <= Cardinality(B)
    <3>1. Cardinality(Counting(r, n)) \in Nat
      BY CountingTypes DEF IInv
    <3>2. success[r][n] + Cardinality(Counting(r, n)) <= Cardinality(B)
      BY <1>2 DEF IInv, Counters, CountsTaken
    <3> QED
      BY <1>2, <2>3, <3>1, <3>2
  <2> HIDE DEF A, B
  <2>6. Cardinality(A \cup B) = Cardinality(A) + Cardinality(B)
    <3>1. Cardinality(A \cup B) =
            Cardinality(A) + Cardinality(B) - Cardinality(A \cap B)
      BY <2>3, FS_Union
    <3>2. Cardinality(A \cap B) = 0
      BY <2>2, FS_EmptySet
    <3> QED
      BY <2>3, <3>1, <3>2
  <2>7. all'[r] <= Cardinality(OwnUpTo(r, n + 1))
    <3>1. all'[r] = all[r] + success[r][n] /\ success[r][n] \in Nat
      BY <1>2, <1>3
    <3>2. Cardinality(OwnUpTo(r, n + 1)) = Cardinality(A) + Cardinality(B)
      BY <2>1, <2>6
    <3> QED
      BY <2>3, <2>4, <2>5, <3>1, <3>2
  <2>8. pc'[r] = "wait" => summed'[r] < NumRpcs
    BY <1>2, <1>3, SendConfig
  <2>9. OwnUpTo(r, summed[r])' = OwnUpTo(r, n + 1)
    BY <1>1, <1>3 DEF OwnUpTo
  <2>10. ASSUME NEW s \in Calls, s # r
         PROVE  OwnUpTo(s, summed[s])' = OwnUpTo(s, summed[s])
    BY <1>1, <1>3, <2>10 DEF OwnUpTo
  <2> QED
    BY <1>3, <2>7, <2>8, <2>9, <2>10 DEF IInv, Added
<1> QED
  BY <1>4, <1>5, <1>6, <1>7, <1>8, <1>9 DEF IInv

\* Every step keeps the invariant.
LEMMA NextIInv == IInv /\ [Next]_vars => IInv'
<1> SUFFICES ASSUME IInv, [Next]_vars PROVE IInv'
  OBVIOUS
<1>1. CASE UNCHANGED vars
  <2>1. UNCHANGED <<usable, taken, stopped, pc, count, todo, utxos, summed, all, at,
                    pos, flight, success, tried, late>>
    BY <1>1 DEF vars, dbVars, mainVars, goVars
  <2>2. (TypeOK /\ Untouched /\ Collected /\ Sent /\ Late)'
    <3>1. TypeOK'
      BY <2>1 DEF IInv, TypeOK
    <3>2. (Untouched /\ Collected)'
      BY <2>1 DEF IInv, Untouched, Collected
    <3>3. (Sent /\ Late)'
      BY <2>1 DEF IInv, Sent, Late
    <3> QED
      BY <3>1, <3>2, <3>3
  <2>3. Walk'
    BY <2>1, WalksKept, PassedKept DEF IInv, Walk
  <2>4. (Counters /\ Added)'
    BY <2>1, CountersKept, OwnKept DEF IInv, Added
  <2> QED
    BY <2>2, <2>3, <2>4 DEF IInv
<1>2. CASE \E r \in Calls : Call(r)
  BY <1>2, SendStep, CollectStep, DealStep, TopStep, BuildStep, SumStep DEF Call
<1>3. CASE \E r \in Calls : Answers(r)
  BY <1>3, DeliverStep, IncrementStep DEF Answers
<1>4. CASE Stop \/ Sync
  BY <1>4, StopStep, SyncStep
<1> QED
  BY <1>1, <1>2, <1>3, <1>4 DEF Next

\* The invariant holds for any calls, clients, outputs and counts.
THEOREM Invariant == Spec => []IInv
  BY InitIInv, NextIInv, PTL DEF Spec

\* Every variable of the engine has its type.
THEOREM TypeCorrect == Spec => []TypeOK
  BY Invariant, PTL DEF IInv

\* One call never puts an output into two transactions, neither of one
\* client nor of two (presstest.go:107-115, 144).
THEOREM NoneTwice == Spec => []NoOutputTwice
  BY Invariant, TriedApart, PTL

\* Transactions that conflict on a node or between nodes come from different
\* calls (presstest.go:77-84).
THEOREM OnlyCalls == Spec => []OnlyCallsConflict
<1>1. IInv => OnlyCallsConflict
  <2> SUFFICES ASSUME IInv, NEW c \in Nodes, NEW d \in Nodes, NEW s \in taken[c],
                      NEW t \in taken[d], s # t, s.call = t.call
               PROVE  s.outs \cap t.outs = {}
    BY DEF OnlyCallsConflict
  <2>1. s \in Tx /\ t \in Tx
    BY DEF IInv, TypeOK
  <2>2. s.outs # t.outs /\ s.call \in Calls
    BY <2>1 DEF Tx
  <2>3. <<c, s.outs>> \in tried[s.call] /\ <<d, t.outs>> \in tried[s.call]
    BY DEF IInv, Sent
  <2>4. <<c, s.outs>>[2] \cap <<d, t.outs>>[2] = {}
    BY <2>2, <2>3, TriedApart DEF NoOutputTwice
  <2> QED
    BY <2>4
<1> QED
  BY <1>1, Invariant, PTL

\* After a stop a goroutine starts at most the one transaction that it was
\* building (presstest.go:145-149).
THEOREM OneAfterStop == Spec => []AtMostOneAfterStop
<1>1. IInv => AtMostOneAfterStop
  BY DEF IInv, Late, AtMostOneAfterStop
<1> QED
  BY <1>1, Invariant, PTL

\* A call never reports more transactions than the nodes took from it,
\* however its increments and its sum interleave (presstest.go:120-128,
\* 187-196).
THEOREM NeverTooMany == Spec => []NeverOverReports
<1>1. IInv => NeverOverReports
  <2> SUFFICES ASSUME IInv, NEW r \in Calls
               PROVE  all[r] <= Cardinality({t \in UNION {taken[c] : c \in Nodes} :
                                               t.call = r})
    BY DEF NeverOverReports
  <2> DEFINE A == OwnUpTo(r, summed[r])
             T == {t \in UNION {taken[c] : c \in Nodes} : t.call = r}
  <2>1. summed[r] \in 0 .. NumRpcs /\ NumRpcs \in Nat
    BY SendConfig DEF IInv, TypeOK
  <2>2. A \subseteq T
    BY <2>1 DEF OwnUpTo, Nodes
  <2>3. T \subseteq {t \in Tx : t.call = r}
    BY DEF IInv, TypeOK
  <2>4. IsFiniteSet(T) /\ Cardinality(T) \in Nat
    BY <2>3, OwnFinite, SendConfig
  <2>5. Cardinality(A) \in Nat
    BY <2>1, OwnUpToTypes, SendConfig DEF IInv
  <2>6. all[r] \in Nat /\ all[r] <= Cardinality(A)
    BY DEF IInv, TypeOK, Added
  <2> HIDE DEF A, T
  <2>7. Cardinality(A) <= Cardinality(T)
    BY <2>2, <2>4, FS_Subset
  <2>8. all[r] <= Cardinality(T)
    BY <2>4, <2>5, <2>6, <2>7
  <2> QED
    BY <2>8 DEF T
<1> QED
  BY <1>1, Invariant, PTL

-----------------------------------------------------------------------------
\* Every output is dealt to some client.
LEMMA Dealt ==
  ASSUME TypeOK, NEW r \in Calls, NEW i \in 1 .. Len(utxos[r])
  PROVE  \E c \in Nodes : First(r, c) < i /\ i <= Last(r, c)
<1> DEFINE k == OneCount(r)
           Found == {n \in Nat : n < NumRpcs /\ i <= n * k =>
                       \E c \in Nodes : c * k < i /\ i <= (c + 1) * k /\ c + 1 < NumRpcs}
<1>1. /\ NumRpcs \in Nat /\ NumRpcs > 0 /\ 0 \in Nodes /\ NumRpcs - 1 \in Nodes
      /\ i \in Nat /\ i > 0
  BY SendConfig DEF Nodes, TypeOK
<1>2. k \in Nat
  BY <1>1, ChunkBounds, SendConfig
<1> HIDE DEF k
<1>3. 0 \in Found
  BY <1>1, <1>2
<1>4. ASSUME NEW n \in Nat, n \in Found PROVE n + 1 \in Found
  <2> SUFFICES ASSUME n + 1 < NumRpcs, i <= (n + 1) * k
               PROVE  \E c \in Nodes : c * k < i /\ i <= (c + 1) * k /\ c + 1 < NumRpcs
    OBVIOUS
  <2>1. CASE i <= n * k
    BY <1>1, <1>4, <2>1
  <2>2. CASE ~ (i <= n * k)
    <3>1. n \in Nodes /\ n * k < i
      BY <1>1, <1>2, <2>2 DEF Nodes
    <3> QED
      BY <3>1
  <2> QED
    BY <2>1, <2>2
<1>5. Nat \subseteq Found
  BY <1>3, <1>4, NatSetInduction
<1>6. CASE i <= (NumRpcs - 1) * k
  <2>1. NumRpcs - 1 \in Nat /\ NumRpcs - 1 < NumRpcs
    BY <1>1
  <2>2. PICK c \in Nodes : c * k < i /\ i <= (c + 1) * k /\ c + 1 < NumRpcs
    BY <1>5, <1>6, <2>1
  <2>3. c # NumRpcs - 1
    BY <1>1, <2>2 DEF Nodes
  <2> QED
    BY <2>2, <2>3 DEF First, Last, k
<1>7. CASE ~ (i <= (NumRpcs - 1) * k)
  <2>1. (NumRpcs - 1) * k < i
    BY <1>1, <1>2, <1>7
  <2> QED
    BY <1>1, <2>1 DEF First, Last, k
<1> QED
  BY <1>6, <1>7

\* A number is even or odd.
LEMMA Halves == ASSUME NEW n \in Nat PROVE \E m \in Nat : n = 2 * m \/ n = 2 * m + 1
<1>1. n \div 2 \in Nat /\ (n = 2 * (n \div 2) \/ n = 2 * (n \div 2) + 1)
  OBVIOUS
<1> QED
  BY <1>1

\* The pairs a call has tried are finitely many.
LEMMA TriedFinite ==
  ASSUME TypeOK, NEW r \in Calls
  PROVE  IsFiniteSet(tried[r]) /\ Cardinality(tried[r]) \in Nat
<1>1. IsFiniteSet(Outs) /\ IsFiniteSet(Nodes)
  BY FS_Interval, SendConfig DEF Outs, Nodes
<1>2. IsFiniteSet(SUBSET Outs)
  BY <1>1, FS_SUBSET
<1>3. IsFiniteSet(Pairs)
  BY <1>2, FS_Subset DEF Pairs
<1>4. IsFiniteSet(Nodes \X Pairs)
  BY <1>1, <1>3, FS_Product
<1>5. tried[r] \in SUBSET (Nodes \X Pairs)
  BY DEF TypeOK
<1>6. IsFiniteSet(tried[r])
  BY <1>4, <1>5, FS_Subset
<1> QED
  BY <1>6, FS_CardinalityType

\* Positions that are the first of a pair the call has tried, or the second.
Used(r, e) ==
  {i \in 1 .. Len(utxos[r]) :
     \E c \in Nodes, m \in Nat : i = First(r, c) + 2 * m + e /\ 2 * m + 2 <= pos[r][c]}

\* There are no more of each than pairs were tried.
LEMMA UsedBound ==
  ASSUME IInv, NEW r \in Calls, NEW e \in {1, 2}
  PROVE  /\ IsFiniteSet(Used(r, e))
         /\ Cardinality(Used(r, e)) \in Nat
         /\ Cardinality(Used(r, e)) <= Cardinality(tried[r])
<1> DEFINE U == Used(r, e)
           Is(t, i) == \E m \in Nat : /\ i = First(r, t[1]) + 2 * m + e
                                      /\ First(r, t[1]) + 2 * m + 2 <= Len(utxos[r])
                                      /\ t[2] = PairAfter(r, First(r, t[1]) + 2 * m)
           f == [i \in U |-> CHOOSE t \in tried[r] : Is(t, i)]
<1>1. ASSUME NEW i \in U PROVE \E t \in tried[r] : Is(t, i)
  <2>1. PICK c \in Nodes, m \in Nat :
          i = First(r, c) + 2 * m + e /\ 2 * m + 2 <= pos[r][c]
    BY DEF Used
  <2> DEFINE t == <<c, PairAfter(r, First(r, c) + 2 * m)>>
  <2>2. t \in tried[r] /\ t[1] = c /\ t[2] = PairAfter(r, First(r, c) + 2 * m)
    BY <2>1 DEF IInv, Walk, Passed
  <2>3. /\ First(r, c) \in Nat /\ Last(r, c) \in Nat /\ Last(r, c) <= Len(utxos[r])
        /\ Len(utxos[r]) \in Nat /\ pos[r][c] \in Nat
    <3>1. utxos[r] \in Seq(Outs) /\ pos[r][c] \in Nat
      BY SendConfig DEF IInv, TypeOK
    <3>2. First(r, c) \in Nat /\ Last(r, c) \in Nat /\ Last(r, c) <= Len(utxos[r])
      BY ChunkBounds, SendConfig DEF IInv
    <3> QED
      BY <3>1, <3>2
  <2>4. pos[r][c] <= Last(r, c) - First(r, c)
    BY <2>1, <2>3 DEF IInv, Walk, Walks
  <2>5. First(r, c) + 2 * m + 2 <= Len(utxos[r])
    BY <2>1, <2>3, <2>4
  <2> HIDE DEF t
  <2>6. Is(t, i)
    BY <2>1, <2>2, <2>5
  <2> QED
    BY <2>2, <2>6
<1>2. \A i \in U : f[i] \in tried[r] /\ Is(f[i], i)
  BY <1>1
<1>3. ASSUME NEW i \in U, NEW j \in U, f[i] = f[j] PROVE i = j
  <2> DEFINE t == f[i]
             a == First(r, t[1])
  <2>1. t \in tried[r] /\ Is(t, i) /\ Is(t, j)
    BY <1>2, <1>3
  <2> HIDE DEF f, t
  <2>2. PICK m \in Nat : /\ i = a + 2 * m + e /\ a + 2 * m + 2 <= Len(utxos[r])
                         /\ t[2] = PairAfter(r, a + 2 * m)
    BY <2>1
  <2>3. PICK n \in Nat : /\ j = a + 2 * n + e /\ a + 2 * n + 2 <= Len(utxos[r])
                         /\ t[2] = PairAfter(r, a + 2 * n)
    BY <2>1
  <2>4. a \in Nat /\ t[2] # {} /\ Len(utxos[r]) \in Nat
    <3>1. t[1] \in Nodes /\ t[2] \in Pairs /\ Len(utxos[r]) \in Nat
      BY <2>1 DEF IInv, TypeOK
    <3> QED
      BY <3>1, PairsNotEmpty, ChunkBounds, SendConfig DEF IInv
  <2> HIDE DEF a
  <2>5. a + 2 * m \in Nat /\ a + 2 * n \in Nat
    BY <2>4
  <2>6. m = n
    <3>1. CASE m < n
      <4>1. (a + 2 * m) + 2 <= a + 2 * n
        BY <2>4, <3>1
      <4> QED
        BY <2>2, <2>3, <2>4, <2>5, <4>1, PlacesApart DEF IInv
    <3>2. CASE n < m
      <4>1. (a + 2 * n) + 2 <= a + 2 * m
        BY <2>4, <3>2
      <4> QED
        BY <2>2, <2>3, <2>4, <2>5, <4>1, PlacesApart DEF IInv
    <3> QED
      BY <3>1, <3>2
  <2> QED
    BY <2>2, <2>3, <2>6
<1>4. f \in Injection(U, tried[r])
  <2>1. f \in [U -> tried[r]]
    BY <1>2
  <2> HIDE DEF f, U
  <2> QED
    BY <1>3, <2>1 DEF Injection, IsInjective
<1>5. IsFiniteSet(tried[r])
  BY TriedFinite DEF IInv
<1> HIDE DEF f, U
<1>6. IsFiniteSet(U) /\ Cardinality(U) <= Cardinality(tried[r])
  BY <1>4, <1>5, FS_Injection
<1> QED
  BY <1>6, FS_CardinalityType DEF U

\* What is left over when the goroutines are through is at most one output
\* for each of them.
LEMMA Leftover == IInv => LeftoverBound
<1> SUFFICES ASSUME IInv, NEW r \in Calls, pc[r] = "returned", ~stopped
             PROVE  Len(utxos[r]) - 2 * Cardinality(tried[r]) <= NumRpcs
  BY DEF LeftoverBound
<1> DEFINE n == Len(utxos[r])
           A == Used(r, 1)
           B == Used(r, 2)
           R == (1 .. n) \ (A \cup B)
           f == [i \in R |-> CHOOSE c \in Nodes : i = First(r, c) + pos[r][c] + 1]
<1>1. n \in Nat /\ NumRpcs \in Nat
  BY SendConfig DEF IInv, TypeOK
<1>2. ASSUME NEW i \in R PROVE \E c \in Nodes : i = First(r, c) + pos[r][c] + 1
  <2>1. PICK c \in Nodes : First(r, c) < i /\ i <= Last(r, c)
    BY Dealt DEF IInv
  <2> DEFINE a == First(r, c)
             l == Last(r, c)
             p == pos[r][c]
  <2>2. /\ a \in Nat /\ l \in Nat /\ p \in Nat /\ i \in Nat /\ l <= n
        /\ a < i /\ i <= l
    BY <1>1, <2>1, ChunkBounds, SendConfig DEF IInv, TypeOK
  <2>3. PICK k \in Nat : p = 2 * k
    BY DEF IInv, Walk, Walks
  <2>4. p + 2 > l - a
    BY DEF IInv, Walk, Walks
  <2>5. \A m \in Nat : 2 * m + 2 <= p => i # a + 2 * m + 1 /\ i # a + 2 * m + 2
    BY DEF Used
  <2> HIDE DEF n, A, B, R, a, l, p
  <2>6. i - a - 1 \in Nat /\ i - a - 1 < p + 1
    BY <2>2, <2>4
  <2>7. PICK m \in Nat : i - a - 1 = 2 * m \/ i - a - 1 = 2 * m + 1
    BY <2>6, Halves
  <2>8. CASE i - a - 1 = 2 * m
    <3>1. i = a + 2 * m + 1
      BY <2>2, <2>8
    <3>2. ~ (2 * m + 2 <= p)
      BY <2>5, <3>1
    <3>3. m = k
      BY <2>3, <2>6, <2>8, <3>2
    <3> QED
      BY <2>2, <2>3, <3>1, <3>3 DEF a, p
  <2>9. CASE i - a - 1 = 2 * m + 1
    <3>1. i = a + 2 * m + 2
      BY <2>2, <2>9
    <3>2. ~ (2 * m + 2 <= p)
      BY <2>5, <3>1
    <3> QED
      BY <2>2, <2>3, <2>6, <2>9, <3>2
  <2> QED
    BY <2>7, <2>8, <2>9
<1>3. \A i \in R : f[i] \in Nodes /\ i = First(r, f[i]) + pos[r][f[i]] + 1
  BY <1>2
<1>4. f \in Injection(R, Nodes)
  <2>1. f \in [R -> Nodes]
    BY <1>3
  <2>2. \A i, j \in R : f[i] = f[j] => i = j
    BY <1>3
  <2> HIDE DEF f, R
  <2> QED
    BY <2>1, <2>2 DEF Injection, IsInjective
<1>5. IsFiniteSet(Nodes) /\ Cardinality(Nodes) = NumRpcs
  BY SendConfig, FS_Interval DEF Nodes
<1> DEFINE a == Cardinality(A)
           b == Cardinality(B)
           d == Cardinality(R)
           t == Cardinality(tried[r])
<1>6. /\ IsFiniteSet(A) /\ a \in Nat /\ a <= t
      /\ IsFiniteSet(B) /\ b \in Nat /\ b <= t /\ t \in Nat
  BY UsedBound, TriedFinite DEF IInv
<1>7. IsFiniteSet(R) /\ d <= NumRpcs /\ d \in Nat
  <2> HIDE DEF R, f
  <2>1. IsFiniteSet(R) /\ d <= Cardinality(Nodes)
    BY <1>4, <1>5, FS_Injection
  <2> QED
    BY <1>5, <2>1, FS_CardinalityType
<1>8. (A \cup B) \cup R = 1 .. n
  BY DEF Used
<1>9. Cardinality(1 .. n) = n
  BY <1>1, FS_Interval
<1> HIDE DEF A, B, R
<1>10. IsFiniteSet(A \cup B) /\ Cardinality(A \cup B) <= a + b
  <2>1. IsFiniteSet(A \cup B) /\ Cardinality(A \cup B) = a + b - Cardinality(A \cap B)
    BY <1>6, FS_Union
  <2>2. Cardinality(A \cap B) \in Nat
    BY <1>6, FS_Intersection, FS_CardinalityType
  <2> QED
    BY <1>6, <2>1, <2>2
<1>11. Cardinality((A \cup B) \cup R) <= a + b + d
  <2>1. Cardinality((A \cup B) \cup R) =
          Cardinality(A \cup B) + d - Cardinality((A \cup B) \cap R)
    BY <1>7, <1>10, FS_Union
  <2>2. Cardinality((A \cup B) \cap R) \in Nat /\ Cardinality(A \cup B) \in Nat
    BY <1>10, FS_Intersection, FS_CardinalityType
  <2> QED
    BY <1>6, <1>7, <1>10, <2>1, <2>2
<1> HIDE DEF n, a, b, d, t
<1>12. n <= a + b + d
  BY <1>8, <1>9, <1>11
<1>13. n - 2 * t <= NumRpcs
  BY <1>1, <1>6, <1>7, <1>12
<1> QED
  BY <1>13 DEF n, t

\* A call that ran to its end has tried all its outputs but one for each
\* client (presstest.go:107-115, 144).
THEOREM AllButOneEach == Spec => []LeftoverBound
  BY Invariant, Leftover, PTL

-----------------------------------------------------------------------------
\* What the call itself has left to do: its place, then addresses to query or
\* counters to read.
CallToGo(r) ==
  CASE pc[r] = "new"     -> <<4, 0, 0>>
    [] pc[r] = "collect" -> <<3, Cardinality(todo[r]), 0>>
    [] pc[r] = "deal"    -> <<2, 0, 0>>
    [] pc[r] = "wait"    -> <<1, NumRpcs - summed[r], 0>>
    [] OTHER             -> <<0, 0, 0>>

\* What its goroutine for client c has left to do: outputs, then its place
\* with a pair of them.
Place(p) ==
  CASE p = "top"   -> 2
    [] p = "build" -> 1
    [] OTHER       -> 0
ClientToGo(r, c) == <<Last(r, c) - First(r, c) - pos[r][c], Place(at[r][c]), 0>>

\* Both are measures.
LEMMA ToGoIsMeasure ==
  ASSUME IInv, NEW r \in Calls
  PROVE  /\ CallToGo(r) \in Measures
         /\ \A c \in Nodes : ClientToGo(r, c) \in Measures
<1>1. TypeOK /\ IsFiniteSet(Addresses) /\ NumRpcs \in Nat
  BY SendConfig DEF IInv
<1>2. Cardinality(todo[r]) \in Nat
  <2>1. todo[r] \subseteq Addresses
    BY <1>1 DEF TypeOK
  <2> QED
    BY <1>1, <2>1, FS_Subset, FS_CardinalityType
<1>3. NumRpcs - summed[r] \in Nat
  <2>1. summed[r] \in 0 .. NumRpcs
    BY <1>1 DEF TypeOK
  <2> QED
    BY <1>1, <2>1
<1>4. CallToGo(r) \in Measures
  BY <1>2, <1>3 DEF CallToGo, Measures
<1>5. ASSUME NEW c \in Nodes PROVE ClientToGo(r, c) \in Measures
  <2>1. First(r, c) \in Nat /\ Last(r, c) \in Nat /\ First(r, c) <= Last(r, c)
    BY <1>1, SendConfig, ChunkBounds
  <2>2. pos[r][c] \in Nat /\ (pos[r][c] = 0 \/ pos[r][c] <= Last(r, c) - First(r, c))
    BY <1>1 DEF IInv, TypeOK, Walk, Walks
  <2>3. Last(r, c) - First(r, c) - pos[r][c] \in Nat
    BY <2>1, <2>2
  <2>4. Place(at[r][c]) \in Nat
    BY DEF Place
  <2> QED
    BY <2>3, <2>4 DEF ClientToGo, Measures
<1> QED
  BY <1>4, <1>5

\* The call's own steps bring it closer to its return.
LEMMA CallCloser ==
  ASSUME IInv, NEW r \in Calls, Send(r) \/ Collect(r) \/ Deal(r) \/ Sum(r)
  PROVE  Closer(CallToGo(r)', CallToGo(r))
<1>1. TypeOK
  BY DEF IInv
<1>2. CASE Send(r)
  <2>1. pc[r] = "new" /\ pc'[r] \in {"nocoin", "panicked", "collect"}
    <3>1. pc[r] = "new"
      BY <1>2 DEF Send
    <3>2. PICK n \in Counts, known \in BOOLEAN :
            pc' = [pc EXCEPT ![r] = IF ~known THEN "nocoin"
                                    ELSE IF ~KeyLoaded THEN "panicked"
                                    ELSE "collect"]
      BY <1>2 DEF Send
    <3> QED
      BY <1>1, <3>1, <3>2 DEF TypeOK
  <2> QED
    BY <2>1 DEF CallToGo, Closer
<1>3. CASE Collect(r)
  <2>1. PICK a \in todo[r] : todo' = [todo EXCEPT ![r] = @ \ {a}]
    BY <1>3 DEF Collect
  <2>2. pc[r] = "collect" /\ pc'[r] \in {"collect", "panicked", "deal"}
    BY <1>1, <1>3 DEF Collect, TypeOK
  <2>3. Cardinality(todo'[r]) < Cardinality(todo[r])
    <3>1. todo'[r] = todo[r] \ {a} /\ todo[r] \subseteq Addresses
      BY <1>1, <2>1 DEF TypeOK
    <3>2. IsFiniteSet(todo[r])
      BY <3>1, SendConfig, FS_Subset
    <3>3. Cardinality(todo'[r]) = Cardinality(todo[r]) - 1 /\ Cardinality(todo[r]) \in Nat
      BY <2>1, <3>1, <3>2, FS_RemoveElement, FS_CardinalityType
    <3> QED
      BY <3>3
  <2> QED
    BY <2>2, <2>3 DEF CallToGo, Closer
<1>4. CASE Deal(r)
  <2>1. pc[r] \in {"deal", "collect"} /\ pc'[r] = "wait"
    BY <1>1, <1>4 DEF Deal, TypeOK
  <2> QED
    BY <2>1 DEF CallToGo, Closer
<1>5. CASE Sum(r)
  <2>1. /\ pc[r] = "wait" /\ pc'[r] \in {"wait", "returned"}
        /\ summed'[r] = summed[r] + 1 /\ summed[r] \in Nat /\ NumRpcs \in Nat
    BY <1>1, <1>5, SendConfig DEF Sum, TypeOK
  <2> QED
    BY <2>1 DEF CallToGo, Closer
<1> QED
  BY <1>2, <1>3, <1>4, <1>5

\* The client goroutine's own steps bring it closer to its end.
LEMMA ClientCloser ==
  ASSUME IInv, NEW r \in Calls, NEW c \in Nodes, Top(r, c) \/ Build(r, c)
  PROVE  Closer(ClientToGo(r, c)', ClientToGo(r, c))
<1>1. /\ TypeOK /\ utxos'[r] = utxos[r]
      /\ at \in [Calls -> [Nodes -> {"off", "top", "build", "done"}]]
      /\ pos \in [Calls -> [Nodes -> Nat]]
  BY DEF IInv, TypeOK, Top, Build, mainVars
<1>2. /\ First(r, c)' = First(r, c) /\ Last(r, c)' = Last(r, c)
      /\ First(r, c) \in Nat /\ Last(r, c) \in Nat
  BY <1>1, SlicesKept, SendConfig, ChunkBounds
<1>3. CASE Top(r, c)
  <2>1. at[r][c] = "top" /\ at'[r][c] \in {"build", "done"} /\ pos'[r][c] = pos[r][c]
    BY <1>1, <1>3 DEF Top
  <2> QED
    BY <1>1, <1>2, <2>1 DEF ClientToGo, Place, Closer
<1>4. CASE Build(r, c)
  <2>1. pos'[r][c] = pos[r][c] + 2 /\ pos[r][c] \in Nat
    BY <1>1, <1>4 DEF Build
  <2> QED
    BY <1>2, <2>1 DEF ClientToGo, Closer
<1> QED
  BY <1>3, <1>4

\* The steps of others leave both alone.
LEMMA OthersLeaveAlone ==
  ASSUME IInv, [Next]_vars, NEW r \in Calls
  PROVE  /\ \/ Send(r) \/ Collect(r) \/ Deal(r) \/ Sum(r)
            \/ CallToGo(r)' = CallToGo(r)
         /\ \A c \in Nodes : at[r][c] # "off" =>
              \/ Top(r, c) \/ Build(r, c)
              \/ ClientToGo(r, c)' = ClientToGo(r, c)
<1>1. TypeOK /\ Untouched
  BY DEF IInv
<1>2. \/ Send(r) \/ Collect(r) \/ Deal(r) \/ Sum(r)
      \/ /\ pc'[r] = pc[r] /\ todo'[r] = todo[r] /\ summed'[r] = summed[r]
  <2>1. ASSUME NEW q \in Calls, q # r, Send(q) \/ Collect(q) \/ Deal(q) \/ Sum(q)
        PROVE  pc'[r] = pc[r] /\ todo'[r] = todo[r] /\ summed'[r] = summed[r]
    BY <1>1, <2>1 DEF TypeOK, Send, Collect, Deal, Sum
  <2>2. CASE UNCHANGED mainVars
    BY <2>2 DEF mainVars
  <2> QED
    BY <2>1, <2>2 DEF Next, Call, Answers, Top, Build, Deliver, Increment, Stop,
       Sync, vars
<1>3. CallToGo(r)' = CallToGo(r)
        \/ Send(r) \/ Collect(r) \/ Deal(r) \/ Sum(r)
  BY <1>2 DEF CallToGo
<1>4. ASSUME NEW c \in Nodes, at[r][c] # "off"
      PROVE  \/ Top(r, c) \/ Build(r, c)
             \/ ClientToGo(r, c)' = ClientToGo(r, c)
  <2>1. pc[r] \in {"wait", "returned"}
    BY <1>1, <1>4 DEF Untouched
  <2>2. utxos'[r] = utxos[r]
    <3>1. ASSUME NEW q \in Calls, Collect(q) PROVE utxos'[r] = utxos[r]
      BY <1>1, <2>1, <3>1 DEF TypeOK, Collect
    <3> QED
      BY <3>1 DEF Next, Call, Answers, Send, Deal, Sum, Top, Build, Deliver,
         Increment, Stop, Sync, vars, mainVars
  <2>3. Top(r, c) \/ Build(r, c) \/ (at'[r][c] = at[r][c] /\ pos'[r][c] = pos[r][c])
    <3>1. ASSUME NEW q \in Calls, Deal(q)
          PROVE  at'[r][c] = at[r][c] /\ pos'[r][c] = pos[r][c]
      <4>1. q # r
        BY <2>1, <3>1 DEF Deal
      <4> QED
        BY <1>1, <3>1, <4>1 DEF TypeOK, Deal
    <3>2. ASSUME NEW q \in Calls, NEW d \in Nodes, Top(q, d) \/ Build(q, d),
                 ~ (q = r /\ d = c)
          PROVE  at'[r][c] = at[r][c] /\ pos'[r][c] = pos[r][c]
      BY <1>1, <3>2 DEF TypeOK, Top, Build
    <3>3. CASE UNCHANGED <<at, pos>>
      BY <3>3
    <3> QED
      BY <3>1, <3>2, <3>3 DEF Next, Call, Answers, Send, Collect, Sum, Deliver,
         Increment, Stop, Sync, vars, goVars
  <2>4. First(r, c)' = First(r, c) /\ Last(r, c)' = Last(r, c)
    BY <2>2, SlicesKept
  <2> QED
    BY <2>3, <2>4 DEF ClientToGo
<1> QED
  BY <1>3, <1>4

(* Every step of a call brings it closer to its return, every step of one  *)
(* of its client goroutines brings that closer to its end, and no step of  *)
(* others, no answer and no stop takes them back; by NoEndlessDescent they *)
(* take finitely many steps.  This is what ReturnsUnanswered rests on      *)
(* besides fairness (presstest.go:77-135, 143-150).                        *)
THEOREM SendGetsOn ==
  Spec =>
    /\ [](\A r \in Calls : /\ CallToGo(r) \in Measures
                           /\ \A c \in Nodes : ClientToGo(r, c) \in Measures)
    /\ [][\A r \in Calls :
           IF Send(r) \/ Collect(r) \/ Deal(r) \/ Sum(r)
           THEN Closer(CallToGo(r)', CallToGo(r))
           ELSE CallToGo(r)' = CallToGo(r)]_vars
    /\ [][\A r \in Calls, c \in Nodes : at[r][c] # "off" =>
           IF Top(r, c) \/ Build(r, c)
           THEN Closer(ClientToGo(r, c)', ClientToGo(r, c))
           ELSE ClientToGo(r, c)' = ClientToGo(r, c)]_vars
<1> DEFINE Measured == \A r \in Calls :
             /\ CallToGo(r) \in Measures
             /\ \A c \in Nodes : ClientToGo(r, c) \in Measures
           CallsOn == \A r \in Calls :
             IF Send(r) \/ Collect(r) \/ Deal(r) \/ Sum(r)
             THEN Closer(CallToGo(r)', CallToGo(r))
             ELSE CallToGo(r)' = CallToGo(r)
           ClientsOn == \A r \in Calls, c \in Nodes : at[r][c] # "off" =>
             IF Top(r, c) \/ Build(r, c)
             THEN Closer(ClientToGo(r, c)', ClientToGo(r, c))
             ELSE ClientToGo(r, c)' = ClientToGo(r, c)
<1>1. IInv => Measured
  BY ToGoIsMeasure
<1>2. IInv /\ [Next]_vars => CallsOn
  BY CallCloser, OthersLeaveAlone
<1>3. IInv /\ [Next]_vars => ClientsOn
  BY ClientCloser, OthersLeaveAlone
<1> QED
  BY <1>1, <1>2, <1>3, Invariant, PTL DEF Spec
=============================================================================
