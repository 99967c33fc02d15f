--------------------------- MODULE PaymentsProofs ---------------------------
(***************************************************************************)
(* Safety of the UTXO operations, for any number of calls, outputs and     *)
(* addresses and any amounts.                                              *)
(***************************************************************************)
EXTENDS Payments, SequenceTheorems, Sets

\* The types of the variables of a call.
CallRecord ==
  [op : {"none", "split", "transferAll", "transfer", "merger"},
   at : Ended \cup {"new", "balance", "round", "send", "mark"},
   amount : 0 .. Modulus - 1, times : Int, left : Int, round : Nat,
   todo : SUBSET Addresses, list : Seq(Addresses) \cup Seq(Outs),
   capacity : Nat, index : Nat, balance : Nat, success : Nat, all : Nat,
   tx : SentTx \cup {NoTx}, marks : SUBSET Outs]

Types ==
  /\ usable \subseteq Outs /\ unset \subseteq Outs
  /\ sent \subseteq SentTx /\ IsFiniteSet(sent)
  /\ answered \subseteq taken /\ taken \subseteq sent
  /\ call \in [Calls -> CallRecord]

\* Where a call of each kind may be.
Places(c) ==
  /\ c.op = "none" => c = Idle
  /\ c.op = "split" =>
       c.at \in {"panicked", "returned", "nocoin", "round", "send", "mark"}
  /\ c.op = "transferAll" =>
       c.at \in {"panicked", "balance", "round", "refused", "send", "mark", "returned"}
  /\ c.op = "transfer" =>
       c.at \in {"panicked", "balance", "round", "refused", "send", "failed", "returned"}
  /\ c.op = "merger" =>
       c.at \in {"nocoin", "round", "panicked", "failed", "send", "returned"}
  /\ c.at = "mark" <=> c.marks # {}

\* The part of a list that batch h is about.
Part(l, h) == {l[k] : k \in {k \in 1 .. Len(l) : h * Batch < k /\ k <= (h + 1) * Batch}}

\* The loops' variables.
Loops(c) ==
  /\ c.op = "split" /\ c.at \in {"round", "send", "mark"} =>
       TimeCount(c) \in 0 .. Batch
  /\ c.op = "transferAll" =>
       /\ c.list \in Seq(Addresses) /\ IsInjective(c.list)
       /\ c.times = Rounds(Len(c.list)) /\ c.left = Rem(Len(c.list), Batch)
       /\ c.round <= c.times /\ (c.at = "balance" => c.round = 0)
       /\ c.index = IF c.round < c.times THEN c.round * Batch ELSE Len(c.list)
       /\ c.success <= c.index
  /\ c.op = "merger" =>
       /\ c.list \in Seq(Outs) /\ IsInjective(c.list)

\* What the inputs of a transaction are worth is what it pays and the fee.
Keeps(t) ==
  /\ t.pays > 0 => t.amount > 0
  /\ t.pays * t.amount + t.change + t.fee \in FloatTotals(t.ins)

\* A transaction that call r may hand over.
Sound(r, t) == t \in SentTx /\ t.call = r /\ t.ins # {} /\ Keeps(t)

(* The transaction at hand of a call that handed over S: it is the next.   *)
AtHand(r, c, S) ==
  c.at = "send" =>
    /\ Sound(r, c.tx)
    /\ \A t \in S : t.no # c.tx.no
    /\ c.op = "split" =>
         /\ c.tx.pays = TimeCount(c)
         /\ c.tx.no[1] = c.round /\ c.tx.no[2] \notin c.todo
    /\ c.op = "transferAll" =>
         /\ c.round > 0 /\ c.tx.no = <<c.round - 1, From>>
         /\ c.tx.to = Part(c.list, c.round - 1)
         /\ c.success <= (c.round - 1) * Batch
    /\ c.op = "merger" =>
         /\ c.tx.no = <<c.round, From>> /\ c.tx.ins \subseteq Part(c.list, c.round)
         /\ c.tx.change + c.tx.fee = Worth(c.tx.ins)

\* The transactions that a call handed over, each with a number of its own.
Numbered(c, S) ==
  /\ \A s, t \in S : s.no = t.no => s = t
  /\ c.op = "none" => S = {}
  /\ c.op = "split" => \A t \in S :
       t.no[1] <= c.round /\ (t.no[1] = c.round => t.no[2] \notin c.todo)
  /\ c.op = "transferAll" => \A t \in S :
       /\ t.no[1] < c.round /\ t.no[2] = From
       /\ t.to = Part(c.list, t.no[1])
  /\ c.op = "transfer" /\ c.at \notin {"returned", "failed"} => S = {}
  /\ c.op = "merger" /\ c.at \in {"round", "send"} => \A t \in S :
       t.no[1] < c.round /\ t.no[2] = From
         /\ t.ins \subseteq Part(c.list, t.no[1])

\* A TransferAll that has a transaction can pay for the rest as well.
Affordable(c, S) ==
  c.op = "transferAll" /\ (S # {} \/ c.at = "send") =>
    /\ c.at # "refused" /\ c.amount \in 1 .. MaxAmount
    /\ c.round < c.times => c.balance > c.amount * Batch + PreFees

\* What a call has counted when the transactions A of those were answered.
Counted(c, S, A) ==
  /\ c.op = "split" => c.success = SumFunctionOnSet([t \in A |-> t.pays], A)
  /\ c.op = "merger" => c.all = SumFunctionOnSet([t \in A |-> Worth(t.ins)], A)
  /\ c.op = "transferAll" => \A t \in S :
       /\ t \in A => \A k \in 1 .. Len(c.list) :
            k <= (t.no[1] + 1) * Batch => k <= c.success
       /\ t \notin A => c.at = "returned" /\ c.success <= t.no[1] * Batch

(* What a call has spent and what it is about to spend; U are the usable   *)
(* rows, N those that could not be marked.                                 *)
Spent(c, A, U, N) ==
  /\ c.at = "mark" => c.tx \in A /\ c.marks \subseteq c.tx.ins
  /\ c.op \in {"split", "transferAll"} => \A t \in A :
       /\ t.ins \cap U \subseteq N \cup c.marks
       /\ c.at = "send" => t.ins \cap c.tx.ins \subseteq N

CallInv(r, c, S, A, U, N) ==
  /\ Places(c) /\ Loops(c) /\ AtHand(r, c, S) /\ Numbered(c, S)
  /\ Affordable(c, S) /\ Counted(c, S, A) /\ Spent(c, A, U, N)

IInv ==
  /\ Types
  /\ \A t \in sent : Keeps(t)
  /\ \A r \in Calls : CallInv(r, call[r], Of(r, sent), Of(r, answered), usable, unset)

-----------------------------------------------------------------------------
(***************************************************************************)
(* Numbers: what outputs are worth, fees, rounds and uint64.               *)
(***************************************************************************)

\* Sets of outputs are finite and worth something.
LEMMA OutsFacts ==
  ASSUME NEW S \in SUBSET Outs
  PROVE  /\ IsFiniteSet(S) /\ Cardinality(S) \in Nat /\ Cardinality(S) <= NumOuts
         /\ \A o \in S : Amount[o] \in Nat /\ Amount[o] <= MaxAmount
         /\ Worth(S) \in Nat
<1>1. IsFiniteSet(Outs) /\ Cardinality(Outs) = NumOuts
  BY FS_Interval, LedgerConfig DEF Outs
<1>2. IsFiniteSet(S) /\ Cardinality(S) <= NumOuts
  BY <1>1, FS_Subset
<1>3. Cardinality(S) \in Nat
  BY <1>2, FS_CardinalityType
<1>4. \A o \in S : Amount[o] \in Nat /\ Amount[o] <= MaxAmount
  BY LedgerConfig
<1>5. Worth(S) \in Nat
  BY <1>2, <1>4, SumNat DEF Worth
<1> QED
  BY <1>2, <1>3, <1>4, <1>5

\* No output is worth nothing, one more is worth its amount more.
LEMMA WorthAdd ==
  /\ Worth({}) = 0
  /\ \A S \in SUBSET Outs : \A o \in Outs \ S :
       Worth(S \cup {o}) = Worth(S) + Amount[o]
<1>1. Worth({}) = 0
  BY SumEmpty DEF Worth
<1>2. ASSUME NEW S \in SUBSET Outs, NEW o \in Outs \ S
      PROVE  Worth(S \cup {o}) = Worth(S) + Amount[o]
  <2>1. IsFiniteSet(S) /\ \A x \in S \cup {o} : Amount[x] \in Nat
    BY OutsFacts, LedgerConfig
  <2>2. SumFunctionOnSet(Amount, S \cup {o}) = SumFunctionOnSet(Amount, S) + Amount[o]
    BY <2>1, SumAdd
  <2> QED
    BY <2>2 DEF Worth
<1> QED
  BY <1>1, <1>2

\* The largest of a set of outputs.
LEMMA Largest ==
  ASSUME NEW S \in SUBSET Outs, S # {}
  PROVE  \E m \in S : \A k \in S : k <= m
<1> DEFINE B == {n \in Nat : \A k \in S : k <= n}
<1>1. NumOuts \in B
  BY LedgerConfig DEF Outs
<1>2. PICK m \in B : \A n \in B : m <= n
  BY <1>1, Smallest
<1>3. m \in S
  <2>1. SUFFICES ASSUME m \notin S PROVE FALSE
    OBVIOUS
  <2>2. \A k \in S : k <= m - 1 /\ k \in Nat /\ k >= 1
    BY <1>2, <2>1 DEF Outs
  <2>3. m - 1 \in B
    BY <1>2, <2>2
  <2> QED
    BY <1>2, <2>3
<1> QED
  BY <1>2, <1>3

\* The first rows worth an amount are worth at most one row more than that.
LEMMA FirstWorthFacts ==
  ASSUME NEW S \in SUBSET Outs, NEW need \in Nat
  PROVE  /\ FirstWorth(S, need) \subseteq S
         /\ Worth(FirstWorth(S, need)) <= need + MaxAmount
<1> DEFINE UpTo(o) == {p \in S : p <= o}
           enough == {o \in S : Worth(UpTo(o)) >= need}
<1>0. MaxAmount \in Nat
  BY LedgerConfig
<1>10. \A o \in S : o \in Nat
  BY DEF Outs
<1>1. CASE enough = {}
  <2>1. FirstWorth(S, need) = S
    BY <1>1 DEF FirstWorth
  <2>2. CASE S = {}
    BY <1>0, <2>1, <2>2, WorthAdd
  <2>3. CASE S # {}
    <3>1. PICK m \in S : \A k \in S : k <= m
      BY <2>3, Largest
    <3>2. UpTo(m) = S
      BY <3>1
    <3>3. ~ (Worth(S) >= need)
      BY <1>1, <3>1, <3>2
    <3>4. Worth(S) \in Nat
      BY OutsFacts
    <3> QED
      BY <1>0, <2>1, <3>3, <3>4
  <2> QED
    BY <2>2, <2>3
<1>2. CASE enough # {}
  <2> DEFINE m == Min(enough)
             T == UpTo(m) \ {m}
  <2>1. m \in enough /\ \A k \in enough : m <= k
    <3>1. enough \in SUBSET Nat
      BY <1>10
    <3> HIDE DEF enough
    <3>2. \E x \in enough : \A k \in enough : x <= k
      BY <1>2, <3>1, Smallest
    <3> QED
      BY <3>2 DEF Min
  <2>2. FirstWorth(S, need) = UpTo(m)
    BY <1>2 DEF FirstWorth
  <2> HIDE DEF m
  <2>3. m \in Outs /\ T \in SUBSET Outs /\ UpTo(m) = T \cup {m} /\ m \notin T
    BY <2>1 DEF Outs
  <2>4. Worth(UpTo(m)) = Worth(T) + Amount[m]
    BY <2>3, WorthAdd
  <2>5. Worth(T) <= need /\ Worth(T) \in Nat
    <3>1. Worth(T) \in Nat
      BY <2>3, OutsFacts
    <3>2. CASE T = {}
      BY <3>1, <3>2, WorthAdd
    <3>3. CASE T # {}
      <4>1. PICK n \in T : \A k \in T : k <= n
        BY <2>3, <3>3, Largest
      <4>2. n \in S /\ n \in Nat /\ m \in Nat /\ n < m
        BY <1>10, <2>1, <4>1
      <4>3. UpTo(n) = T
        <5>1. ASSUME NEW k \in S PROVE k <= n <=> (k <= m /\ k # m)
          BY <1>10, <4>1, <4>2
        <5> QED
          BY <5>1
      <4>5. n \notin enough
        BY <2>1, <4>2
      <4>4. ~ (Worth(T) >= need)
        BY <4>2, <4>3, <4>5
      <4> QED
        BY <3>1, <4>4
    <3> QED
      BY <3>2, <3>3
  <2>6. Amount[m] \in Nat /\ Amount[m] <= MaxAmount
    BY <2>3, LedgerConfig
  <2>7. Worth(UpTo(m)) <= need + MaxAmount
    <3> HIDE DEF T
    <3> QED
      BY <1>0, <2>4, <2>5, <2>6
  <2> QED
    BY <2>2, <2>7
<1> QED
  BY <1>1, <1>2

\* Products of natural numbers grow with their factors.
LEMMA TimesGrows ==
  ASSUME NEW a \in Nat, NEW b \in Nat, NEW n \in Nat, a <= b
  PROVE  /\ a * n \in Nat /\ n * a \in Nat /\ a * n = n * a
         /\ a * n <= b * n /\ n * a <= n * b
  OBVIOUS

\* A number of outputs are worth at most as many times the largest amount.
LEMMA WorthBound ==
  ASSUME NEW S \in SUBSET Outs
  PROVE  Worth(S) <= Cardinality(S) * MaxAmount
<1> DEFINE Small(T) == Worth(T) <= Cardinality(T) * MaxAmount
           Sizes == {n \in Nat : \A T \in SUBSET Outs : Cardinality(T) = n => Small(T)}
<1>0. MaxAmount \in Nat
  BY LedgerConfig
<1>1. 0 \in Sizes
  <2>1. ASSUME NEW T \in SUBSET Outs, Cardinality(T) = 0 PROVE Small(T)
    <3>1. T = {}
      BY <2>1, OutsFacts, FS_EmptySet
    <3> QED
      BY <1>0, <2>1, <3>1, WorthAdd
  <2> QED
    BY <2>1
<1>2. ASSUME NEW n \in Nat, n \in Sizes PROVE n + 1 \in Sizes
  <2>1. ASSUME NEW T \in SUBSET Outs, Cardinality(T) = n + 1 PROVE Small(T)
    <3>1. IsFiniteSet(T) /\ T # {}
      BY <1>2, <2>1, OutsFacts, FS_EmptySet
    <3>2. PICK o \in T : TRUE
      BY <3>1
    <3> DEFINE U == T \ {o}
    <3>3. U \in SUBSET Outs /\ o \in Outs /\ o \notin U /\ U \cup {o} = T
      OBVIOUS
    <3>4. Cardinality(U) = n
      BY <1>2, <2>1, <3>1, <3>2, FS_RemoveElement
    <3> HIDE DEF U
    <3>5. Worth(T) = Worth(U) + Amount[o]
      BY <3>3, WorthAdd
    <3>6. Worth(U) <= n * MaxAmount /\ Worth(U) \in Nat
      BY <1>2, <3>3, <3>4, OutsFacts
    <3>7. Amount[o] \in Nat /\ Amount[o] <= MaxAmount
      BY <3>3, LedgerConfig
    <3>8. (n + 1) * MaxAmount = n * MaxAmount + MaxAmount /\ n * MaxAmount \in Nat
      BY <1>0, <1>2
    <3>9. Worth(T) <= (n + 1) * MaxAmount
      BY <1>0, <3>5, <3>6, <3>7, <3>8
    <3> QED
      BY <2>1, <3>9
  <2> QED
    BY <1>2, <2>1
<1>3. Nat \subseteq Sizes
  <2> HIDE DEF Sizes
  <2> QED
    BY <1>1, <1>2, NatSetInduction
<1> QED
  BY <1>3, OutsFacts

\* A batch is about at most Batch entries of its list.
LEMMA PartFacts ==
  ASSUME NEW X, NEW l \in Seq(X), NEW h \in Nat
  PROVE  /\ Part(l, h) \subseteq X /\ IsFiniteSet(Part(l, h))
         /\ Cardinality(Part(l, h)) \in Nat /\ Cardinality(Part(l, h)) <= Batch
<1> DEFINE a == h * Batch
           K == {k \in 1 .. Len(l) : a < k /\ k <= (h + 1) * Batch}
           f == [k \in K |-> l[k]]
<1>1. a \in Nat /\ Batch \in Nat /\ (h + 1) * Batch = a + Batch
  BY PaymentsConfig
<1>2. Part(l, h) = {l[k] : k \in K}
  BY DEF Part
<1>3. \A k \in K : l[k] \in X
  OBVIOUS
<1>4. f \in Surjection(K, Part(l, h))
  BY <1>2 DEF Surjection
<1> HIDE DEF a
<1>5. K \in SUBSET (a + 1 .. a + Batch)
  BY <1>1
<1>6. IsFiniteSet(a + 1 .. a + Batch) /\ Cardinality(a + 1 .. a + Batch) = Batch
  <2>1. a + 1 \in Int /\ a + Batch \in Int /\ (a + Batch) - (a + 1) + 1 = Batch
        /\ (a + 1 > a + Batch <=> Batch = 0)
    BY <1>1
  <2>2. /\ IsFiniteSet(a + 1 .. a + Batch)
        /\ Cardinality(a + 1 .. a + Batch) =
             IF a + 1 > a + Batch THEN 0 ELSE (a + Batch) - (a + 1) + 1
    BY <2>1, FS_Interval
  <2> QED
    BY <2>1, <2>2
<1> HIDE DEF K, f
<1>7. IsFiniteSet(K) /\ Cardinality(K) <= Batch
  BY <1>5, <1>6, FS_Subset
<1>8. IsFiniteSet(Part(l, h)) /\ Cardinality(Part(l, h)) <= Cardinality(K)
  BY <1>4, <1>7, FS_Surjection
<1>9. Cardinality(Part(l, h)) \in Nat /\ Cardinality(K) \in Nat
  BY <1>7, <1>8, FS_CardinalityType
<1> QED
  BY <1>1, <1>2, <1>3, <1>7, <1>8, <1>9

\* A later batch begins where an earlier one has ended.
LEMMA BatchesApart ==
  ASSUME NEW h \in Nat, NEW k \in Nat, h < k
  PROVE  /\ h * Batch \in Nat /\ k * Batch \in Nat
         /\ (h + 1) * Batch = h * Batch + Batch /\ (h + 1) * Batch <= k * Batch
<1>1. Batch \in Nat
  BY PaymentsConfig
<1>2. (h + 1) * Batch <= k * Batch
  BY <1>1, TimesGrows
<1> QED
  BY <1>1, <1>2

\* Two batches are about different entries.
LEMMA PartsApart ==
  ASSUME NEW X, NEW l \in Seq(X), IsInjective(l), NEW h \in Nat, NEW k \in Nat, h # k
  PROVE  Part(l, h) \cap Part(l, k) = {}
<1> SUFFICES ASSUME NEW x \in Part(l, h), x \in Part(l, k) PROVE FALSE
  OBVIOUS
<1>1. PICK i \in 1 .. Len(l) : x = l[i] /\ h * Batch < i /\ i <= (h + 1) * Batch
  BY DEF Part
<1>2. PICK j \in 1 .. Len(l) : x = l[j] /\ k * Batch < j /\ j <= (k + 1) * Batch
  BY DEF Part
<1>3. i = j
  <2>1. DOMAIN l = 1 .. Len(l)
    OBVIOUS
  <2> QED
    BY <1>1, <1>2, <2>1 DEF IsInjective
<1>4. h < k \/ k < h
  OBVIOUS
<1>5. CASE h < k
  <2>1. (h + 1) * Batch <= k * Batch /\ (h + 1) * Batch \in Int /\ k * Batch \in Int
    BY <1>5, BatchesApart, PaymentsConfig
  <2> QED
    BY <1>1, <1>2, <1>3, <2>1
<1>6. CASE k < h
  <2>1. (k + 1) * Batch <= h * Batch /\ (k + 1) * Batch \in Int /\ h * Batch \in Int
    BY <1>6, BatchesApart, PaymentsConfig
  <2> QED
    BY <1>1, <1>2, <1>3, <2>1
<1> QED
  BY <1>4, <1>5, <1>6

\* Division rounds towards zero, and leaves less than a batch.
LEMMA DivisionFacts ==
  ASSUME NEW n \in Nat, NEW m \in Nat \ {0}
  PROVE  /\ n \div m \in Nat /\ m * (n \div m) \in Nat
         /\ n - m * (n \div m) \in 0 .. m - 1
<1>1. n \div m \in Nat
  BY SMTT(20)
<1>2. m * (n \div m) <= n
  BY SMTT(20)
<1>3. n - m * (n \div m) = n % m
  BY SMTT(20)
<1>4. n % m \in 0 .. m - 1
  BY SMTT(20)
<1> QED
  BY <1>1, <1>2, <1>3, <1>4

\* How often and with how much left a list of n is gone through.
LEMMA RoundsFacts ==
  ASSUME NEW n \in Int
  PROVE  /\ Rounds(n) \in Int /\ Rem(n, Batch) \in Int
         /\ n < 0 => Rounds(n) <= 1
         /\ n >= 0 =>
              /\ Rounds(n) \in Nat /\ Rem(n, Batch) \in 0 .. Batch - 1
              /\ Rem(n, Batch) = 0 => n = Rounds(n) * Batch
              /\ Rem(n, Batch) # 0 =>
                   Rounds(n) > 0 /\ n = (Rounds(n) - 1) * Batch + Rem(n, Batch)
<1>1. Batch \in Nat \ {0}
  BY PaymentsConfig
<1>2. CASE n >= 0
  <2> DEFINE q == n \div Batch
             m == n - Batch * q
  <2>1. n \in Nat
    BY <1>2
  <2>2. q \in Nat /\ m \in 0 .. Batch - 1
    BY <1>1, <2>1, DivisionFacts
  <2>3. Rem(n, Batch) = m /\ Rounds(n) = q + (IF m # 0 THEN 1 ELSE 0)
    BY <1>2 DEF Rem, Rounds, Quot
  <2>4. n = Batch * q + m
    <3>1. Batch * q \in Int
      BY <1>1, <2>2
    <3> HIDE DEF q
    <3> QED
      BY <3>1
  <2> HIDE DEF q, m
  <2>5. Batch * q = q * Batch /\ q * Batch \in Nat
    BY <1>1, <2>2
  <2>6. CASE m = 0
    BY <2>1, <2>2, <2>3, <2>4, <2>5, <2>6
  <2>7. CASE m # 0
    <3>1. Rounds(n) = q + 1 /\ Rounds(n) - 1 = q
      BY <2>2, <2>3, <2>7
    <3> QED
      BY <1>1, <2>1, <2>2, <2>3, <2>4, <2>5, <2>7, <3>1
  <2> QED
    BY <2>6, <2>7
<1>3. CASE n < 0
  <2> DEFINE q == (-n) \div Batch
  <2>1. -n \in Nat
    BY <1>3
  <2>2. q \in Nat /\ Batch * q \in Nat
    BY <1>1, <2>1, DivisionFacts
  <2>3. Quot(n, Batch) = -q
    BY <1>3 DEF Quot
  <2> HIDE DEF q
  <2>4. Rem(n, Batch) \in Int
    BY <1>1, <2>2, <2>3 DEF Rem
  <2>5. Rounds(n) \in Int /\ Rounds(n) <= 1
    BY <2>2, <2>3 DEF Rounds
  <2> QED
    BY <1>3, <2>4, <2>5
<1> QED
  BY <1>2, <1>3

\* Arithmetic modulo 2^64 of numbers that are not far off.
LEMMA Wraps ==
  ASSUME NEW v \in Int, NEW m \in Nat \ {0}, -m <= v, v < m
  PROVE  v % m = IF v < 0 THEN v + m ELSE v
  BY SMTT(20)

\* int64(v) of an amount that a transaction may carry is that amount.
LEMMA Signed ==
  ASSUME NEW v \in 0 .. Modulus - 1
  PROVE  /\ Int64(v) \in Int
         /\ Int64(v) \in 1 .. MaxAmount => Int64(v) = v
         /\ v <= MaxAmount => Int64(v) = v
<1>1. Modulus \in Nat /\ MaxAmount \in Nat /\ Modulus \div 2 \in Int /\ MaxAmount < Modulus \div 2
  BY LedgerConfig, AmountsFit
<1> DEFINE half == Modulus \div 2
<1> HIDE DEF half
<1> QED
  BY <1>1 DEF Int64, half

\* The largest fee.
MaxFee == FeeIn * NumOuts + FeeOut * (Batch + 1) + FeeTx

\* The numbers that AmountsFit is about.
LEMMA Limits ==
  /\ Batch \in Nat \ {0} /\ MaxAmount \in Nat \ {0} /\ PreFees \in Nat /\ Modulus \in Nat \ {0}
  /\ OneAmount \in 1 .. MaxAmount /\ NumOuts \in Nat
  /\ FeeIn \in Nat /\ FeeOut \in Nat /\ FeeTx \in Nat \ {0}
  /\ Batch * MaxAmount \in Nat /\ MaxFee \in Nat
  /\ Batch * MaxAmount + MaxAmount + PreFees + MaxFee < Modulus
<1>1. /\ Batch \in Nat \ {0} /\ MaxAmount \in Nat \ {0} /\ PreFees \in Nat
      /\ Modulus \in Nat \ {0} /\ OneAmount \in 1 .. MaxAmount /\ NumOuts \in Nat
      /\ FeeIn \in Nat /\ FeeOut \in Nat /\ FeeTx \in Nat \ {0}
  BY LedgerConfig, PaymentsConfig, AmountsFit
<1>2. Batch * MaxAmount \in Nat /\ FeeIn * NumOuts \in Nat /\ FeeOut * (Batch + 1) \in Nat
  BY <1>1
<1>3. MaxFee \in Nat
  BY <1>1, <1>2 DEF MaxFee
<1>4. Batch * MaxAmount + MaxAmount + PreFees + MaxFee < Modulus
  <2>1. Batch * MaxAmount + MaxAmount + PreFees
          + FeeIn * NumOuts + FeeOut * (Batch + 1) + FeeTx < Modulus
    BY AmountsFit
  <2> DEFINE p == Batch * MaxAmount
             f == FeeIn * NumOuts
             g == FeeOut * (Batch + 1)
  <2>2. p \in Nat /\ f \in Nat /\ g \in Nat /\ MaxFee = f + g + FeeTx
        /\ p + MaxAmount + PreFees + f + g + FeeTx < Modulus
    BY <1>2, <2>1 DEF MaxFee
  <2> HIDE DEF p, f, g
  <2>3. p + MaxAmount + PreFees + MaxFee < Modulus
    BY <1>1, <2>2
  <2> QED
    BY <2>3 DEF p
<1> QED
  BY <1>1, <1>2, <1>3, <1>4

\* A fee is positive and not above the largest one.
LEMMA FessFacts ==
  ASSUME NEW ins \in SUBSET Outs, NEW n \in 0 .. Batch
  PROVE  Fess(ins, n) \in Nat /\ Fess(ins, n) > 0 /\ Fess(ins, n) <= MaxFee
<1> DEFINE k == Cardinality(ins)
<1>1. k \in Nat /\ k <= NumOuts
  BY OutsFacts
<1> HIDE DEF k
<1>2. /\ FeeIn \in Nat /\ FeeOut \in Nat /\ FeeTx \in Nat \ {0} /\ NumOuts \in Nat
      /\ n + 1 \in Nat /\ Batch + 1 \in Nat /\ n + 1 <= Batch + 1
  BY Limits
<1>3. FeeIn * k \in Nat /\ FeeIn * NumOuts \in Nat /\ FeeIn * k <= FeeIn * NumOuts
  BY <1>1, <1>2, TimesGrows
<1>4. /\ FeeOut * (n + 1) \in Nat /\ FeeOut * (Batch + 1) \in Nat
      /\ FeeOut * (n + 1) <= FeeOut * (Batch + 1)
  BY <1>2, TimesGrows
<1> DEFINE x == FeeIn * k
           y == FeeOut * (n + 1)
           f == FeeIn * NumOuts
           g == FeeOut * (Batch + 1)
<1>5. Fess(ins, n) = x + y + FeeTx /\ MaxFee = f + g + FeeTx
  BY DEF Fess, MaxFee, k
<1>6. x \in Nat /\ y \in Nat /\ f \in Nat /\ g \in Nat /\ x <= f /\ y <= g
  BY <1>3, <1>4
<1> HIDE DEF x, y, f, g
<1> QED
  BY <1>2, <1>5, <1>6

\* Payments of an amount that can be carried, and what is added, do not wrap.
LEMMA PaidFits ==
  ASSUME NEW a \in 0 .. MaxAmount, NEW n \in 0 .. Batch
  PROVE  /\ a * n \in Nat /\ a * n = n * a /\ a * n <= Batch * MaxAmount
         /\ Times(a, n) = a * n
         /\ Plus(a * n, PreFees) = a * n + PreFees
         /\ \A f \in 0 .. MaxFee : Plus(a * n, f) = a * n + f
<1>1. a * n \in Nat /\ a * n = n * a /\ a * n <= MaxAmount * n
  BY Limits, TimesGrows
<1>2. MaxAmount * n <= MaxAmount * Batch /\ MaxAmount * Batch = Batch * MaxAmount
      /\ MaxAmount * n \in Nat /\ MaxAmount * Batch \in Nat
  BY Limits, TimesGrows
<1> DEFINE p == a * n
           b == Batch * MaxAmount
<1>3. p \in Nat /\ b \in Nat /\ p <= b
  BY <1>1, <1>2
<1>4. b + MaxAmount + PreFees + MaxFee < Modulus
  BY Limits
<1>5. p = a * n /\ b = Batch * MaxAmount
  OBVIOUS
<1> HIDE DEF p, b
<1>6. p < Modulus /\ p + PreFees < Modulus /\ \A f \in 0 .. MaxFee : p + f < Modulus
  BY <1>3, <1>4, Limits
<1>7. \A v \in Nat : v < Modulus => v % Modulus = v
  BY Limits, Wraps
<1>8. /\ p % Modulus = p /\ (p + PreFees) % Modulus = p + PreFees
      /\ \A f \in 0 .. MaxFee : (p + f) % Modulus = p + f
  BY <1>3, <1>6, <1>7, Limits
<1> QED
  BY <1>1, <1>3, <1>5, <1>8 DEF Times, Plus

\* A change that can be carried is what is left of the inputs.
LEMMA ChangeFacts ==
  ASSUME NEW total \in Nat, total <= Batch * MaxAmount + PreFees + MaxAmount,
         NEW paid \in Nat, paid <= Batch * MaxAmount, NEW fee \in 0 .. MaxFee,
         Int64(Minus(total, paid + fee)) \in 1 .. MaxAmount
  PROVE  paid + Int64(Minus(total, paid + fee)) + fee = total
<1> DEFINE b == Batch * MaxAmount
           v == total - (paid + fee)
           w == Minus(total, paid + fee)
<1>1. /\ b \in Nat /\ total <= b + PreFees + MaxAmount /\ paid <= b
      /\ b + MaxAmount + PreFees + MaxFee < Modulus
  BY Limits
<1> HIDE DEF b
<1>2. v \in Int /\ -Modulus <= v /\ v < Modulus
      /\ (v < 0 => v + Modulus > MaxAmount)
  BY <1>1, Limits
<1>3. w = v % Modulus
  BY DEF Minus
<1> HIDE DEF v, w
<1>4. w = IF v < 0 THEN v + Modulus ELSE v
  BY <1>2, <1>3, Wraps, Limits
<1>5. w \in 0 .. Modulus - 1
  BY <1>2, <1>4, Limits
<1>6. Int64(w) \in 1 .. MaxAmount
  BY DEF w
<1>7. Int64(w) = w /\ w <= MaxAmount
  BY <1>5, <1>6, Signed
<1>8. w = v
  BY <1>2, <1>4, <1>7, Limits
<1>9. Int64(w) = total - (paid + fee)
  BY <1>7, <1>8 DEF v
<1> QED
  BY <1>9, Limits DEF w

\* The fields of a transaction that is built.
LEMMA TxFacts ==
  ASSUME NEW r, NEW no, NEW ins, NEW to, NEW n, NEW a, NEW change, NEW fee
  PROVE  LET t == MakeTx(r, no, ins, to, n, a, change, fee)
         IN  /\ t.call = r /\ t.no = no /\ t.ins = ins /\ t.to = to /\ t.pays = n
             /\ t.amount = Int64(a) /\ t.change = Int64(change) /\ t.fee = fee
             /\ t = [call |-> r, no |-> no, ins |-> ins, to |-> to, pays |-> n,
                     amount |-> Int64(a), change |-> Int64(change), fee |-> fee]
  BY DEF MakeTx

(* What TxEncode lets through is sound, provided that the total is worth   *)
(* the inputs but for rounding, and that the change was taken from it.     *)
LEMMA BuiltTx ==
  ASSUME NEW r \in Calls, NEW no \in Nat \X (Addresses \cup {From}),
         NEW ins \in SUBSET Outs, NEW to \in SUBSET Addresses, NEW n \in 0 .. Batch,
         NEW a \in 0 .. Modulus - 1, n = 0 => a <= MaxAmount,
         NEW total \in Nat, total \in FloatTotals(ins), total > 0,
         total <= Batch * MaxAmount + PreFees + MaxAmount,
         NEW due, a <= MaxAmount => due = a * n + Fess(ins, n),
         Encodable(MakeTx(r, no, ins, to, n, a, Minus(total, due), Fess(ins, n)))
  PROVE  LET t == MakeTx(r, no, ins, to, n, a, Minus(total, due), Fess(ins, n))
         IN  /\ Sound(r, t) /\ a \in 0 .. MaxAmount /\ (n > 0 => a > 0)
             /\ n * a + t.change + t.fee = total
<1> DEFINE fee == Fess(ins, n)
           change == Minus(total, due)
           t == MakeTx(r, no, ins, to, n, a, change, fee)
<1>1. /\ t.call = r /\ t.no = no /\ t.ins = ins /\ t.to = to /\ t.pays = n
      /\ t.amount = Int64(a) /\ t.change = Int64(change) /\ t.fee = fee
      /\ t = [call |-> r, no |-> no, ins |-> ins, to |-> to, pays |-> n,
              amount |-> Int64(a), change |-> Int64(change), fee |-> fee]
  BY TxFacts
<1>2. Encodable(t)
  OBVIOUS
<1>3. fee \in Nat /\ fee > 0 /\ fee \in 0 .. MaxFee
  BY FessFacts, Limits
<1>10. change = Minus(total, due) /\ fee = Fess(ins, n)
  OBVIOUS
<1> HIDE DEF fee, change, t
<1>4. n > 0 => Int64(a) \in 1 .. MaxAmount
  BY <1>1, <1>2 DEF Encodable
<1>5. Int64(change) \in 1 .. MaxAmount
  BY <1>1, <1>2 DEF Encodable
<1>6. a \in 0 .. MaxAmount /\ Int64(a) = a /\ (n > 0 => a > 0)
  <2>1. CASE n = 0
    <3>1. a \in 0 .. MaxAmount /\ a <= MaxAmount /\ ~ (n > 0)
      BY <2>1, Limits
    <3> QED
      BY <3>1, Signed
  <2>2. CASE n # 0
    <3>1. Int64(a) \in 1 .. MaxAmount
      BY <1>4, <2>2
    <3>2. Int64(a) = a
      BY <3>1, Signed
    <3> QED
      BY <3>1, <3>2
  <2> QED
    BY <2>1, <2>2
<1>7. /\ a * n \in Nat /\ a * n = n * a /\ a * n <= Batch * MaxAmount
      /\ due = a * n + fee
  <2>1. a <= MaxAmount
    BY <1>6, Limits
  <2> QED
    BY <1>6, <1>10, <2>1, PaidFits
<1>8. n * a + Int64(change) + fee = total
  <2> DEFINE paid == a * n
  <2>1. paid \in Nat /\ paid <= Batch * MaxAmount /\ due = paid + fee /\ n * a = paid
    BY <1>7
  <2> HIDE DEF paid
  <2>2. Int64(Minus(total, paid + fee)) \in 1 .. MaxAmount
    BY <1>5, <1>10, <2>1
  <2>3. paid + Int64(Minus(total, paid + fee)) + fee = total
    BY <1>3, <2>1, <2>2, ChangeFacts
  <2> QED
    BY <1>10, <2>1, <2>3
<1>9. t \in SentTx
  <2>1. n \in Nat /\ Int64(a) \in 0 .. MaxAmount
    BY <1>6, Limits
  <2> QED
    BY <1>1, <1>3, <1>5, <2>1 DEF SentTx
<1>11. ins # {}
  <2>1. Worth({}) = 0 /\ Cardinality({}) = 0
    BY WorthAdd, FS_EmptySet
  <2>2. ASSUME ins = {} PROVE FALSE
    <3>1. FloatTotals(ins) = 0 .. 0
      BY <2>1, <2>2 DEF FloatTotals
    <3> QED
      BY <3>1
  <2> QED
    BY <2>2
<1>12. Keeps(t)
  BY <1>1, <1>6, <1>8 DEF Keeps
<1> QED
  BY <1>1, <1>6, <1>8, <1>9, <1>11, <1>12 DEF Sound, t, change, fee

\* What a batch is about, and where the next one begins.
LEMMA BatchFacts ==
  ASSUME NEW len \in Nat, NEW h \in Nat, h < Rounds(len),
         NEW n, n = IF h = Rounds(len) - 1 /\ Rem(len, Batch) # 0
                    THEN Rem(len, Batch) ELSE Batch
  PROVE  /\ n \in 1 .. Batch /\ h * Batch \in Nat /\ h * Batch + n <= len
         /\ h * Batch + n = IF h + 1 < Rounds(len) THEN (h + 1) * Batch ELSE len
         /\ h + 1 < Rounds(len) => n = Batch
         /\ \A k \in 1 .. len : k <= (h + 1) * Batch <=> k <= h * Batch + n
<1> DEFINE times == Rounds(len)
           left == Rem(len, Batch)
           at == h * Batch
           last == (times - 1) * Batch
<1>1. /\ times \in Nat /\ left \in 0 .. Batch - 1 /\ Batch \in Nat \ {0}
      /\ left = 0 => len = times * Batch
      /\ left # 0 => times > 0 /\ len = last + left
  BY RoundsFacts, Limits
<1>2. at \in Nat /\ (h + 1) * Batch = at + Batch
  BY <1>1
<1>3. h < times /\ n = IF h = times - 1 /\ left # 0 THEN left ELSE Batch
  OBVIOUS
<1>4. n \in 1 .. Batch
  <2> HIDE DEF times, left, at, last
  <2> QED
    BY <1>1, <1>3
<1>5. last \in Nat /\ times * Batch = last + Batch
  <2>1. times - 1 \in Nat
    <3> HIDE DEF times
    <3> QED
      BY <1>1, <1>3
  <2>2. (times - 1 + 1) * Batch = (times - 1) * Batch + Batch /\ (times - 1) * Batch \in Nat
    BY <1>1, <2>1
  <2>3. times - 1 + 1 = times
    BY <1>1
  <2> QED
    BY <2>2, <2>3
<1>6. h = times - 1 => at = last
  OBVIOUS
<1>7. h < times - 1 => at + Batch <= last
  <2>1. ASSUME h < times - 1 PROVE (h + 1) * Batch <= (times - 1) * Batch
    <3>1. times - 1 \in Nat /\ h + 1 \in Nat /\ h + 1 <= times - 1 /\ Batch \in Nat
      <4> HIDE DEF times
      <4> QED
        BY <1>1, <1>3, <2>1
    <3> QED
      BY <3>1, TimesGrows
  <2> QED
    BY <1>2, <2>1
<1>8. at = h * Batch /\ times = Rounds(len)
  OBVIOUS
<1> HIDE DEF times, left, at, last
<1>9. /\ at + n <= len
      /\ at + n = IF h + 1 < times THEN at + Batch ELSE len
      /\ h + 1 < times => n = Batch
      /\ at + n <= at + Batch /\ (at + n < at + Batch => at + n = len)
  <2>1. CASE h = times - 1
    <3>1. at = last /\ ~ (h + 1 < times)
      BY <1>1, <1>6, <2>1
    <3>2. CASE left = 0
      BY <1>1, <1>2, <1>3, <1>5, <3>1, <3>2
    <3>3. CASE left # 0
      BY <1>1, <1>2, <1>3, <1>4, <1>5, <2>1, <3>1, <3>3
    <3> QED
      BY <3>2, <3>3
  <2>2. CASE h # times - 1
    <3>1. h < times - 1 /\ h + 1 < times /\ n = Batch
      BY <1>1, <1>3, <2>2
    <3>2. last <= len
      BY <1>1, <1>5
    <3> QED
      BY <1>1, <1>2, <1>5, <1>7, <3>1, <3>2
  <2> QED
    BY <2>1, <2>2
<1>10. \A k \in 1 .. len : k <= at + Batch <=> k <= at + n
  BY <1>1, <1>2, <1>4, <1>9
<1> QED
  BY <1>2, <1>4, <1>8, <1>9, <1>10

-----------------------------------------------------------------------------
(***************************************************************************)
(* Steps.  What a step does to the call that takes it, and that it does    *)
(* not disturb the others.                                                 *)
(***************************************************************************)

\* A call's own step that touches neither the node nor the table.
LEMMA LocalStep ==
  ASSUME IInv, NEW r \in Calls, NEW c \in CallRecord, Become(r, c), UNCHANGED ledgerVars,
         CallInv(r, c, Of(r, sent), Of(r, answered), usable, unset)
  PROVE  IInv'
<1>1. call' = [call EXCEPT ![r] = c] /\ call \in [Calls -> CallRecord]
  BY DEF IInv, Types, Become
<1>2. /\ usable' = usable /\ unset' = unset /\ sent' = sent
      /\ answered' = answered /\ taken' = taken
  BY DEF ledgerVars
<1>3. Types'
  BY <1>1, <1>2 DEF IInv, Types
<1>4. (\A t \in sent : Keeps(t))'
  BY <1>2 DEF IInv
<1>5. ASSUME NEW q \in Calls
      PROVE  CallInv(q, call'[q], Of(q, sent'), Of(q, answered'), usable', unset')
  BY <1>1, <1>2 DEF IInv
<1> QED
  BY <1>3, <1>4, <1>5 DEF IInv

\* The transactions of a call are some of the transactions, finitely many.
LEMMA OfFacts ==
  ASSUME IInv, NEW r
  PROVE  /\ Of(r, sent) \subseteq sent /\ Of(r, answered) \subseteq Of(r, sent)
         /\ Of(r, sent) \subseteq SentTx
         /\ IsFiniteSet(Of(r, sent)) /\ IsFiniteSet(Of(r, answered))
<1>1. /\ Of(r, sent) \subseteq sent /\ Of(r, answered) \subseteq Of(r, sent)
      /\ sent \subseteq SentTx /\ IsFiniteSet(sent)
  BY DEF Of, IInv, Types
<1> QED
  BY <1>1, FS_Subset

\* A call hands over its transaction and goes on.
LEMMA SubmitStep ==
  ASSUME IInv, NEW r \in Calls, NEW c \in CallRecord, NEW ok \in BOOLEAN,
         call[r].at = "send", Submit(call[r].tx, ok), Become(r, c),
         CallInv(r, c, Of(r, sent) \cup {call[r].tx},
                 IF ok THEN Of(r, answered) \cup {call[r].tx} ELSE Of(r, answered),
                 usable, unset)
  PROVE  IInv'
<1> DEFINE t == call[r].tx
<1>1. call' = [call EXCEPT ![r] = c] /\ call \in [Calls -> CallRecord]
  BY DEF IInv, Types, Become
<1>2. /\ usable' = usable /\ unset' = unset /\ sent' = sent \cup {t}
      /\ answered' = answered \cup (IF ok THEN {t} ELSE {})
      /\ Exchange(t, ok)
  BY DEF Submit
<1>3. Sound(r, t)
  BY DEF IInv, CallInv, AtHand
<1> HIDE DEF t
<1>4. Types'
  <2>1. usable' \subseteq Outs /\ unset' \subseteq Outs
    BY <1>2 DEF IInv, Types
  <2>2. sent' \subseteq SentTx
    BY <1>2, <1>3 DEF IInv, Types, Sound
  <2>3. IsFiniteSet(sent')
    <3>1. IsFiniteSet(sent)
      BY DEF IInv, Types
    <3>2. IsFiniteSet(sent \cup {t})
      BY <3>1, FS_AddElement
    <3> QED
      BY <1>2, <3>2
  <2>4. answered' \subseteq taken' /\ taken' \subseteq sent'
    BY <1>2 DEF IInv, Types, Exchange
  <2>5. call' \in [Calls -> CallRecord]
    BY <1>1
  <2> QED
    BY <2>1, <2>2, <2>3, <2>4, <2>5 DEF Types
<1>5. (\A u \in sent : Keeps(u))'
  BY <1>2, <1>3 DEF IInv, Sound
<1>6. ASSUME NEW q \in Calls
      PROVE  CallInv(q, call'[q], Of(q, sent'), Of(q, answered'), usable', unset')
  <2>1. CASE q = r
    <3>1. /\ Of(r, sent') = Of(r, sent) \cup {t}
          /\ Of(r, answered') = IF ok THEN Of(r, answered) \cup {t} ELSE Of(r, answered)
      BY <1>2, <1>3 DEF Of, Sound
    <3>2. call'[q] = c
      BY <1>1, <2>1
    <3> QED
      BY <1>2, <2>1, <3>1, <3>2 DEF t
  <2>2. CASE q # r
    <3>1. Of(q, sent') = Of(q, sent) /\ Of(q, answered') = Of(q, answered)
      BY <1>2, <1>3, <2>2 DEF Of, Sound
    <3>2. call'[q] = call[q]
      BY <1>1, <2>2
    <3> QED
      BY <1>2, <3>1, <3>2 DEF IInv
  <2> QED
    BY <2>1, <2>2
<1> QED
  BY <1>4, <1>5, <1>6 DEF IInv

\* A call that has not been made has handed over nothing.
LEMMA Fresh ==
  ASSUME IInv, NEW r \in Calls, call[r] = Idle
  PROVE  Of(r, sent) = {} /\ Of(r, answered) = {}
<1>1. Numbered(call[r], Of(r, sent)) /\ call[r].op = "none"
  BY DEF IInv, CallInv, Idle
<1>2. Of(r, sent) = {}
  BY <1>1 DEF Numbered
<1> QED
  BY <1>2, OfFacts

\* A call begins.
LEMMA StartStep ==
  ASSUME IInv, NEW r \in Calls, call[r] = Idle, NEW c \in CallRecord,
         Become(r, c), UNCHANGED ledgerVars, Places(c), Loops(c),
         c.op # "none", c.at # "send", c.marks = {}, c.success = 0, c.all = 0
  PROVE  IInv'
<1>1. Of(r, sent) = {} /\ Of(r, answered) = {}
  BY Fresh
<1>2. c.at # "mark"
  BY DEF Places
<1>3. \A f : SumFunctionOnSet(f, {}) = 0
  BY SumEmpty
<1>4. Counted(c, {}, {})
  BY <1>3 DEF Counted
<1>5. AtHand(r, c, {}) /\ Numbered(c, {}) /\ Affordable(c, {}) /\ Spent(c, {}, usable, unset)
  BY <1>2 DEF AtHand, Numbered, Affordable, Spent
<1>6. CallInv(r, c, Of(r, sent), Of(r, answered), usable, unset)
  BY <1>1, <1>4, <1>5 DEF CallInv
<1> QED
  BY <1>6, LocalStep

\* The variables of a call that has not been made have their types.
LEMMA IdleType == Idle \in CallRecord
<1>1. <<>> \in Seq(Addresses)
  OBVIOUS
<1>2. Modulus \in Nat \ {0}
  BY Limits
<1> QED
  BY <1>1, <1>2 DEF Idle, CallRecord, Ended

\* Split begins.
LEMMA SplitStarts ==
  ASSUME IInv, NEW r \in Calls, SplitStart(r)
  PROVE  IInv'
<1>1. call[r] = Idle /\ UNCHANGED ledgerVars
  BY DEF SplitStart
<1>2. PICK n \in Counts, known \in BOOLEAN :
        Become(r, [Idle EXCEPT !.op = "split", !.times = Rounds(n),
                     !.left = Rem(n, Batch),
                     !.at = IF Rounds(n) <= 0 THEN "returned"
                            ELSE IF ~Wired THEN "panicked"
                            ELSE IF Addresses = {} THEN "returned"
                            ELSE IF ~known THEN "nocoin"
                            ELSE "round"])
  BY DEF SplitStart
<1> DEFINE place == IF Rounds(n) <= 0 THEN "returned"
                    ELSE IF ~Wired THEN "panicked"
                    ELSE IF Addresses = {} THEN "returned"
                    ELSE IF ~known THEN "nocoin"
                    ELSE "round"
           c == [Idle EXCEPT !.op = "split", !.times = Rounds(n),
                   !.left = Rem(n, Batch), !.at = place]
<1>3. n \in Int
  BY PaymentsConfig
<1>4. place \in {"returned", "panicked", "nocoin", "round"}
      /\ (place = "round" => ~ (Rounds(n) <= 0))
  OBVIOUS
<1>5. Become(r, c)
  BY <1>2
<1> HIDE DEF place
<1>6. /\ c.op = "split" /\ c.times = Rounds(n) /\ c.left = Rem(n, Batch) /\ c.at = place
      /\ c.marks = {} /\ c.success = 0 /\ c.all = 0
  BY DEF Idle
<1>7. c \in CallRecord
  <2>1. Rounds(n) \in Int /\ Rem(n, Batch) \in Int
    BY <1>3, RoundsFacts
  <2>2. place \in Ended \cup {"new", "balance", "round", "send", "mark"}
    BY <1>4 DEF Ended
  <2> QED
    BY <2>1, <2>2, IdleType DEF CallRecord
<1> HIDE DEF c
<1>8. Places(c)
  BY <1>4, <1>6 DEF Places
<1>9. Loops(c)
  <2>1. ASSUME c.at = "round" PROVE TimeCount(c) \in 0 .. Batch
    <3>1. Batch \in Nat \ {0} /\ Rounds(n) \in Int /\ Rem(n, Batch) \in Int
          /\ ~ (Rounds(n) <= 0) /\ (n < 0 => Rounds(n) <= 1)
          /\ (n >= 0 => Rem(n, Batch) \in 0 .. Batch - 1)
      BY <1>3, <1>4, <1>6, <2>1, RoundsFacts, Limits
    <3>2. CASE Batch = Rounds(n) - 1
      <4>1. n >= 0
        BY <1>3, <3>1, <3>2
      <4>2. Rem(n, Batch) \in 0 .. Batch
        BY <3>1, <4>1
      <4> QED
        BY <1>6, <3>2, <4>2 DEF TimeCount
    <3>3. CASE Batch # Rounds(n) - 1
      BY <1>6, <3>1, <3>3 DEF TimeCount
    <3> QED
      BY <3>2, <3>3
  <2> QED
    BY <1>4, <1>6, <2>1 DEF Loops
<1>10. c.op # "none" /\ c.at # "send"
  BY <1>4, <1>6
<1> QED
  BY <1>1, <1>5, <1>6, <1>7, <1>8, <1>9, <1>10, StartStep

\* TransferAll and Transfer begin.
LEMMA TransferStarts ==
  ASSUME IInv, NEW r \in Calls, NEW op \in {"transferAll", "transfer"},
         TransferStart(r, op)
  PROVE  IInv'
<1>1. call[r] = Idle /\ UNCHANGED ledgerVars
  BY DEF TransferStart
<1>2. PICK a \in Amounts, l \in Orders :
        Become(r, [Idle EXCEPT !.op = op, !.amount = a, !.list = l,
                     !.times = Rounds(Len(l)), !.left = Rem(Len(l), Batch),
                     !.at = IF Wired THEN "balance" ELSE "panicked"])
  BY DEF TransferStart
<1> DEFINE place == IF Wired THEN "balance" ELSE "panicked"
           c == [Idle EXCEPT !.op = op, !.amount = a, !.list = l,
                     !.times = Rounds(Len(l)), !.left = Rem(Len(l), Batch), !.at = place]
<1>3. l \in Seq(Addresses) /\ IsInjective(l) /\ Len(l) \in Nat /\ a \in 0 .. Modulus - 1
  BY PaymentsConfig
<1>4. place \in {"balance", "panicked"}
  OBVIOUS
<1>5. Become(r, c)
  BY <1>2
<1> HIDE DEF place
<1>6. /\ c.op = op /\ c.times = Rounds(Len(l)) /\ c.left = Rem(Len(l), Batch) /\ c.at = place
      /\ c.list = l /\ c.round = 0 /\ c.index = 0
      /\ c.marks = {} /\ c.success = 0 /\ c.all = 0
  BY DEF Idle
<1>7. c \in CallRecord
  <2>1. Rounds(Len(l)) \in Int /\ Rem(Len(l), Batch) \in Int
    BY <1>3, RoundsFacts
  <2>2. place \in Ended \cup {"new", "balance", "round", "send", "mark"}
    BY <1>4 DEF Ended
  <2>3. l \in Seq(Addresses) \cup Seq(Outs) /\ a \in 0 .. Modulus - 1
    BY <1>3
  <2> QED
    BY <2>1, <2>2, <2>3, IdleType DEF CallRecord
<1> HIDE DEF c
<1>8. Places(c)
  BY <1>4, <1>6 DEF Places
<1>9. Loops(c)
  <2>1. CASE op = "transferAll"
    <3>1. /\ Rounds(Len(l)) \in Nat /\ Batch \in Nat
          /\ Rounds(Len(l)) = 0 => Len(l) = 0 * Batch
      <4> DEFINE n == Len(l)
      <4>1. n \in Nat /\ n >= 0
        BY <1>3
      <4> HIDE DEF n
      <4>2. /\ Rounds(n) \in Nat
            /\ Rem(n, Batch) = 0 => n = Rounds(n) * Batch
            /\ Rem(n, Batch) # 0 => Rounds(n) > 0
        BY <4>1, RoundsFacts
      <4>3. Rounds(n) = 0 => n = 0 * Batch
        BY <4>2
      <4> QED
        BY <4>2, <4>3, Limits DEF n
    <3>2. c.index = IF c.round < c.times THEN c.round * Batch ELSE Len(c.list)
      <4>1. CASE Rounds(Len(l)) = 0
        <5>1. Len(l) = 0 /\ ~ (c.round < c.times)
          BY <1>6, <3>1, <4>1
        <5> QED
          BY <1>6, <5>1
      <4>2. CASE Rounds(Len(l)) # 0
        BY <1>6, <3>1, <4>2
      <4> QED
        BY <4>1, <4>2
    <3>3. c.round <= c.times /\ c.success <= c.index
      BY <1>6, <3>1
    <3> QED
      BY <1>3, <1>6, <2>1, <3>2, <3>3 DEF Loops
  <2>2. CASE op = "transfer"
    BY <1>6, <2>2 DEF Loops
  <2> QED
    BY <2>1, <2>2
<1>10. c.op # "none" /\ c.at # "send"
  BY <1>4, <1>6
<1> QED
  BY <1>1, <1>5, <1>6, <1>7, <1>8, <1>9, <1>10, StartStep

\* Merger begins.
LEMMA MergerStarts ==
  ASSUME IInv, NEW r \in Calls, MergerStart(r)
  PROVE  IInv'
<1>1. call[r] = Idle /\ UNCHANGED ledgerVars
  BY DEF MergerStart
<1>2. PICK rows \in {RowsOf(From, 0), {}}, room \in 0 .. Batch :
        Become(r, [Idle EXCEPT !.op = "merger", !.list = InOrder(rows),
                     !.capacity = Cardinality(rows) + room,
                     !.at = IF Wired THEN "round" ELSE "nocoin"])
  BY DEF MergerStart
<1> DEFINE place == IF Wired THEN "round" ELSE "nocoin"
           l == InOrder(rows)
           most == Cardinality(rows) + room
           c == [Idle EXCEPT !.op = "merger", !.list = l, !.capacity = most, !.at = place]
<1>3. rows \in SUBSET Outs /\ rows \in SUBSET (1 .. NumOuts) /\ NumOuts \in Nat
  BY LedgerConfig DEF RowsOf, IInv, Types, Outs
<1>4. l \in Seq(Outs) /\ IsInjective(l)
  <2>1. /\ l \in Seq(rows)
        /\ \A i, j \in 1 .. Len(l) : i # j => l[i] # l[j]
    BY <1>3, InOrderFacts
  <2> HIDE DEF l
  <2>2. l \in Seq(Outs)
    <3>1. l \in Seq(rows) /\ rows \subseteq Outs
      BY <1>3, <2>1
    <3> QED
      BY <3>1, SeqMonotonic
  <2>3. DOMAIN l = 1 .. Len(l)
    BY <2>1
  <2> QED
    BY <2>1, <2>2, <2>3 DEF IsInjective
<1>5. most \in Nat
  BY <1>3, OutsFacts, Limits
<1>6. place \in {"round", "nocoin"}
  OBVIOUS
<1>7. Become(r, c)
  BY <1>2
<1> HIDE DEF place, l, most
<1>8. /\ c.op = "merger" /\ c.at = place /\ c.list = l
      /\ c.marks = {} /\ c.success = 0 /\ c.all = 0
  BY DEF Idle
<1>9. c \in CallRecord
  <2>1. place \in Ended \cup {"new", "balance", "round", "send", "mark"}
    BY <1>6 DEF Ended
  <2>2. l \in Seq(Addresses) \cup Seq(Outs)
    BY <1>4
  <2> QED
    BY <1>5, <2>1, <2>2, IdleType DEF CallRecord
<1> HIDE DEF c
<1>10. Places(c)
  BY <1>6, <1>8 DEF Places
<1>11. Loops(c)
  BY <1>4, <1>8 DEF Loops
<1>12. c.op # "none" /\ c.at # "send"
  BY <1>6, <1>8
<1> QED
  BY <1>1, <1>7, <1>8, <1>9, <1>10, <1>11, <1>12, StartStep

\* What a call has spent stays spent when fewer rows are usable.
LEMMA SpentStays ==
  ASSUME NEW c, NEW A, NEW U, NEW N, NEW V, NEW M,
         Spent(c, A, U, N), V \subseteq U, N \subseteq M
  PROVE  Spent(c, A, V, M)
<1>1. c.at = "mark" => c.tx \in A /\ c.marks \subseteq c.tx.ins
  BY DEF Spent
<1>2. ASSUME c.op \in {"split", "transferAll"}, NEW t \in A
      PROVE  /\ t.ins \cap V \subseteq M \cup c.marks
             /\ c.at = "send" => t.ins \cap c.tx.ins \subseteq M
  <2>1. /\ t.ins \cap U \subseteq N \cup c.marks
        /\ c.at = "send" => t.ins \cap c.tx.ins \subseteq N
    BY <1>2 DEF Spent
  <2> QED
    BY <2>1
<1> QED
  BY <1>1, <1>2 DEF Spent

\* A step that changes no call and nothing that was sent or answered.
LEMMA OutsideStep ==
  ASSUME IInv, UNCHANGED <<call, sent, answered>>,
         usable' \subseteq Outs, unset' \subseteq Outs,
         answered \subseteq taken', taken' \subseteq sent,
         \A q \in Calls : Spent(call[q], Of(q, answered), usable', unset')
  PROVE  IInv'
<1>1. call' = call /\ sent' = sent /\ answered' = answered
  OBVIOUS
<1>2. Types'
  BY <1>1 DEF IInv, Types
<1>3. (\A t \in sent : Keeps(t))'
  BY <1>1 DEF IInv
<1>4. ASSUME NEW q \in Calls
      PROVE  CallInv(q, call'[q], Of(q, sent'), Of(q, answered'), usable', unset')
  <2>1. CallInv(q, call[q], Of(q, sent), Of(q, answered), usable, unset)
    BY DEF IInv
  <2>2. Spent(call[q], Of(q, answered), usable', unset')
    OBVIOUS
  <2> QED
    BY <1>1, <2>1, <2>2 DEF CallInv
<1> QED
  BY <1>2, <1>3, <1>4 DEF IInv

\* The node gets round to a transaction.
LEMMA Arrives ==
  ASSUME IInv, Arrive, UNCHANGED call
  PROVE  IInv'
<1>1. PICK t \in sent \ taken : taken' = taken \cup {t}
  BY DEF Arrive
<1>2. usable' = usable /\ unset' = unset /\ UNCHANGED <<call, sent, answered>>
  BY DEF Arrive
<1>3. usable' \subseteq Outs /\ unset' \subseteq Outs
      /\ answered \subseteq taken' /\ taken' \subseteq sent
  BY <1>1, <1>2 DEF IInv, Types
<1>4. \A q \in Calls : Spent(call[q], Of(q, answered), usable', unset')
  BY <1>2 DEF IInv, CallInv
<1> QED
  BY <1>2, <1>3, <1>4, OutsideStep

\* The table is filled.
LEMMA Syncs ==
  ASSUME IInv, Sync, UNCHANGED call
  PROVE  IInv'
<1>1. unset' = unset /\ taken' = taken /\ UNCHANGED <<call, sent, answered>>
  BY DEF Sync
<1>2. unset' \subseteq Outs /\ answered \subseteq taken' /\ taken' \subseteq sent
  BY <1>1 DEF IInv, Types
<1>3. \A q \in Calls : Spent(call[q], Of(q, answered), usable, unset)
  BY DEF IInv, CallInv
<1>4. CASE \E t \in taken : usable' = usable \ t.ins
  <2>1. usable' \subseteq usable /\ usable' \subseteq Outs
    BY <1>4 DEF IInv, Types
  <2>2. \A q \in Calls : Spent(call[q], Of(q, answered), usable', unset')
    BY <1>1, <1>3, <2>1, SpentStays
  <2> QED
    BY <1>1, <1>2, <2>1, <2>2, OutsideStep
<1>5. CASE \E o \in Outs \ Claimed : usable' = usable \cup {o}
  <2>1. PICK o \in Outs \ Claimed : usable' = usable \cup {o}
    BY <1>5
  <2>2. usable' \subseteq Outs
    BY <2>1 DEF IInv, Types
  <2>3. ASSUME NEW q \in Calls, NEW t \in Of(q, answered) PROVE o \notin t.ins
    BY <2>1 DEF Claimed, IInv, Types, Of
  <2>4. ASSUME NEW q \in Calls
        PROVE  Spent(call[q], Of(q, answered), usable', unset')
    <3> DEFINE c == call[q]
               A == Of(q, answered)
    <3>1. Spent(c, A, usable, unset) /\ \A t \in A : o \notin t.ins
      BY <1>3, <2>3
    <3> HIDE DEF c, A
    <3>2. c.at = "mark" => c.tx \in A /\ c.marks \subseteq c.tx.ins
      BY <3>1 DEF Spent
    <3>3. ASSUME c.op \in {"split", "transferAll"}, NEW t \in A
          PROVE  /\ t.ins \cap usable' \subseteq unset \cup c.marks
                 /\ c.at = "send" => t.ins \cap c.tx.ins \subseteq unset
      <4>1. /\ t.ins \cap usable \subseteq unset \cup c.marks
            /\ c.at = "send" => t.ins \cap c.tx.ins \subseteq unset
        BY <3>1, <3>3 DEF Spent
      <4> QED
        BY <2>1, <3>1, <4>1
    <3>4. Spent(c, A, usable', unset')
      BY <1>1, <3>2, <3>3 DEF Spent
    <3> QED
      BY <3>4 DEF c, A
  <2> QED
    BY <1>1, <1>2, <2>2, <2>4, OutsideStep
<1> QED
  BY <1>4, <1>5 DEF Sync

\* A row is marked, or fails to be.
LEMMA Marks ==
  ASSUME IInv, NEW r \in Calls, Mark(r)
  PROVE  IInv'
<1> DEFINE c == call[r]
           S == Of(r, sent)
           A == Of(r, answered)
<1>1. c.at = "mark"
  BY DEF Mark
<1>2. PICK o \in c.marks :
        /\ SetSpent(o)
        /\ Become(r, [c EXCEPT !.marks = @ \ {o},
                        !.at = IF c.marks = {o} THEN "round" ELSE "mark"])
  BY DEF Mark
<1> DEFINE place == IF c.marks = {o} THEN "round" ELSE "mark"
           d == [c EXCEPT !.marks = @ \ {o}, !.at = place]
<1>3. CallInv(r, c, S, A, usable, unset) /\ c \in CallRecord
  BY DEF IInv, Types
<1>4. Become(r, d)
  BY <1>2
<1>5. /\ (place = "mark" <=> c.marks \ {o} # {}) /\ place \in {"round", "mark"}
  BY <1>2
<1> HIDE DEF c, place
<1>6. /\ d.op = c.op /\ d.times = c.times /\ d.left = c.left /\ d.round = c.round
      /\ d.amount = c.amount /\ d.balance = c.balance /\ d.all = c.all
      /\ d.todo = c.todo /\ d.list = c.list /\ d.index = c.index /\ d.tx = c.tx
      /\ d.success = c.success /\ d.at = place /\ d.marks = c.marks \ {o}
  BY <1>3 DEF CallRecord
<1>7. d \in CallRecord
  <2>1. place \in Ended \cup {"new", "balance", "round", "send", "mark"}
    BY <1>5
  <2> QED
    BY <1>3, <2>1 DEF CallRecord
<1> HIDE DEF d
<1>8. c.op \in {"split", "transferAll"}
  <2>1. Places(c) /\ c.op \in {"none", "split", "transferAll", "transfer", "merger"}
    BY <1>3 DEF CallInv, CallRecord
  <2>2. Idle.at # "mark"
    BY DEF Idle
  <2> QED
    BY <1>1, <2>1, <2>2 DEF Places
<1>9. \/ usable' \subseteq usable \ {o} /\ unset' = unset
      \/ usable' = usable /\ unset' = unset \cup {o}
  BY <1>2 DEF SetSpent
<1>10. UNCHANGED <<sent, answered, taken>>
  BY <1>2 DEF SetSpent
<1>11. CallInv(r, d, S, A, usable', unset')
  <2>1. Places(d)
    BY <1>5, <1>6, <1>8 DEF Places
  <2>2. Loops(d)
    <3>1. c.op = "split" => TimeCount(c) \in 0 .. Batch
      BY <1>1, <1>3 DEF CallInv, Loops
    <3>2. TimeCount(d) = TimeCount(c)
      BY <1>6 DEF TimeCount
    <3>3. c.op = "transferAll" =>
       /\ d.list \in Seq(Addresses) /\ IsInjective(d.list)
       /\ d.times = Rounds(Len(d.list)) /\ d.left = Rem(Len(d.list), Batch)
       /\ d.round <= d.times /\ (d.at = "balance" => d.round = 0)
       /\ d.index = IF d.round < d.times THEN d.round * Batch ELSE Len(d.list)
       /\ d.success <= d.index
      BY <1>3, <1>5, <1>6 DEF CallInv, Loops
    <3> QED
      BY <1>6, <1>8, <3>1, <3>2, <3>3 DEF Loops
  <2>3. AtHand(r, d, S)
    BY <1>5, <1>6 DEF AtHand
  <2>4. Numbered(d, S)
    <3>1. Numbered(c, S)
      BY <1>3 DEF CallInv
    <3> QED
      BY <1>6, <1>8, <3>1 DEF Numbered
  <2>5. Affordable(d, S)
    <3>1. Affordable(c, S)
      BY <1>3 DEF CallInv
    <3> QED
      BY <1>5, <1>6, <3>1 DEF Affordable
  <2>6. Counted(d, S, A)
    <3>1. Counted(c, S, A)
      BY <1>3 DEF CallInv
    <3> QED
      BY <1>1, <1>6, <3>1 DEF Counted
  <2>7. Spent(d, A, usable', unset')
    <3>1. Spent(c, A, usable, unset)
      BY <1>3 DEF CallInv
    <3>2. c.tx \in A /\ d.marks \subseteq d.tx.ins /\ d.tx = c.tx
      BY <1>1, <1>6, <3>1 DEF Spent
    <3>3. ASSUME NEW t \in A
          PROVE  t.ins \cap usable' \subseteq unset' \cup d.marks
      <4>1. t.ins \cap usable \subseteq unset \cup c.marks
        BY <1>8, <3>1 DEF Spent
      <4> QED
        BY <1>6, <1>9, <4>1
    <3> QED
      BY <1>5, <1>6, <3>2, <3>3 DEF Spent
  <2> QED
    BY <2>1, <2>2, <2>3, <2>4, <2>5, <2>6, <2>7 DEF CallInv
<1>12. call' = [call EXCEPT ![r] = d] /\ call \in [Calls -> CallRecord]
  BY <1>4 DEF IInv, Types, Become
<1>13. usable' \subseteq usable /\ unset \subseteq unset' /\ unset' \subseteq unset \cup {o}
  BY <1>9
<1>14. Types'
  <2>1. o \in Outs
    BY <1>2, <1>3 DEF CallRecord
  <2> QED
    BY <1>7, <1>10, <1>12, <1>13, <2>1 DEF IInv, Types
<1>15. (\A t \in sent : Keeps(t))'
  BY <1>10 DEF IInv
<1>16. ASSUME NEW q \in Calls
       PROVE  CallInv(q, call'[q], Of(q, sent'), Of(q, answered'), usable', unset')
  <2>1. CASE q = r
    BY <1>10, <1>11, <1>12, <2>1
  <2>2. CASE q # r
    <3>1. CallInv(q, call[q], Of(q, sent), Of(q, answered), usable, unset)
      BY DEF IInv
    <3>2. call'[q] = call[q]
      BY <1>12, <2>2
    <3>3. Spent(call[q], Of(q, answered), usable', unset')
      BY <1>13, <3>1, SpentStays DEF CallInv
    <3> QED
      BY <1>10, <3>1, <3>2, <3>3 DEF CallInv
  <2> QED
    BY <2>1, <2>2
<1> QED
  BY <1>14, <1>15, <1>16 DEF IInv

\* The sums that Counted is about, with one transaction more.
LEMMA OneMore ==
  ASSUME NEW A \in SUBSET SentTx, IsFiniteSet(A), NEW t \in SentTx, t \notin A
  PROVE  /\ SumFunctionOnSet([u \in A \cup {t} |-> u.pays], A \cup {t})
              = SumFunctionOnSet([u \in A |-> u.pays], A) + t.pays
         /\ SumFunctionOnSet([u \in A \cup {t} |-> Worth(u.ins)], A \cup {t})
              = SumFunctionOnSet([u \in A |-> Worth(u.ins)], A) + Worth(t.ins)
<1> DEFINE f == [u \in A \cup {t} |-> u.pays]
           g == [u \in A \cup {t} |-> Worth(u.ins)]
           f0 == [u \in A |-> u.pays]
           g0 == [u \in A |-> Worth(u.ins)]
<1>1. /\ \A u \in A : f[u] = f0[u] /\ g[u] = g0[u]
      /\ f[t] = t.pays /\ g[t] = Worth(t.ins)
  OBVIOUS
<1>2. \A u \in A \cup {t} : f[u] \in Nat /\ g[u] \in Nat
  <2>1. \A u \in SentTx : u.pays \in Nat /\ u.ins \in SUBSET Outs
    BY DEF SentTx
  <2>2. \A u \in SentTx : Worth(u.ins) \in Nat
    BY <2>1, OutsFacts
  <2> QED
    BY <2>1, <2>2
<1> HIDE DEF f, g, f0, g0
<1>3. SumFunctionOnSet(f, A) = SumFunctionOnSet(f0, A)
  BY <1>1, SumSame
<1>4. SumFunctionOnSet(g, A) = SumFunctionOnSet(g0, A)
  BY <1>1, SumSame
<1>5. SumFunctionOnSet(f, A \cup {t}) = SumFunctionOnSet(f, A) + f[t]
  BY <1>2, SumAdd
<1>6. SumFunctionOnSet(g, A \cup {t}) = SumFunctionOnSet(g, A) + g[t]
  BY <1>2, SumAdd
<1>7. /\ SumFunctionOnSet(f, A \cup {t}) = SumFunctionOnSet(f0, A) + t.pays
      /\ SumFunctionOnSet(g, A \cup {t}) = SumFunctionOnSet(g0, A) + Worth(t.ins)
  BY <1>1, <1>3, <1>4, <1>5, <1>6
<1> QED
  BY <1>7 DEF f, g, f0, g0

\* A call whose transaction is at hand.
LEMMA HandFacts ==
  ASSUME IInv, NEW r \in Calls, call[r].at = "send"
  PROVE  LET c == call[r]
             S == Of(r, sent)
             A == Of(r, answered)
         IN  /\ CallInv(r, c, S, A, usable, unset) /\ c \in CallRecord /\ c.marks = {}
             /\ Sound(r, c.tx) /\ c.tx \notin S /\ c.tx \notin A
             /\ A \subseteq S /\ S \subseteq SentTx /\ IsFiniteSet(A)
             /\ \A s, t \in S \cup {c.tx} : s.no = t.no => s = t
<1> DEFINE c == call[r]
           S == Of(r, sent)
           A == Of(r, answered)
<1>1. CallInv(r, c, S, A, usable, unset) /\ c \in CallRecord
  BY DEF IInv, Types
<1>2. A \subseteq S /\ S \subseteq SentTx /\ IsFiniteSet(A)
  BY OfFacts
<1>3. c.at = "send"
  OBVIOUS
<1> HIDE DEF c, S, A
<1>4. Sound(r, c.tx) /\ \A t \in S : t.no # c.tx.no
  BY <1>1, <1>3 DEF CallInv, AtHand
<1>5. \A s, t \in S : s.no = t.no => s = t
  BY <1>1 DEF CallInv, Numbered
<1>6. c.marks = {}
  BY <1>1, <1>3 DEF CallInv, Places
<1>7. \A s, t \in S \cup {c.tx} : s.no = t.no => s = t
  BY <1>4, <1>5
<1>8. c.tx \notin S /\ c.tx \notin A
  BY <1>2, <1>4
<1> QED
  BY <1>1, <1>2, <1>4, <1>6, <1>7, <1>8 DEF c, S, A

\* A Split hands over its transaction.
LEMMA SplitSends ==
  ASSUME IInv, NEW r \in Calls, SplitSend(r)
  PROVE  IInv'
<1> DEFINE c == call[r]
           S == Of(r, sent)
           A == Of(r, answered)
           t == c.tx
<1>1. c.op = "split" /\ c.at = "send"
  BY DEF SplitSend, In
<1>2. /\ CallInv(r, c, S, A, usable, unset) /\ c \in CallRecord /\ c.marks = {}
      /\ Sound(r, t) /\ t \notin S /\ t \notin A
      /\ A \subseteq S /\ S \subseteq SentTx /\ IsFiniteSet(A)
      /\ \A s, u \in S \cup {t} : s.no = u.no => s = u
  BY <1>1, HandFacts
<1>3. \/ Submit(t, TRUE) /\ Become(r, SplitPaid(c))
      \/ Submit(t, FALSE) /\ Become(r, SplitRefused(c))
  BY DEF SplitSend, Hand
<1>4. call[r].at = "send" /\ c = call[r] /\ S = Of(r, sent) /\ A = Of(r, answered)
  BY <1>1
<1> HIDE DEF c, S, A
<1>5. TimeCount(c) \in 0 .. Batch /\ t.pays = TimeCount(c)
      /\ t.no[1] = c.round /\ t.no[2] \notin c.todo
  BY <1>1, <1>2 DEF CallInv, Loops, AtHand
<1>6. t \in SentTx /\ t.ins \subseteq Outs /\ t.ins # {} /\ c.round \in Nat
      /\ Batch \in Nat /\ c.success \in Nat
  BY <1>2, Limits DEF Sound, SentTx, CallRecord
<1>7. ASSUME NEW d, d.op = "split", d.round = c.round, d.todo = c.todo,
             d.times = c.times, d.left = c.left, d.tx = t,
             d.at \in {"round", "mark"}, d.at = "mark" <=> d.marks # {}
      PROVE  /\ Places(d) /\ Loops(d) /\ AtHand(r, d, S \cup {t})
             /\ Numbered(d, S \cup {t}) /\ Affordable(d, S \cup {t})
  <2>1. Places(d)
    BY <1>7 DEF Places
  <2>2. TimeCount(d) = TimeCount(c)
    BY <1>7 DEF TimeCount
  <2>3. Loops(d)
    BY <1>5, <1>7, <2>2 DEF Loops
  <2>4. AtHand(r, d, S \cup {t}) /\ Affordable(d, S \cup {t})
    BY <1>7 DEF AtHand, Affordable
  <2>5. \A u \in S : u.no[1] <= c.round /\ (u.no[1] = c.round => u.no[2] \notin c.todo)
    BY <1>1, <1>2 DEF CallInv, Numbered
  <2>6. t.no[1] <= c.round /\ (t.no[1] = c.round => t.no[2] \notin c.todo)
    BY <1>5, <1>6
  <2>7. Numbered(d, S \cup {t})
    BY <1>2, <1>7, <2>5, <2>6 DEF Numbered
  <2> QED
    BY <2>1, <2>3, <2>4, <2>7
<1>8. c.success = SumFunctionOnSet([u \in A |-> u.pays], A)
  BY <1>1, <1>2 DEF CallInv, Counted
<1>9. \A u \in A : u.ins \cap usable \subseteq unset
  BY <1>1, <1>2 DEF CallInv, Spent
<1>10. CASE Submit(t, TRUE) /\ Become(r, SplitPaid(c))
  <2> DEFINE d == SplitPaid(c)
  <2>1. /\ d.op = "split" /\ d.round = c.round /\ d.todo = c.todo /\ d.times = c.times
        /\ d.left = c.left /\ d.tx = t /\ d.at = "mark" /\ d.marks = t.ins
        /\ d.success = c.success + TimeCount(c)
    BY <1>1, <1>2 DEF CallRecord, SplitPaid
  <2>2. d \in CallRecord
    <3>1. c.success + TimeCount(c) \in Nat
      BY <1>5, <1>6
    <3> QED
      BY <1>2, <1>6, <3>1 DEF CallRecord, SplitPaid
  <2> HIDE DEF d
  <2>3. /\ Places(d) /\ Loops(d) /\ AtHand(r, d, S \cup {t})
        /\ Numbered(d, S \cup {t}) /\ Affordable(d, S \cup {t})
    BY <1>6, <1>7, <2>1
  <2>4. Counted(d, S \cup {t}, A \cup {t})
    <3>1. SumFunctionOnSet([u \in A \cup {t} |-> u.pays], A \cup {t})
            = SumFunctionOnSet([u \in A |-> u.pays], A) + t.pays
      BY <1>2, <1>6, OneMore
    <3>2. d.success = SumFunctionOnSet([u \in A \cup {t} |-> u.pays], A \cup {t})
      BY <1>5, <1>8, <2>1, <3>1
    <3> QED
      BY <2>1, <3>2 DEF Counted
  <2>5. Spent(d, A \cup {t}, usable, unset)
    BY <1>9, <2>1 DEF Spent
  <2>6. CallInv(r, d, S \cup {t}, A \cup {t}, usable, unset)
    BY <2>3, <2>4, <2>5 DEF CallInv
  <2>7. Submit(t, TRUE) /\ Become(r, d)
    BY <1>10 DEF d
  <2> QED
    BY <1>4, <2>2, <2>6, <2>7, SubmitStep
<1>11. CASE Submit(t, FALSE) /\ Become(r, SplitRefused(c))
  <2> DEFINE d == SplitRefused(c)
  <2>1. /\ d.op = "split" /\ d.round = c.round /\ d.todo = c.todo /\ d.times = c.times
        /\ d.left = c.left /\ d.tx = t /\ d.at = "round" /\ d.marks = {}
        /\ d.success = c.success
    BY <1>1, <1>2 DEF CallRecord, SplitRefused
  <2>2. d \in CallRecord
    BY <1>2 DEF CallRecord, SplitRefused
  <2> HIDE DEF d
  <2>3. /\ Places(d) /\ Loops(d) /\ AtHand(r, d, S \cup {t})
        /\ Numbered(d, S \cup {t}) /\ Affordable(d, S \cup {t})
    BY <1>7, <2>1
  <2>4. Counted(d, S \cup {t}, A)
    BY <1>8, <2>1 DEF Counted
  <2>5. Spent(d, A, usable, unset)
    BY <1>9, <2>1 DEF Spent
  <2>6. CallInv(r, d, S \cup {t}, A, usable, unset)
    BY <2>3, <2>4, <2>5 DEF CallInv
  <2>7. Submit(t, FALSE) /\ Become(r, d)
    BY <1>11 DEF d
  <2> QED
    BY <1>4, <2>2, <2>6, <2>7, SubmitStep
<1> QED
  BY <1>3, <1>10, <1>11

\* A TransferAll hands over the transaction of a batch.
LEMMA BatchSends ==
  ASSUME IInv, NEW r \in Calls, BatchSend(r)
  PROVE  IInv'
<1> DEFINE c == call[r]
           S == Of(r, sent)
           A == Of(r, answered)
           t == c.tx
<1>1. c.op = "transferAll" /\ c.at = "send"
  BY DEF BatchSend, In
<1>2. /\ CallInv(r, c, S, A, usable, unset) /\ c \in CallRecord /\ c.marks = {}
      /\ Sound(r, t) /\ t \notin S /\ t \notin A
      /\ A \subseteq S /\ S \subseteq SentTx /\ IsFiniteSet(A)
      /\ \A s, u \in S \cup {t} : s.no = u.no => s = u
  BY <1>1, HandFacts
<1>3. \/ Submit(t, TRUE) /\ Become(r, BatchPaid(c))
      \/ Submit(t, FALSE) /\ Become(r, [c EXCEPT !.at = "returned"])
  BY DEF BatchSend, Hand
<1>4. call[r].at = "send" /\ c = call[r] /\ S = Of(r, sent) /\ A = Of(r, answered)
  BY <1>1
<1> HIDE DEF c, S, A
<1>5. /\ c.list \in Seq(Addresses) /\ IsInjective(c.list) /\ Len(c.list) \in Nat
      /\ c.times = Rounds(Len(c.list)) /\ c.left = Rem(Len(c.list), Batch)
      /\ c.round <= c.times
      /\ c.index = IF c.round < c.times THEN c.round * Batch ELSE Len(c.list)
      /\ c.success <= c.index
  BY <1>1, <1>2 DEF CallInv, Loops
<1>6. /\ c.round > 0 /\ t.no = <<c.round - 1, From>>
      /\ t.to = Part(c.list, c.round - 1)
      /\ c.success <= (c.round - 1) * Batch
  BY <1>1, <1>2 DEF CallInv, AtHand
<1>7. t \in SentTx /\ t.ins \subseteq Outs /\ t.ins # {}
  BY <1>2 DEF Sound, SentTx
<1>8. /\ c.round \in Nat /\ c.times \in Int /\ c.index \in Nat /\ c.success \in Nat
      /\ c.balance \in Nat /\ Batch \in Nat
  BY <1>2, Limits DEF CallRecord
<1>9. \A u \in S : u.no[1] \in Nat /\ u.no[1] < c.round /\ u.no[2] = From
                   /\ u.to = Part(c.list, u.no[1])
  BY <1>1, <1>2 DEF CallInv, Numbered, SentTx
<1>10. /\ c.amount \in 1 .. MaxAmount
       /\ c.round < c.times => c.balance > c.amount * Batch + PreFees
  BY <1>1, <1>2 DEF CallInv, Affordable
<1>11. \A u \in S : u \in A /\ \A k \in 1 .. Len(c.list) :
                                 k <= (u.no[1] + 1) * Batch => k <= c.success
  BY <1>1, <1>2 DEF CallInv, Counted
<1>12. \A u \in A : u.ins \cap usable \subseteq unset
  BY <1>1, <1>2 DEF CallInv, Spent
<1>13. t.no[1] = c.round - 1 /\ t.no[2] = From /\ t.no[1] + 1 = c.round
  BY <1>6, <1>8
<1>14. ASSUME NEW d, d.op = "transferAll", d.round = c.round, d.times = c.times,
              d.left = c.left, d.list = c.list, d.index = c.index, d.amount = c.amount,
              d.balance = c.balance, d.success <= c.index,
              d.at \in {"returned", "mark"}, d.at = "mark" <=> d.marks # {}
       PROVE  /\ Places(d) /\ Loops(d) /\ AtHand(r, d, S \cup {t})
              /\ Numbered(d, S \cup {t}) /\ Affordable(d, S \cup {t})
  <2>1. Places(d)
    BY <1>14 DEF Places
  <2>2. Loops(d)
    BY <1>5, <1>14 DEF Loops
  <2>3. AtHand(r, d, S \cup {t})
    BY <1>14 DEF AtHand
  <2>4. Affordable(d, S \cup {t})
    BY <1>10, <1>14 DEF Affordable
  <2>5. t.no[1] < c.round /\ t.no[2] = From /\ t.to = Part(c.list, t.no[1])
    BY <1>6, <1>8, <1>13
  <2>6. Numbered(d, S \cup {t})
    BY <1>2, <1>9, <1>14, <2>5 DEF Numbered
  <2> QED
    BY <2>1, <2>2, <2>3, <2>4, <2>6
<1>15. CASE Submit(t, TRUE) /\ Become(r, BatchPaid(c))
  <2> DEFINE d == BatchPaid(c)
  <2>1. /\ d.op = "transferAll" /\ d.round = c.round /\ d.times = c.times
        /\ d.left = c.left /\ d.list = c.list /\ d.index = c.index
        /\ d.amount = c.amount /\ d.balance = c.balance /\ d.success = c.index
        /\ d.at = "mark" /\ d.marks = t.ins /\ d.tx = t
    BY <1>1, <1>2 DEF CallRecord, BatchPaid
  <2>2. d \in CallRecord
    BY <1>2, <1>7, <1>8 DEF CallRecord, BatchPaid
  <2> HIDE DEF d
  <2>3. d.success <= c.index
    BY <1>8, <2>1
  <2>4. /\ Places(d) /\ Loops(d) /\ AtHand(r, d, S \cup {t})
        /\ Numbered(d, S \cup {t}) /\ Affordable(d, S \cup {t})
    BY <1>7, <1>14, <2>1, <2>3
  <2>5. \A u \in S \cup {t} : \A k \in 1 .. Len(c.list) :
          k <= (u.no[1] + 1) * Batch => k <= c.index
    <3>1. \A u \in S : \A k \in 1 .. Len(c.list) :
            k <= (u.no[1] + 1) * Batch => k <= c.index
      BY <1>5, <1>8, <1>11
    <3>2. \A k \in 1 .. Len(c.list) : k <= c.round * Batch => k <= c.index
      <4>1. c.index = c.round * Batch \/ c.index = Len(c.list)
        BY <1>5
      <4> QED
        BY <4>1
    <3> QED
      BY <1>13, <3>1, <3>2
  <2>6. Counted(d, S \cup {t}, A \cup {t})
    BY <1>11, <2>1, <2>5 DEF Counted
  <2>7. Spent(d, A \cup {t}, usable, unset)
    BY <1>12, <2>1 DEF Spent
  <2>8. CallInv(r, d, S \cup {t}, A \cup {t}, usable, unset)
    BY <2>4, <2>6, <2>7 DEF CallInv
  <2>9. Submit(t, TRUE) /\ Become(r, d)
    BY <1>15 DEF d
  <2> QED
    BY <1>4, <2>2, <2>8, <2>9, SubmitStep
<1>16. CASE Submit(t, FALSE) /\ Become(r, [c EXCEPT !.at = "returned"])
  <2> DEFINE d == [c EXCEPT !.at = "returned"]
  <2>1. /\ d.op = "transferAll" /\ d.round = c.round /\ d.times = c.times
        /\ d.left = c.left /\ d.list = c.list /\ d.index = c.index
        /\ d.amount = c.amount /\ d.balance = c.balance /\ d.success = c.success
        /\ d.at = "returned" /\ d.marks = {}
    BY <1>1, <1>2 DEF CallRecord
  <2>2. d \in CallRecord
    BY <1>2 DEF CallRecord, Ended
  <2> HIDE DEF d
  <2>3. /\ Places(d) /\ Loops(d) /\ AtHand(r, d, S \cup {t})
        /\ Numbered(d, S \cup {t}) /\ Affordable(d, S \cup {t})
    BY <1>5, <1>14, <2>1
  <2>4. c.success <= t.no[1] * Batch
    BY <1>6, <1>13
  <2>5. Counted(d, S \cup {t}, A)
    BY <1>2, <1>11, <2>1, <2>4 DEF Counted
  <2>6. Spent(d, A, usable, unset)
    BY <1>12, <2>1 DEF Spent
  <2>7. CallInv(r, d, S \cup {t}, A, usable, unset)
    BY <2>3, <2>5, <2>6 DEF CallInv
  <2>8. Submit(t, FALSE) /\ Become(r, d)
    BY <1>16 DEF d
  <2> QED
    BY <1>4, <2>2, <2>7, <2>8, SubmitStep
<1> QED
  BY <1>3, <1>15, <1>16

\* A Transfer hands over its transaction.
LEMMA TransferSends ==
  ASSUME IInv, NEW r \in Calls, TransferSend(r)
  PROVE  IInv'
<1> DEFINE c == call[r]
           S == Of(r, sent)
           A == Of(r, answered)
           t == c.tx
<1>1. c.op = "transfer" /\ c.at = "send"
  BY DEF TransferSend, In
<1>2. /\ CallInv(r, c, S, A, usable, unset) /\ c \in CallRecord /\ c.marks = {}
      /\ \A s, u \in S \cup {t} : s.no = u.no => s = u
  BY <1>1, HandFacts
<1>3. \E ok \in BOOLEAN :
        Submit(t, ok) /\ Become(r, [c EXCEPT !.at = IF ok THEN "returned" ELSE "failed"])
  BY DEF TransferSend, Hand
<1>4. PICK ok \in BOOLEAN :
        Submit(t, ok) /\ Become(r, [c EXCEPT !.at = IF ok THEN "returned" ELSE "failed"])
  BY <1>3
<1>5. call[r].at = "send" /\ c = call[r] /\ S = Of(r, sent) /\ A = Of(r, answered)
  BY <1>1
<1> DEFINE d == [c EXCEPT !.at = IF ok THEN "returned" ELSE "failed"]
           B == IF ok THEN A \cup {t} ELSE A
<1> HIDE DEF c, S, A
<1>6. d.op = "transfer" /\ d.at \in {"returned", "failed"} /\ d.marks = {}
  BY <1>1, <1>2 DEF CallRecord
<1>7. d \in CallRecord
  BY <1>2 DEF CallRecord, Ended
<1>8. Submit(t, ok) /\ Become(r, d)
  BY <1>4
<1> HIDE DEF d
<1>9. Places(d) /\ Loops(d) /\ AtHand(r, d, S \cup {t}) /\ Affordable(d, S \cup {t})
  BY <1>6 DEF Places, Loops, AtHand, Affordable
<1>10. Numbered(d, S \cup {t})
  BY <1>2, <1>6 DEF Numbered
<1>11. Counted(d, S \cup {t}, B) /\ Spent(d, B, usable, unset)
  BY <1>6 DEF Counted, Spent
<1>12. CallInv(r, d, S \cup {t}, B, usable, unset)
  BY <1>9, <1>10, <1>11 DEF CallInv
<1> QED
  BY <1>5, <1>7, <1>8, <1>12, SubmitStep

\* A Merger hands over its transaction.
LEMMA MergerSends ==
  ASSUME IInv, NEW r \in Calls, MergerSend(r)
  PROVE  IInv'
<1> DEFINE c == call[r]
           S == Of(r, sent)
           A == Of(r, answered)
           t == c.tx
           most == c.all + t.change + t.fee
<1>1. c.op = "merger" /\ c.at = "send"
  BY DEF MergerSend, In
<1>2. /\ CallInv(r, c, S, A, usable, unset) /\ c \in CallRecord /\ c.marks = {}
      /\ Sound(r, t) /\ t \notin S /\ t \notin A
      /\ A \subseteq S /\ S \subseteq SentTx /\ IsFiniteSet(A)
      /\ \A s, u \in S \cup {t} : s.no = u.no => s = u
  BY <1>1, HandFacts
<1>3. \/ Submit(t, TRUE)
           /\ Become(r, [c EXCEPT !.all = most, !.round = @ + 1, !.at = "round"])
      \/ Submit(t, FALSE) /\ Become(r, [c EXCEPT !.at = "failed"])
  BY DEF MergerSend, Hand
<1>4. call[r].at = "send" /\ c = call[r] /\ S = Of(r, sent) /\ A = Of(r, answered)
  BY <1>1
<1> HIDE DEF c, S, A
<1>5. c.list \in Seq(Outs) /\ IsInjective(c.list)
  BY <1>1, <1>2 DEF CallInv, Loops
<1>6. /\ t.no = <<c.round, From>> /\ t.ins \subseteq Part(c.list, c.round)
      /\ t.change + t.fee = Worth(t.ins)
  BY <1>1, <1>2 DEF CallInv, AtHand
<1>7. /\ t \in SentTx /\ c.round \in Nat /\ c.all \in Nat
      /\ t.change \in Nat /\ t.fee \in Nat
  BY <1>2, Limits DEF Sound, SentTx, CallRecord
<1>8. \A u \in S : /\ u.no[1] \in Nat /\ u.no[1] < c.round /\ u.no[2] = From
                   /\ u.ins \subseteq Part(c.list, u.no[1])
  BY <1>1, <1>2 DEF CallInv, Numbered, SentTx
<1>9. c.all = SumFunctionOnSet([u \in A |-> Worth(u.ins)], A)
  BY <1>1, <1>2 DEF CallInv, Counted
<1>10. most = c.all + Worth(t.ins) /\ most \in Nat
  BY <1>6, <1>7
<1> HIDE DEF most
<1>11. CASE Submit(t, TRUE)
              /\ Become(r, [c EXCEPT !.all = most, !.round = @ + 1, !.at = "round"])
  <2> DEFINE d == [c EXCEPT !.all = most, !.round = @ + 1, !.at = "round"]
  <2>1. /\ d.op = "merger" /\ d.round = c.round + 1 /\ d.list = c.list
        /\ d.all = most /\ d.at = "round" /\ d.marks = {}
    BY <1>1, <1>2 DEF CallRecord
  <2>2. d \in CallRecord
    <3>1. c.round + 1 \in Nat
      BY <1>7
    <3> QED
      BY <1>2, <1>10, <3>1 DEF CallRecord
  <2>3. Submit(t, TRUE) /\ Become(r, d)
    BY <1>11
  <2> HIDE DEF d
  <2>4. Places(d) /\ Loops(d) /\ AtHand(r, d, S \cup {t}) /\ Affordable(d, S \cup {t})
    BY <1>5, <2>1 DEF Places, Loops, AtHand, Affordable
  <2>5. Numbered(d, S \cup {t})
    <3>1. \A u \in S \cup {t} : /\ u.no[1] < c.round + 1 /\ u.no[2] = From
                                /\ u.ins \subseteq Part(c.list, u.no[1])
      BY <1>6, <1>7, <1>8
    <3> QED
      BY <1>2, <2>1, <3>1 DEF Numbered
  <2>6. Counted(d, S \cup {t}, A \cup {t})
    <3>1. SumFunctionOnSet([u \in A \cup {t} |-> Worth(u.ins)], A \cup {t})
            = SumFunctionOnSet([u \in A |-> Worth(u.ins)], A) + Worth(t.ins)
      BY <1>2, <1>7, OneMore
    <3>2. d.all = SumFunctionOnSet([u \in A \cup {t} |-> Worth(u.ins)], A \cup {t})
      BY <1>9, <1>10, <2>1, <3>1
    <3> QED
      BY <2>1, <3>2 DEF Counted
  <2>7. Spent(d, A \cup {t}, usable, unset)
    BY <2>1 DEF Spent
  <2>8. CallInv(r, d, S \cup {t}, A \cup {t}, usable, unset)
    BY <2>4, <2>5, <2>6, <2>7 DEF CallInv
  <2> QED
    BY <1>4, <2>2, <2>3, <2>8, SubmitStep
<1>12. CASE Submit(t, FALSE) /\ Become(r, [c EXCEPT !.at = "failed"])
  <2> DEFINE d == [c EXCEPT !.at = "failed"]
  <2>1. /\ d.op = "merger" /\ d.list = c.list /\ d.all = c.all
        /\ d.at = "failed" /\ d.marks = {}
    BY <1>1, <1>2 DEF CallRecord
  <2>2. d \in CallRecord
    BY <1>2 DEF CallRecord, Ended
  <2>3. Submit(t, FALSE) /\ Become(r, d)
    BY <1>12
  <2> HIDE DEF d
  <2>4. Places(d) /\ Loops(d) /\ AtHand(r, d, S \cup {t}) /\ Affordable(d, S \cup {t})
    BY <1>5, <2>1 DEF Places, Loops, AtHand, Affordable
  <2>5. Numbered(d, S \cup {t})
    BY <1>2, <2>1 DEF Numbered
  <2>6. Counted(d, S \cup {t}, A) /\ Spent(d, A, usable, unset)
    BY <1>9, <2>1 DEF Counted, Spent
  <2>7. CallInv(r, d, S \cup {t}, A, usable, unset)
    BY <2>4, <2>5, <2>6 DEF CallInv
  <2> QED
    BY <1>4, <2>2, <2>3, <2>7, SubmitStep
<1> QED
  BY <1>3, <1>11, <1>12

\* An amount that TxEncode lets through.
LEMMA EncodableAmount ==
  ASSUME NEW r, NEW no, NEW ins, NEW to, NEW n \in Nat \ {0}, NEW a \in 0 .. Modulus - 1,
         NEW change, NEW fee, Encodable(MakeTx(r, no, ins, to, n, a, change, fee))
  PROVE  a \in 1 .. MaxAmount
<1>1. Int64(a) \in 1 .. MaxAmount
  BY TxFacts DEF Encodable
<1>2. Int64(a) = a
  BY <1>1, Signed
<1> QED
  BY <1>1, <1>2

\* What is found for payments of an amount that can be carried.
LEMMA FoundFacts ==
  ASSUME usable \subseteq Outs, NEW a \in 0 .. MaxAmount, NEW n \in 0 .. Batch, NEW least,
         NEW ins \in Found(least, a * n), NEW total \in FloatTotals(ins)
  PROVE  /\ ins \subseteq usable /\ ins \in SUBSET Outs /\ total \in Int
         /\ total <= Batch * MaxAmount + PreFees + MaxAmount
<1> DEFINE p == a * n
           b == Batch * MaxAmount
           rows == RowsOf(From, least)
<1>1. /\ p \in Nat /\ b \in Nat /\ p <= b /\ Plus(p, PreFees) = p + PreFees
      /\ PreFees \in Nat /\ MaxAmount \in Nat
  BY PaidFits, Limits
<1>2. rows \subseteq usable /\ rows \in SUBSET Outs
  BY DEF RowsOf
<1>3. ins = FirstWorth(rows, Plus(p, PreFees)) \/ ins = {}
  BY DEF Found
<1>10. b = Batch * MaxAmount
  OBVIOUS
<1> HIDE DEF p, b, rows
<1>4. p + PreFees \in Nat
  BY <1>1
<1>5. ins \subseteq rows /\ Worth(ins) <= p + PreFees + MaxAmount
  <2>1. CASE ins = {}
    BY <1>1, <2>1, WorthAdd
  <2>2. CASE ins # {}
    BY <1>1, <1>2, <1>3, <1>4, <2>2, FirstWorthFacts
  <2> QED
    BY <2>1, <2>2
<1>6. ins \in SUBSET Outs
  BY <1>2, <1>5
<1>7. Worth(ins) \in Nat /\ Cardinality(ins) \in Nat
  BY <1>6, OutsFacts
<1>8. total \in Int /\ total <= Worth(ins)
  BY <1>7 DEF FloatTotals
<1>9. total <= b + PreFees + MaxAmount
  BY <1>1, <1>5, <1>7, <1>8
<1> QED
  BY <1>2, <1>5, <1>6, <1>8, <1>9, <1>10

\* A transaction of TransferAll or Transfer that TxEncode lets through.
LEMMA CoveredTx ==
  ASSUME usable \subseteq Outs, NEW r \in Calls,
         NEW no \in Nat \X (Addresses \cup {From}), NEW to \in SUBSET Addresses,
         NEW n \in 1 .. Batch, NEW a \in 0 .. Modulus - 1, NEW least,
         NEW ins \in Found(least, Times(a, n)), NEW total \in FloatTotals(ins),
         total >= Plus(a, Fess(ins, n)),
         Encodable(MakeTx(r, no, ins, to, n, a,
                     Minus(total, Plus(Times(a, n), Fess(ins, n))), Fess(ins, n)))
  PROVE  /\ Sound(r, MakeTx(r, no, ins, to, n, a,
                       Minus(total, Plus(Times(a, n), Fess(ins, n))), Fess(ins, n)))
         /\ a \in 1 .. MaxAmount /\ ins \subseteq usable
<1> DEFINE fee == Fess(ins, n)
           due == Plus(Times(a, n), fee)
<1>1. n \in Nat \ {0} /\ n \in 0 .. Batch /\ 1 \in 0 .. Batch
  BY Limits
<1>2. a \in 1 .. MaxAmount /\ a \in 0 .. MaxAmount
  <2>1. a \in 1 .. MaxAmount
    BY <1>1, EncodableAmount
  <2> QED
    BY <2>1, Limits
<1>3. Times(a, n) = a * n
  BY <1>1, <1>2, PaidFits
<1>4. /\ ins \subseteq usable /\ ins \in SUBSET Outs /\ total \in Int
      /\ total <= Batch * MaxAmount + PreFees + MaxAmount
  BY <1>1, <1>2, <1>3, FoundFacts
<1>5. fee \in Nat /\ fee > 0 /\ fee \in 0 .. MaxFee
  BY <1>1, <1>4, FessFacts, Limits
<1> HIDE DEF fee
<1>6. due = a * n + fee
  BY <1>1, <1>2, <1>3, <1>5, PaidFits
<1>7. Plus(a, fee) = a + fee
  <2>1. a * 1 = a
    BY <1>2, Limits
  <2>2. Plus(a * 1, fee) = a * 1 + fee
    BY <1>1, <1>2, <1>5, PaidFits
  <2> QED
    BY <2>1, <2>2
<1>8. total \in Nat /\ total > 0
  <2>1. total >= a + fee
    BY <1>7 DEF fee
  <2> QED
    BY <1>2, <1>4, <1>5, <2>1
<1>9. a <= MaxAmount => due = a * n + Fess(ins, n)
  BY <1>6 DEF fee
<1>10. Encodable(MakeTx(r, no, ins, to, n, a, Minus(total, due), Fess(ins, n)))
  BY DEF fee
<1>11. n = 0 => a <= MaxAmount
  BY <1>1
<1> HIDE DEF due
<1>12. Sound(r, MakeTx(r, no, ins, to, n, a, Minus(total, due), Fess(ins, n)))
  BY <1>1, <1>4, <1>8, <1>9, <1>10, <1>11, BuiltTx
<1> QED
  BY <1>2, <1>4, <1>12 DEF due, fee

\* A call that has handed over nothing.
LEMMA NothingSent ==
  ASSUME NEW r, NEW c, Places(c), Loops(c), c.op \in {"transferAll", "transfer"},
         c.at # "send", c.marks = {}
  PROVE  CallInv(r, c, {}, {}, usable, unset)
<1>1. c.at # "mark"
  BY DEF Places
<1> QED
  BY <1>1 DEF CallInv, AtHand, Numbered, Affordable, Counted, Spent

\* The balance is read.
LEMMA Balances ==
  ASSUME IInv, NEW r \in Calls, Balance(r)
  PROVE  IInv'
<1> DEFINE c == call[r]
           S == Of(r, sent)
           A == Of(r, answered)
<1>1. c.at = "balance" /\ UNCHANGED ledgerVars
  BY DEF Balance
<1>2. PICK b \in {0, Worth(RowsOf(From, 1)) % Modulus} :
        Become(r, [c EXCEPT !.balance = b, !.at = "round"])
  BY DEF Balance
<1>3. b \in Nat
  <2>1. RowsOf(From, 1) \in SUBSET Outs
    BY DEF RowsOf, IInv, Types
  <2>2. Worth(RowsOf(From, 1)) \in Nat
    BY <2>1, OutsFacts
  <2> DEFINE w == Worth(RowsOf(From, 1))
  <2>3. w \in Nat /\ Modulus \in Nat \ {0}
    BY <2>2, Limits
  <2> HIDE DEF w
  <2>4. w % Modulus \in Nat
    BY <2>3
  <2> QED
    BY <2>4 DEF w
<1>4. CallInv(r, c, S, A, usable, unset) /\ c \in CallRecord
  BY DEF IInv, Types
<1>5. A \subseteq S /\ S \subseteq SentTx
  BY OfFacts
<1> DEFINE d == [c EXCEPT !.balance = b, !.at = "round"]
<1>6. Become(r, d)
  BY <1>2
<1>11. S = Of(r, sent) /\ A = Of(r, answered)
  OBVIOUS
<1> HIDE DEF c, S, A
<1>7. c.op \in {"transferAll", "transfer"} /\ c.marks = {}
  <2>1. c.op \in {"none", "split", "transferAll", "transfer", "merger"}
    BY <1>4 DEF CallRecord
  <2>2. Idle.at # "balance"
    BY DEF Idle
  <2> QED
    BY <1>1, <1>4, <2>1, <2>2 DEF CallInv, Places
<1>8. S = {} /\ A = {}
  <2>1. CASE c.op = "transferAll"
    <3>1. c.round = 0
      BY <1>1, <1>4, <2>1 DEF CallInv, Loops
    <3>2. \A u \in S : u.no[1] < c.round /\ u.no[1] \in Nat
      BY <1>4, <1>5, <2>1 DEF CallInv, Numbered, SentTx
    <3> QED
      BY <1>5, <3>1, <3>2
  <2>2. CASE c.op = "transfer"
    BY <1>1, <1>4, <1>5, <2>2 DEF CallInv, Numbered
  <2> QED
    BY <1>7, <2>1, <2>2
<1>9. /\ d.op = c.op /\ d.at = "round" /\ d.marks = {} /\ d.list = c.list
      /\ d.times = c.times /\ d.left = c.left /\ d.round = c.round
      /\ d.index = c.index /\ d.success = c.success
  BY <1>4, <1>7 DEF CallRecord
<1>10. d \in CallRecord
  BY <1>3, <1>4 DEF CallRecord
<1> HIDE DEF d
<1>12. Places(d)
  BY <1>7, <1>9 DEF Places
<1>13. Loops(d)
  <2>1. Loops(c)
    BY <1>4 DEF CallInv
  <2> QED
    BY <1>7, <1>9, <2>1 DEF Loops
<1>14. CallInv(r, d, S, A, usable, unset)
  BY <1>7, <1>8, <1>9, <1>12, <1>13, NothingSent
<1> QED
  BY <1>1, <1>6, <1>10, <1>11, <1>14, LocalStep

\* A Split goes on with another round or another address.
LEMMA SplitRounds ==
  ASSUME IInv, NEW r \in Calls, SplitRound(r)
  PROVE  IInv'
<1> DEFINE c == call[r]
           S == Of(r, sent)
           A == Of(r, answered)
<1>1. c.op = "split" /\ c.at = "round" /\ UNCHANGED ledgerVars
  BY DEF SplitRound, In
<1>2. CallInv(r, c, S, A, usable, unset) /\ c \in CallRecord /\ usable \subseteq Outs
  BY DEF IInv, Types
<1>3. A \subseteq S /\ S \subseteq SentTx
  BY OfFacts
<1>4. IF c.todo = {}
      THEN Become(r, IF c.round = c.times
                     THEN [c EXCEPT !.at = "returned"]
                     ELSE [c EXCEPT !.round = @ + 1, !.todo = Addresses])
      ELSE \E a \in c.todo :
        LET next == NextAddress(c, a)
            need == OneAmount * TimeCount(c)
            ins  == FirstWorth(RowsOf(a, OneAmount + 1), need + PreFees)
            fee  == Fess(ins, TimeCount(c))
            t    == MakeTx(r, <<c.round, a>>, ins, {a}, TimeCount(c),
                       OneAmount, Minus(Worth(ins), need + fee), fee)
        IN  IF Worth(ins) < need + fee
            THEN Become(r, next)
            ELSE Encode(r, t, next, next)
  BY DEF SplitRound
<1>5. S = Of(r, sent) /\ A = Of(r, answered)
  OBVIOUS
<1> HIDE DEF c, S, A
<1>6. TimeCount(c) \in 0 .. Batch /\ c.marks = {}
  BY <1>1, <1>2 DEF CallInv, Loops, Places
<1>7. c.round \in Nat /\ c.todo \subseteq Addresses
  BY <1>2 DEF CallRecord
<1>8. \A u \in S : u.no[1] \in Nat /\ u.no[1] <= c.round
                   /\ (u.no[1] = c.round => u.no[2] \notin c.todo)
  BY <1>1, <1>2, <1>3 DEF CallInv, Numbered, SentTx
<1>9. \A s, u \in S : s.no = u.no => s = u
  BY <1>2 DEF CallInv, Numbered
<1>10. c.success = SumFunctionOnSet([u \in A |-> u.pays], A)
  BY <1>1, <1>2 DEF CallInv, Counted
<1>11. \A u \in A : u.ins \cap usable \subseteq unset
  BY <1>1, <1>2, <1>6 DEF CallInv, Spent
<1>12. ASSUME NEW d \in CallRecord, Become(r, d), d.op = "split", d.times = c.times,
              d.left = c.left, d.success = c.success, d.marks = {},
              d.at \in {"returned", "round", "send"}, AtHand(r, d, S),
              d.at = "send" => d.tx.ins \subseteq usable,
              \A u \in S : u.no[1] <= d.round /\ (u.no[1] = d.round => u.no[2] \notin d.todo)
       PROVE  IInv'
  <2>1. Places(d)
    BY <1>12 DEF Places
  <2>2. TimeCount(d) = TimeCount(c)
    BY <1>12 DEF TimeCount
  <2>3. Loops(d)
    BY <1>6, <1>12, <2>2 DEF Loops
  <2>4. Numbered(d, S) /\ Affordable(d, S)
    BY <1>9, <1>12 DEF Numbered, Affordable
  <2>5. Counted(d, S, A)
    BY <1>10, <1>12 DEF Counted
  <2>6. Spent(d, A, usable, unset)
    <3>1. ASSUME d.at = "send", NEW u \in A PROVE u.ins \cap d.tx.ins \subseteq unset
      <4>1. d.tx.ins \subseteq usable /\ u.ins \cap usable \subseteq unset
        BY <1>11, <1>12, <3>1
      <4> QED
        BY <4>1
    <3>2. \A u \in A : u.ins \cap usable \subseteq unset \cup d.marks
      BY <1>11, <1>12
    <3> QED
      BY <1>12, <3>1, <3>2 DEF Spent
  <2>7. CallInv(r, d, S, A, usable, unset)
    BY <1>12, <2>1, <2>3, <2>4, <2>5, <2>6 DEF CallInv
  <2> QED
    BY <1>1, <1>5, <1>12, <2>7, LocalStep
<1>13. CASE c.todo = {} /\ c.round = c.times
  <2> DEFINE d == [c EXCEPT !.at = "returned"]
  <2>1. /\ d.op = "split" /\ d.times = c.times /\ d.left = c.left
        /\ d.success = c.success /\ d.marks = {} /\ d.at = "returned"
        /\ d.round = c.round /\ d.todo = c.todo
    BY <1>1, <1>2, <1>6 DEF CallRecord
  <2>2. d \in CallRecord
    BY <1>2 DEF CallRecord, Ended
  <2>3. Become(r, d)
    BY <1>4, <1>13
  <2> HIDE DEF d
  <2>4. AtHand(r, d, S)
    BY <2>1 DEF AtHand
  <2> QED
    BY <1>8, <1>12, <2>1, <2>2, <2>3, <2>4
<1>14. CASE c.todo = {} /\ c.round # c.times
  <2> DEFINE d == [c EXCEPT !.round = @ + 1, !.todo = Addresses]
  <2>1. /\ d.op = "split" /\ d.times = c.times /\ d.left = c.left
        /\ d.success = c.success /\ d.marks = {} /\ d.at = "round"
        /\ d.round = c.round + 1 /\ d.todo = Addresses
    BY <1>1, <1>2, <1>6 DEF CallRecord
  <2>2. d \in CallRecord
    <3>1. c.round + 1 \in Nat
      BY <1>7
    <3> QED
      BY <1>2, <3>1 DEF CallRecord
  <2>3. Become(r, d)
    BY <1>4, <1>14
  <2> HIDE DEF d
  <2>4. AtHand(r, d, S)
    BY <2>1 DEF AtHand
  <2>5. \A u \in S : u.no[1] <= d.round /\ (u.no[1] = d.round => u.no[2] \notin d.todo)
    BY <1>7, <1>8, <2>1
  <2> QED
    BY <1>12, <2>1, <2>2, <2>3, <2>4, <2>5
<1>15. CASE c.todo # {}
  <2>1. PICK a \in c.todo :
        LET next == NextAddress(c, a)
            need == OneAmount * TimeCount(c)
            ins  == FirstWorth(RowsOf(a, OneAmount + 1), need + PreFees)
            fee  == Fess(ins, TimeCount(c))
            t    == MakeTx(r, <<c.round, a>>, ins, {a}, TimeCount(c),
                       OneAmount, Minus(Worth(ins), need + fee), fee)
        IN  IF Worth(ins) < need + fee
            THEN Become(r, next)
            ELSE Encode(r, t, next, next)
    BY <1>4, <1>15
  <2> DEFINE n    == TimeCount(c)
             next == NextAddress(c, a)
             need == OneAmount * n
             rows == RowsOf(a, OneAmount + 1)
             ins  == FirstWorth(rows, need + PreFees)
             fee  == Fess(ins, n)
             total == Worth(ins)
             t    == MakeTx(r, <<c.round, a>>, ins, {a}, n, OneAmount,
                       Minus(total, need + fee), fee)
             d    == [next EXCEPT !.tx = t, !.at = "send"]
  <2>2. \/ Become(r, next)
        \/ ~ (total < need + fee) /\ Encodable(t) /\ Become(r, d)
    BY <2>1 DEF Encode
  <2>3. /\ next.op = "split" /\ next.times = c.times /\ next.left = c.left
        /\ next.success = c.success /\ next.marks = {} /\ next.at = "round"
        /\ next.round = c.round /\ next.todo = c.todo \ {a} /\ next \in CallRecord
    BY <1>1, <1>2, <1>6 DEF CallRecord, NextAddress
  <2>4. CASE Become(r, next)
    <3> HIDE DEF next
    <3>1. AtHand(r, next, S)
      BY <2>3 DEF AtHand
    <3>2. \A u \in S : u.no[1] <= next.round
                       /\ (u.no[1] = next.round => u.no[2] \notin next.todo)
      BY <1>8, <2>3
    <3> QED
      BY <1>12, <2>3, <2>4, <3>1, <3>2
  <2>5. CASE ~ (total < need + fee) /\ Encodable(t) /\ Become(r, d)
    <3>1. /\ OneAmount \in 0 .. MaxAmount /\ OneAmount <= MaxAmount
          /\ OneAmount \in 0 .. Modulus - 1 /\ n \in 0 .. Batch
      BY <1>6, Limits
    <3>2. need \in Nat /\ need <= Batch * MaxAmount /\ need + PreFees \in Nat
      BY <3>1, PaidFits, Limits
    <3>3. rows \subseteq usable /\ rows \in SUBSET Outs
      BY <1>2 DEF RowsOf
    <3>4. ins \subseteq rows /\ total <= need + PreFees + MaxAmount
      <4> HIDE DEF need, rows
      <4> QED
        BY <3>2, <3>3, FirstWorthFacts
    <3>5. ins \subseteq usable /\ ins \in SUBSET Outs
      BY <3>3, <3>4
    <3> HIDE DEF ins, rows
    <3>6. total \in Nat /\ total \in FloatTotals(ins)
      <4>1. Cardinality(ins) \in Nat /\ Worth(ins) \in Nat
        BY <3>5, OutsFacts
      <4> QED
        BY <4>1 DEF FloatTotals
    <3>7. fee \in Nat /\ fee > 0
      BY <3>1, <3>5, FessFacts
    <3> HIDE DEF total, fee, need
    <3>8. total > 0 /\ total <= Batch * MaxAmount + PreFees + MaxAmount
      BY <2>5, <3>2, <3>4, <3>6, <3>7, Limits
    <3>9. OneAmount <= MaxAmount => need + fee = OneAmount * n + Fess(ins, n)
      BY DEF need, fee
    <3>10. <<c.round, a>> \in Nat \X (Addresses \cup {From}) /\ {a} \in SUBSET Addresses
      BY <1>7
    <3>11. Encodable(MakeTx(r, <<c.round, a>>, ins, {a}, n, OneAmount,
                       Minus(total, need + fee), Fess(ins, n)))
      BY <2>5 DEF fee
    <3> HIDE DEF n
    <3>12. Sound(r, MakeTx(r, <<c.round, a>>, ins, {a}, n, OneAmount,
                       Minus(total, need + fee), Fess(ins, n)))
      <4> DEFINE due == need + fee
      <4> HIDE DEF due
      <4>1. OneAmount <= MaxAmount => due = OneAmount * n + Fess(ins, n)
        BY <3>9 DEF due
      <4>2. n = 0 => OneAmount <= MaxAmount
        BY <3>1
      <4>3. Encodable(MakeTx(r, <<c.round, a>>, ins, {a}, n, OneAmount,
                       Minus(total, due), Fess(ins, n)))
        BY <3>11 DEF due
      <4>4. Sound(r, MakeTx(r, <<c.round, a>>, ins, {a}, n, OneAmount,
                       Minus(total, due), Fess(ins, n)))
        BY <3>1, <3>5, <3>6, <3>8, <3>10, <4>1, <4>2, <4>3, BuiltTx
      <4> QED
        BY <4>4 DEF due
    <3>13. Sound(r, t)
      BY <3>12 DEF fee
    <3>14. t.no = <<c.round, a>> /\ t.ins = ins /\ t.pays = n
      BY TxFacts
    <3> HIDE DEF t
    <3>15. /\ d.op = "split" /\ d.times = c.times /\ d.left = c.left /\ d.tx = t
           /\ d.success = c.success /\ d.marks = {} /\ d.at = "send"
           /\ d.round = c.round /\ d.todo = c.todo \ {a} /\ d \in CallRecord
      <4> HIDE DEF next
      <4> QED
        BY <2>3, <3>13 DEF Sound, CallRecord
    <3>16. Become(r, d)
      BY <2>5
    <3> HIDE DEF d
    <3>17. TimeCount(d) = n
      BY <3>15 DEF TimeCount, n
    <3>18. \A u \in S : u.no # t.no
      BY <1>8, <3>14
    <3>19. AtHand(r, d, S)
      BY <3>13, <3>14, <3>15, <3>17, <3>18 DEF AtHand
    <3>20. \A u \in S : u.no[1] <= d.round /\ (u.no[1] = d.round => u.no[2] \notin d.todo)
      BY <1>8, <3>15
    <3>21. d.tx.ins \subseteq usable
      BY <3>5, <3>14, <3>15
    <3> QED
      BY <1>12, <3>15, <3>16, <3>19, <3>20, <3>21
  <2> QED
    BY <2>2, <2>4, <2>5
<1> QED
  BY <1>13, <1>14, <1>15

\* A TransferAll goes on with another batch.
LEMMA BatchRounds ==
  ASSUME IInv, NEW r \in Calls, BatchRound(r)
  PROVE  IInv'
<1> DEFINE c == call[r]
           S == Of(r, sent)
           A == Of(r, answered)
           n == OneCount(c)
           sum == Times(c.amount, n)
           next == NextBatch(c, n)
           to == {c.list[k] : k \in c.index + 1 .. c.index + n}
           Built(ins, total) ==
             MakeTx(r, <<c.round, From>>, ins, to, n, c.amount,
               Minus(total, Plus(sum, Fess(ins, n))), Fess(ins, n))
<1>1. c.op = "transferAll" /\ c.at = "round" /\ UNCHANGED ledgerVars
  BY DEF BatchRound, In
<1>2. CallInv(r, c, S, A, usable, unset) /\ c \in CallRecord /\ usable \subseteq Outs
  BY DEF IInv, Types
<1>3. A \subseteq S /\ S \subseteq SentTx
  BY OfFacts
<1>4. IF c.round = c.times
      THEN GoTo(r, "returned")
      ELSE IF c.balance <= Plus(sum, PreFees)
      THEN Become(r, [c EXCEPT !.at = "refused", !.success = 0])
      ELSE \E ins \in Found(OneAmount + 1, sum) : \E total \in FloatTotals(ins) :
             IF Covers(total, c, Fess(ins, n))
             THEN Encode(r, Built(ins, total), next, next)
             ELSE Become(r, next)
  BY DEF BatchRound
<1>5. S = Of(r, sent) /\ A = Of(r, answered) /\ c = call[r]
  OBVIOUS
<1> HIDE DEF c, S, A
<1>6. /\ c.list \in Seq(Addresses) /\ IsInjective(c.list) /\ Len(c.list) \in Nat
      /\ c.times = Rounds(Len(c.list)) /\ c.left = Rem(Len(c.list), Batch)
      /\ c.round <= c.times
      /\ c.index = IF c.round < c.times THEN c.round * Batch ELSE Len(c.list)
      /\ c.success <= c.index
  BY <1>1, <1>2 DEF CallInv, Loops
<1>7. /\ c.round \in Nat /\ c.times \in Int /\ c.index \in Nat /\ c.success \in Nat
      /\ c.balance \in Nat /\ Batch \in Nat /\ c.amount \in 0 .. Modulus - 1
      /\ c.marks = {}
  BY <1>1, <1>2, Limits DEF CallRecord, CallInv, Places
<1>8. \A u \in S : u.no[1] \in Nat /\ u.no[1] < c.round /\ u.no[2] = From
                   /\ u.to = Part(c.list, u.no[1])
  BY <1>1, <1>2, <1>3 DEF CallInv, Numbered, SentTx
<1>9. S # {} =>
       /\ c.amount \in 1 .. MaxAmount
       /\ c.round < c.times => c.balance > c.amount * Batch + PreFees
  BY <1>1, <1>2 DEF CallInv, Affordable
<1>10. \A u \in S : u \in A /\ \A k \in 1 .. Len(c.list) :
                                 k <= (u.no[1] + 1) * Batch => k <= c.success
  BY <1>1, <1>2 DEF CallInv, Counted
<1>11. \A u \in A : u.ins \cap usable \subseteq unset
  BY <1>1, <1>2, <1>7 DEF CallInv, Spent
<1>12. \A s, u \in S : s.no = u.no => s = u
  BY <1>2 DEF CallInv, Numbered
<1>13. CASE c.round = c.times
  <2> DEFINE d == [c EXCEPT !.at = "returned"]
  <2>1. Become(r, d)
    BY <1>2, <1>4, <1>5, <1>13 DEF GoTo, Become, IInv, Types
  <2>2. /\ d.op = "transferAll" /\ d.round = c.round /\ d.times = c.times
        /\ d.left = c.left /\ d.list = c.list /\ d.index = c.index
        /\ d.amount = c.amount /\ d.balance = c.balance /\ d.success = c.success
        /\ d.at = "returned" /\ d.marks = {}
    BY <1>1, <1>2, <1>7 DEF CallRecord
  <2>3. d \in CallRecord
    BY <1>2 DEF CallRecord, Ended
  <2> HIDE DEF d
  <2>4. Places(d) /\ AtHand(r, d, S)
    BY <2>2 DEF Places, AtHand
  <2>5. Loops(d)
    BY <1>6, <2>2 DEF Loops
  <2>6. Numbered(d, S)
    BY <1>8, <1>12, <2>2 DEF Numbered
  <2>7. Affordable(d, S)
    BY <1>9, <2>2 DEF Affordable
  <2>8. Counted(d, S, A)
    BY <1>10, <2>2 DEF Counted
  <2>9. Spent(d, A, usable, unset)
    BY <1>11, <2>2 DEF Spent
  <2>10. CallInv(r, d, S, A, usable, unset)
    BY <2>4, <2>5, <2>6, <2>7, <2>8, <2>9 DEF CallInv
  <2> QED
    BY <1>1, <1>5, <2>1, <2>3, <2>10, LocalStep
<1>14. CASE c.round # c.times
  <2>1. c.round < c.times /\ c.index = c.round * Batch
    BY <1>6, <1>7, <1>14
  <2>2. /\ n \in 1 .. Batch /\ c.index + n <= Len(c.list)
        /\ c.index + n = IF c.round + 1 < c.times
                         THEN (c.round + 1) * Batch ELSE Len(c.list)
        /\ c.round + 1 < c.times => n = Batch
        /\ \A k \in 1 .. Len(c.list) : k <= (c.round + 1) * Batch <=> k <= c.index + n
    <3> DEFINE len == Len(c.list)
               h == c.round
    <3>1. len \in Nat /\ h \in Nat /\ h < Rounds(len) /\ c.index = h * Batch
          /\ c.times = Rounds(len)
      BY <1>6, <1>7, <2>1
    <3>2. n = IF h = Rounds(len) - 1 /\ Rem(len, Batch) # 0 THEN Rem(len, Batch) ELSE Batch
      BY <1>6 DEF OneCount
    <3>5. len = Len(c.list) /\ h = c.round
      OBVIOUS
    <3> HIDE DEF len, h, n
    <3>3. /\ n \in 1 .. Batch /\ h * Batch \in Nat /\ h * Batch + n <= len
          /\ h * Batch + n = IF h + 1 < Rounds(len) THEN (h + 1) * Batch ELSE len
          /\ h + 1 < Rounds(len) => n = Batch
          /\ \A k \in 1 .. len : k <= (h + 1) * Batch <=> k <= h * Batch + n
      BY <3>1, <3>2, BatchFacts
    <3> QED
      BY <3>1, <3>3, <3>5
  <2>3. to \in SUBSET Addresses /\ to = Part(c.list, c.round)
    <3>1. c.index + 1 .. c.index + n
            = {k \in 1 .. Len(c.list) : c.round * Batch < k /\ k <= (c.round + 1) * Batch}
      <4>1. ASSUME NEW k \in Int
            PROVE  (c.index + 1 <= k /\ k <= c.index + n)
                     <=> (k \in 1 .. Len(c.list) /\ c.index < k
                            /\ k <= (c.round + 1) * Batch)
        <5> HIDE DEF n
        <5>1. c.index + 1 <= k <=> c.index < k
          BY <1>7
        <5>2. (c.index < k /\ k <= c.index + n) => k \in 1 .. Len(c.list)
          BY <1>6, <1>7, <2>2
        <5>3. k \in 1 .. Len(c.list) => (k <= (c.round + 1) * Batch <=> k <= c.index + n)
          BY <2>2
        <5> QED
          BY <5>1, <5>2, <5>3
      <4> HIDE DEF n
      <4> DEFINE x == c.index + n
                 y == (c.round + 1) * Batch
                 z == c.round * Batch
      <4>2. c.index + 1 \in Int /\ x \in Int /\ z = c.index
        BY <1>7, <2>1, <2>2
      <4>3. \A k \in Int : (c.index + 1 <= k /\ k <= x)
                     <=> (k \in 1 .. Len(c.list) /\ z < k /\ k <= y)
        BY <4>1, <4>2
      <4> HIDE DEF x, y, z
      <4>4. c.index + 1 .. x = {k \in 1 .. Len(c.list) : z < k /\ k <= y}
        BY <1>6, <4>2, <4>3
      <4> QED
        BY <4>4 DEF x, y, z
    <3>2. to = Part(c.list, c.round)
      BY <3>1 DEF Part
    <3>3. Part(c.list, c.round) \subseteq Addresses
      BY <1>6, <1>7, PartFacts
    <3> QED
      BY <3>2, <3>3
  <2>4. /\ next.op = "transferAll" /\ next.round = c.round + 1 /\ next.times = c.times
        /\ next.left = c.left /\ next.list = c.list /\ next.index = c.index + n
        /\ next.amount = c.amount /\ next.balance = c.balance
        /\ next.success = c.success /\ next.at = "round" /\ next.marks = {}
    BY <1>1, <1>2, <1>7 DEF CallRecord, NextBatch
  <2>5. next \in CallRecord
    <3>1. c.index + n \in Nat /\ c.round + 1 \in Nat
      BY <1>7, <2>2
    <3> HIDE DEF n
    <3> QED
      BY <1>2, <3>1 DEF CallRecord, NextBatch
  <2> HIDE DEF n, next, to
  <2>6. ASSUME NEW d \in CallRecord, Become(r, d), d.op = "transferAll",
               d.round = c.round + 1, d.times = c.times, d.left = c.left, d.list = c.list,
               d.index = c.index + n, d.amount = c.amount, d.balance = c.balance,
               d.success = c.success, d.marks = {}, d.at \in {"round", "send"},
               AtHand(r, d, S), d.at = "send" => d.tx.ins \subseteq usable,
               d.at = "send" =>
                 /\ c.amount \in 1 .. MaxAmount
                 /\ c.round + 1 < c.times => c.balance > c.amount * Batch + PreFees
        PROVE  IInv'
    <3>1. Places(d)
      BY <2>6 DEF Places
    <3>2. Loops(d)
      <4>1. c.round + 1 <= c.times /\ c.success <= c.index + n
            /\ c.index + n = IF c.round + 1 < c.times
                             THEN (c.round + 1) * Batch ELSE Len(c.list)
        BY <1>6, <1>7, <2>1, <2>2
      <4> QED
        BY <1>6, <2>6, <4>1 DEF Loops
    <3>3. Numbered(d, S)
      <4>1. \A u \in S : u.no[1] < c.round + 1 /\ u.no[2] = From
                         /\ u.to = Part(c.list, u.no[1])
        BY <1>7, <1>8
      <4> QED
        BY <1>12, <2>6, <4>1 DEF Numbered
    <3>4. Affordable(d, S)
      <4>1. S # {} =>
              /\ c.amount \in 1 .. MaxAmount
              /\ c.round + 1 < c.times => c.balance > c.amount * Batch + PreFees
        BY <1>9, <2>1
      <4> QED
        BY <2>6, <4>1 DEF Affordable
    <3>5. Counted(d, S, A)
      BY <1>10, <2>6 DEF Counted
    <3>6. Spent(d, A, usable, unset)
      <4>1. ASSUME d.at = "send", NEW u \in A PROVE u.ins \cap d.tx.ins \subseteq unset
        <5>1. d.tx.ins \subseteq usable /\ u.ins \cap usable \subseteq unset
          BY <1>11, <2>6, <4>1
        <5> QED
          BY <5>1
      <4>2. \A u \in A : u.ins \cap usable \subseteq unset \cup d.marks
        BY <1>11
      <4> QED
        BY <2>6, <4>1, <4>2 DEF Spent
    <3>7. CallInv(r, d, S, A, usable, unset)
      BY <2>6, <3>1, <3>2, <3>3, <3>4, <3>5, <3>6 DEF CallInv
    <3> QED
      BY <1>1, <1>5, <2>6, <3>7, LocalStep
  <2>7. CASE c.balance <= Plus(sum, PreFees)
    <3> DEFINE d == [c EXCEPT !.at = "refused", !.success = 0]
    <3>1. Become(r, d)
      BY <1>4, <1>14, <2>7
    <3>2. S = {}
      <4> SUFFICES ASSUME S # {} PROVE FALSE
        OBVIOUS
      <4>1. /\ c.amount \in 0 .. MaxAmount /\ n \in 0 .. Batch
            /\ c.balance > c.amount * Batch + PreFees
        BY <1>9, <2>1, <2>2, Limits
      <4>2. /\ c.amount * n \in Nat /\ c.amount * Batch \in Nat
            /\ c.amount * n <= c.amount * Batch
        BY <1>7, <2>2, <4>1, TimesGrows
      <4>3. Plus(sum, PreFees) = c.amount * n + PreFees
        BY <4>1, PaidFits
      <4> HIDE DEF sum
      <4> QED
        BY <1>7, <2>7, <4>1, <4>2, <4>3, Limits
    <3>3. A = {}
      BY <1>3, <3>2
    <3>4. /\ d.op = "transferAll" /\ d.round = c.round /\ d.times = c.times
          /\ d.left = c.left /\ d.list = c.list /\ d.index = c.index
          /\ d.success = 0 /\ d.at = "refused" /\ d.marks = {}
      BY <1>1, <1>2, <1>7 DEF CallRecord
    <3>5. d \in CallRecord
      BY <1>2 DEF CallRecord, Ended
    <3> HIDE DEF d
    <3>6. Places(d)
      BY <3>4 DEF Places
    <3>7. Loops(d)
      <4>1. 0 <= c.index
        BY <1>7
      <4> QED
        BY <1>6, <3>4, <4>1 DEF Loops
    <3>8. CallInv(r, d, S, A, usable, unset)
      BY <3>2, <3>3, <3>4, <3>6, <3>7, NothingSent
    <3> QED
      BY <1>1, <1>5, <3>1, <3>5, <3>8, LocalStep
  <2>8. CASE ~ (c.balance <= Plus(sum, PreFees))
    <3>5. PICK ins \in Found(OneAmount + 1, sum) :
            \E total \in FloatTotals(ins) :
              IF Covers(total, c, Fess(ins, n))
              THEN Encode(r, Built(ins, total), next, next)
              ELSE Become(r, next)
      BY <1>4, <1>14, <2>8
    <3>1. PICK total \in FloatTotals(ins) :
            IF Covers(total, c, Fess(ins, n))
            THEN Encode(r, Built(ins, total), next, next)
            ELSE Become(r, next)
      BY <3>5
    <3> DEFINE t == Built(ins, total)
               d == [next EXCEPT !.tx = t, !.at = "send"]
    <3>2. \/ Become(r, next)
          \/ Covers(total, c, Fess(ins, n)) /\ Encodable(t) /\ Become(r, d)
      BY <3>1 DEF Encode
    <3>3. CASE Become(r, next)
      <4>1. AtHand(r, next, S) /\ next.at # "send"
        BY <2>4 DEF AtHand
      <4> QED
        BY <2>4, <2>5, <2>6, <3>3, <4>1
    <3>4. CASE Covers(total, c, Fess(ins, n)) /\ Encodable(t) /\ Become(r, d)
      <4>1. total >= Plus(c.amount, Fess(ins, n))
        BY <3>4 DEF Covers
      <4>2. <<c.round, From>> \in Nat \X (Addresses \cup {From})
        BY <1>7
      <4>3. Sound(r, t) /\ c.amount \in 1 .. MaxAmount /\ ins \subseteq usable
        <5>1. /\ ins \in Found(OneAmount + 1, Times(c.amount, n)) /\ total \in FloatTotals(ins)
              /\ Encodable(MakeTx(r, <<c.round, From>>, ins, to, n, c.amount,
                   Minus(total, Plus(Times(c.amount, n), Fess(ins, n))), Fess(ins, n)))
          BY <3>4
        <5>2. /\ Sound(r, MakeTx(r, <<c.round, From>>, ins, to, n, c.amount,
                   Minus(total, Plus(Times(c.amount, n), Fess(ins, n))), Fess(ins, n)))
              /\ c.amount \in 1 .. MaxAmount /\ ins \subseteq usable
          BY <1>2, <1>7, <2>2, <2>3, <4>1, <4>2, <5>1, CoveredTx
        <5> QED
          BY <5>2
      <4>4. t.no = <<c.round, From>> /\ t.ins = ins /\ t.to = to
        BY TxFacts
      <4>5. c.round + 1 < c.times => c.balance > c.amount * Batch + PreFees
        <5>1. ASSUME c.round + 1 < c.times PROVE Plus(sum, PreFees) = c.amount * Batch + PreFees
          <6>1. n = Batch /\ n \in 0 .. Batch /\ c.amount \in 0 .. MaxAmount
            BY <2>2, <4>3, <5>1, Limits
          <6> QED
            BY <6>1, PaidFits
        <5>2. c.amount * Batch + PreFees \in Int
          BY <1>7, Limits
        <5> HIDE DEF sum
        <5> QED
          BY <1>7, <2>8, <5>1, <5>2
      <4> HIDE DEF t
      <4>6. /\ d.op = "transferAll" /\ d.round = c.round + 1 /\ d.times = c.times
            /\ d.left = c.left /\ d.list = c.list /\ d.index = c.index + n
            /\ d.amount = c.amount /\ d.balance = c.balance /\ d.tx = t
            /\ d.success = c.success /\ d.at = "send" /\ d.marks = {}
            /\ d \in CallRecord
        BY <2>4, <2>5, <4>3 DEF Sound, CallRecord
      <4>7. Become(r, d)
        BY <3>4
      <4> HIDE DEF d
      <4>8. AtHand(r, d, S)
        <5>1. /\ d.round > 0 /\ d.round - 1 = c.round
              /\ c.success <= (d.round - 1) * Batch
          BY <1>6, <1>7, <2>1, <4>6
        <5>2. \A u \in S : u.no # t.no
          BY <1>7, <1>8, <4>4
        <5> QED
          BY <2>3, <4>3, <4>4, <4>6, <5>1, <5>2 DEF AtHand
      <4>9. d.tx.ins \subseteq usable
        BY <4>3, <4>4, <4>6
      <4> QED
        BY <2>6, <4>3, <4>5, <4>6, <4>7, <4>8, <4>9
    <3> QED
      BY <3>2, <3>3, <3>4
  <2> QED
    BY <2>7, <2>8
<1> QED
  BY <1>13, <1>14

\* A Transfer builds its transaction.
LEMMA TransferRounds ==
  ASSUME IInv, NEW r \in Calls, TransferRound(r)
  PROVE  IInv'
<1> DEFINE c == call[r]
           S == Of(r, sent)
           A == Of(r, answered)
           Built(ins, total) ==
             MakeTx(r, <<0, From>>, ins, {}, 1, c.amount,
               Minus(total, Plus(c.amount, Fess(ins, 1))), Fess(ins, 1))
<1>1. c.op = "transfer" /\ c.at = "round" /\ UNCHANGED ledgerVars
  BY DEF TransferRound, In
<1>2. /\ CallInv(r, c, S, A, usable, unset) /\ c \in CallRecord /\ usable \subseteq Outs
      /\ call \in [Calls -> CallRecord]
  BY DEF IInv, Types
<1>3. A \subseteq S
  BY OfFacts
<1>4. IF c.balance <= Plus(c.amount, PreFees)
      THEN GoTo(r, "refused")
      ELSE \E ins \in Found(1, c.amount) : \E total \in FloatTotals(ins) :
             IF Covers(total, c, Fess(ins, 1))
             THEN Encode(r, Built(ins, total), c, [c EXCEPT !.at = "failed"])
             ELSE GoTo(r, "failed")
  BY DEF TransferRound
<1>5. S = Of(r, sent) /\ A = Of(r, answered) /\ c = call[r]
  OBVIOUS
<1> HIDE DEF c, S, A
<1>6. c.amount \in 0 .. Modulus - 1 /\ c.marks = {}
  BY <1>1, <1>2 DEF CallRecord, CallInv, Places
<1>7. S = {} /\ A = {}
  BY <1>1, <1>2, <1>3 DEF CallInv, Numbered
<1>8. ASSUME NEW place \in {"refused", "failed"}, Become(r, [c EXCEPT !.at = place])
      PROVE  IInv'
  <2> DEFINE d == [c EXCEPT !.at = place]
  <2>1. d.op = "transfer" /\ d.at \in {"refused", "failed"} /\ d.marks = {}
    BY <1>1, <1>2, <1>6 DEF CallRecord
  <2>2. d \in CallRecord
    BY <1>2 DEF CallRecord, Ended
  <2>3. Become(r, d)
    BY <1>8
  <2> HIDE DEF d
  <2>4. Places(d) /\ Loops(d)
    BY <2>1 DEF Places, Loops
  <2>5. CallInv(r, d, S, A, usable, unset)
    BY <1>7, <2>1, <2>4, NothingSent
  <2> QED
    BY <1>1, <1>5, <2>2, <2>3, <2>5, LocalStep
<1>9. ASSUME NEW place, GoTo(r, place) PROVE Become(r, [c EXCEPT !.at = place])
  BY <1>2, <1>5, <1>9 DEF GoTo, Become
<1>10. CASE c.balance <= Plus(c.amount, PreFees)
  BY <1>4, <1>8, <1>9, <1>10
<1>11. CASE ~ (c.balance <= Plus(c.amount, PreFees))
  <2>1. PICK ins \in Found(1, c.amount) :
          \E total \in FloatTotals(ins) :
            IF Covers(total, c, Fess(ins, 1))
            THEN Encode(r, Built(ins, total), c, [c EXCEPT !.at = "failed"])
            ELSE GoTo(r, "failed")
    BY <1>4, <1>11
  <2>2. PICK total \in FloatTotals(ins) :
          IF Covers(total, c, Fess(ins, 1))
          THEN Encode(r, Built(ins, total), c, [c EXCEPT !.at = "failed"])
          ELSE GoTo(r, "failed")
    BY <2>1
  <2> DEFINE t == Built(ins, total)
             d == [c EXCEPT !.tx = t, !.at = "send"]
  <2>3. \/ Become(r, [c EXCEPT !.at = "failed"])
        \/ Covers(total, c, Fess(ins, 1)) /\ Encodable(t) /\ Become(r, d)
    BY <1>9, <2>2 DEF Encode
  <2>4. CASE Become(r, [c EXCEPT !.at = "failed"])
    BY <1>8, <2>4
  <2>5. CASE Covers(total, c, Fess(ins, 1)) /\ Encodable(t) /\ Become(r, d)
    <3>1. Times(c.amount, 1) = c.amount
      <4>1. \A v \in 0 .. Modulus - 1 : v * 1 = v /\ v < Modulus /\ v \in Nat
        BY Limits
      <4>2. \A v \in 0 .. Modulus - 1 : v % Modulus = v
        BY <4>1, Wraps, Limits
      <4> QED
        BY <1>6, <4>1, <4>2 DEF Times
    <3>2. total >= Plus(c.amount, Fess(ins, 1)) /\ 1 \in 1 .. Batch
      BY <2>5, Limits DEF Covers
    <3>3. <<0, From>> \in Nat \X (Addresses \cup {From}) /\ {} \in SUBSET Addresses
      OBVIOUS
    <3>4. Sound(r, t)
      <4>1. /\ ins \in Found(1, Times(c.amount, 1)) /\ total \in FloatTotals(ins)
            /\ Encodable(MakeTx(r, <<0, From>>, ins, {}, 1, c.amount,
                 Minus(total, Plus(Times(c.amount, 1), Fess(ins, 1))), Fess(ins, 1)))
        BY <2>5, <3>1
      <4>2. Sound(r, MakeTx(r, <<0, From>>, ins, {}, 1, c.amount,
                 Minus(total, Plus(Times(c.amount, 1), Fess(ins, 1))), Fess(ins, 1)))
        BY <1>2, <1>6, <3>2, <3>3, <4>1, CoveredTx
      <4> QED
        BY <3>1, <4>2
    <3> HIDE DEF t
    <3>5. /\ d.op = "transfer" /\ d.tx = t /\ d.at = "send" /\ d.marks = {}
          /\ d \in CallRecord
      BY <1>1, <1>2, <1>6, <3>4 DEF Sound, CallRecord
    <3>6. Become(r, d)
      BY <2>5
    <3> HIDE DEF d
    <3>7. Places(d) /\ Loops(d) /\ Numbered(d, {}) /\ Affordable(d, {})
          /\ Counted(d, {}, {}) /\ Spent(d, {}, usable, unset)
      BY <3>5 DEF Places, Loops, Numbered, Affordable, Counted, Spent
    <3>8. AtHand(r, d, {})
      BY <3>4, <3>5 DEF AtHand
    <3>9. CallInv(r, d, S, A, usable, unset)
      BY <1>7, <3>7, <3>8 DEF CallInv
    <3> QED
      BY <1>1, <1>5, <3>5, <3>6, <3>9, LocalStep
  <2> QED
    BY <2>3, <2>4, <2>5
<1> QED
  BY <1>10, <1>11

\* A Merger builds the transaction of its next rows.
LEMMA MergerRounds ==
  ASSUME IInv, NEW r \in Calls, MergerRound(r)
  PROVE  IInv'
<1> DEFINE c == call[r]
           S == Of(r, sent)
           A == Of(r, answered)
           ins == Slice(c)
           fee == Fess(ins, 0)
           total == Worth(ins)
           t == MakeTx(r, <<c.round, From>>, ins, {}, 0, 0, Minus(total, fee), fee)
           d == [c EXCEPT !.tx = t, !.at = "send"]
<1>1. c.op = "merger" /\ c.at = "round" /\ UNCHANGED ledgerVars
  BY DEF MergerRound, In
<1>2. /\ CallInv(r, c, S, A, usable, unset) /\ c \in CallRecord
      /\ call \in [Calls -> CallRecord]
  BY DEF IInv, Types
<1>3. A \subseteq S /\ S \subseteq SentTx
  BY OfFacts
<1>4. \/ GoTo(r, "returned") \/ GoTo(r, "panicked") \/ GoTo(r, "failed")
      \/ ~ (total < fee) /\ Encodable(t) /\ Become(r, d)
      \/ ~ (total < fee) /\ Become(r, [c EXCEPT !.at = "failed"])
  BY DEF MergerRound, Encode
<1>5. S = Of(r, sent) /\ A = Of(r, answered) /\ c = call[r]
  OBVIOUS
<1> HIDE DEF c, S, A
<1>6. c.list \in Seq(Outs) /\ IsInjective(c.list) /\ c.round \in Nat /\ c.marks = {}
  BY <1>1, <1>2 DEF CallRecord, CallInv, Places, Loops
<1>7. \A u \in S : /\ u.no[1] \in Nat /\ u.no[1] < c.round /\ u.no[2] = From
                   /\ u.ins \subseteq Part(c.list, u.no[1])
  BY <1>1, <1>2, <1>3 DEF CallInv, Numbered, SentTx
<1>8. \A s, u \in S : s.no = u.no => s = u
  BY <1>2 DEF CallInv, Numbered
<1>9. c.all = SumFunctionOnSet([u \in A |-> Worth(u.ins)], A)
  BY <1>1, <1>2 DEF CallInv, Counted
<1>10. ASSUME NEW e \in CallRecord, Become(r, e), e.op = "merger", e.list = c.list,
              e.round = c.round, e.all = c.all, e.marks = {},
              e.at \in {"returned", "panicked", "failed", "send"}, AtHand(r, e, S)
       PROVE  IInv'
  <2>1. Places(e) /\ Affordable(e, S)
    BY <1>10 DEF Places, Affordable
  <2>2. Loops(e)
    BY <1>6, <1>10 DEF Loops
  <2>3. Numbered(e, S)
    BY <1>7, <1>8, <1>10 DEF Numbered
  <2>4. Counted(e, S, A) /\ Spent(e, A, usable, unset)
    BY <1>9, <1>10 DEF Counted, Spent
  <2>5. CallInv(r, e, S, A, usable, unset)
    BY <1>10, <2>1, <2>2, <2>3, <2>4 DEF CallInv
  <2> QED
    BY <1>1, <1>5, <1>10, <2>5, LocalStep
<1>11. ASSUME NEW place \in {"returned", "panicked", "failed"},
              Become(r, [c EXCEPT !.at = place])
       PROVE  IInv'
  <2> DEFINE e == [c EXCEPT !.at = place]
  <2>1. /\ e.op = "merger" /\ e.list = c.list /\ e.round = c.round /\ e.all = c.all
        /\ e.marks = {} /\ e.at \in {"returned", "panicked", "failed"}
    BY <1>1, <1>2, <1>6 DEF CallRecord
  <2>2. e \in CallRecord
    BY <1>2 DEF CallRecord, Ended
  <2>3. Become(r, e)
    BY <1>11
  <2> HIDE DEF e
  <2>4. AtHand(r, e, S)
    BY <2>1 DEF AtHand
  <2> QED
    BY <1>10, <2>1, <2>2, <2>3, <2>4
<1>12. ASSUME NEW place, GoTo(r, place) PROVE Become(r, [c EXCEPT !.at = place])
  BY <1>2, <1>5, <1>12 DEF GoTo, Become
<1>13. CASE ~ (total < fee) /\ Encodable(t) /\ Become(r, d)
  <2>1. ins \subseteq Part(c.list, c.round)
    <3>1. \A k \in c.round * Batch + 1 .. (c.round + 1) * Batch :
            c.round * Batch < k /\ k <= (c.round + 1) * Batch
      <4>1. c.round * Batch \in Int /\ (c.round + 1) * Batch \in Int
        BY <1>6, Limits
      <4> DEFINE x == c.round * Batch
                 y == (c.round + 1) * Batch
      <4>2. x \in Int /\ y \in Int
        BY <4>1
      <4> HIDE DEF x, y
      <4>3. \A k \in x + 1 .. y : x < k /\ k <= y
        BY <4>2
      <4> QED
        BY <4>3 DEF x, y
    <3> QED
      BY <3>1 DEF Slice, Part
  <2>2. /\ Part(c.list, c.round) \subseteq Outs /\ IsFiniteSet(Part(c.list, c.round))
        /\ Cardinality(Part(c.list, c.round)) <= Batch
        /\ Cardinality(Part(c.list, c.round)) \in Nat
    BY <1>6, PartFacts
  <2>3. ins \in SUBSET Outs
    BY <2>1, <2>2
  <2>4. Cardinality(ins) \in Nat /\ Cardinality(ins) <= Batch
    <3>1. Cardinality(ins) <= Cardinality(Part(c.list, c.round)) /\ IsFiniteSet(ins)
      BY <2>1, <2>2, FS_Subset
    <3>2. Cardinality(ins) \in Nat
      BY <3>1, FS_CardinalityType
    <3> QED
      BY <2>2, <3>1, <3>2, Limits
  <2> HIDE DEF ins
  <2>5. total \in Nat /\ total <= Batch * MaxAmount /\ total \in FloatTotals(ins)
    <3> DEFINE k == Cardinality(ins)
    <3>1. total \in Nat /\ total <= k * MaxAmount
      BY <2>3, OutsFacts, WorthBound
    <3>2. k * MaxAmount <= Batch * MaxAmount /\ k * MaxAmount \in Nat /\ k \in Nat
      BY <2>4, TimesGrows, Limits
    <3>3. total <= Batch * MaxAmount
      BY <3>1, <3>2, Limits
    <3>4. total \in FloatTotals(ins)
      BY <2>4, <3>1 DEF FloatTotals
    <3> QED
      BY <3>1, <3>3, <3>4
  <2>6. 0 \in 0 .. Batch /\ 0 \in 0 .. Modulus - 1 /\ 0 <= MaxAmount
    BY Limits
  <2>7. fee \in Nat /\ fee > 0
    BY <2>3, <2>6, FessFacts
  <2>8. t.no = <<c.round, From>> /\ t.ins = ins /\ t.fee = fee
    BY TxFacts
  <2> HIDE DEF total
  <2>9. total > 0 /\ total <= Batch * MaxAmount + PreFees + MaxAmount
    <3> HIDE DEF fee
    <3> QED
      BY <1>13, <2>5, <2>7, Limits
  <2>10. 0 * 0 = 0 /\ fee = 0 * 0 + Fess(ins, 0)
    <3>1. fee = Fess(ins, 0)
      OBVIOUS
    <3> HIDE DEF fee
    <3> QED
      BY <2>7, <3>1
  <2>11. Sound(r, t) /\ 0 * 0 + t.change + t.fee = total
    <3>1. <<c.round, From>> \in Nat \X (Addresses \cup {From}) /\ {} \in SUBSET Addresses
      BY <1>6
    <3>2. Encodable(MakeTx(r, <<c.round, From>>, ins, {}, 0, 0, Minus(total, fee), Fess(ins, 0)))
      BY <1>13
    <3>5. fee = Fess(ins, 0)
      OBVIOUS
    <3> HIDE DEF fee
    <3>3. 0 <= MaxAmount => fee = 0 * 0 + Fess(ins, 0)
      BY <2>10
    <3>6. 0 = 0 => 0 <= MaxAmount
      BY <2>6
    <3>4. LET u == MakeTx(r, <<c.round, From>>, ins, {}, 0, 0, Minus(total, fee), Fess(ins, 0))
          IN  Sound(r, u) /\ 0 * 0 + u.change + u.fee = total
      BY <2>3, <2>5, <2>6, <2>9, <3>1, <3>2, <3>3, <3>6, BuiltTx
    <3> QED
      BY <3>4, <3>5
  <2> HIDE DEF t
  <2>12. t.change + t.fee = total
    <3>1. t.change \in Int /\ t.fee \in Int
      BY <2>11, Limits DEF Sound, SentTx
    <3> QED
      BY <2>11, <3>1
  <2>13. /\ d.op = "merger" /\ d.list = c.list /\ d.round = c.round /\ d.all = c.all
         /\ d.marks = {} /\ d.at = "send" /\ d.tx = t /\ d \in CallRecord
    BY <1>1, <1>2, <1>6, <2>11 DEF Sound, CallRecord
  <2>14. Become(r, d)
    BY <1>13
  <2> HIDE DEF d
  <2>15. AtHand(r, d, S)
    <3>1. \A u \in S : u.no # t.no
      BY <1>6, <1>7, <2>8
    <3>2. t.change + t.fee = Worth(t.ins)
      BY <2>8, <2>12 DEF total
    <3> QED
      BY <2>1, <2>8, <2>11, <2>13, <3>1, <3>2 DEF AtHand
  <2> QED
    BY <1>10, <2>13, <2>14, <2>15
<1> HIDE DEF t, d
<1> QED
  BY <1>4, <1>11, <1>12, <1>13

-----------------------------------------------------------------------------
(***************************************************************************)
(* The theorems.                                                           *)
(***************************************************************************)

\* At first no call has been made.
LEMMA InitIInv == Init => IInv
<1> SUFFICES ASSUME Init PROVE IInv
  OBVIOUS
<1>1. /\ usable \subseteq Outs /\ unset = {} /\ sent = {} /\ answered = {} /\ taken = {}
      /\ call = [r \in Calls |-> Idle]
  BY DEF Init, LedgerInit
<1>2. Types
  BY <1>1, IdleType, FS_EmptySet DEF Types
<1>3. ASSUME NEW r \in Calls
      PROVE  CallInv(r, call[r], Of(r, sent), Of(r, answered), usable, unset)
  <2>1. Of(r, sent) = {} /\ Of(r, answered) = {} /\ call[r] = Idle
    BY <1>1 DEF Of
  <2>2. Idle.op = "none" /\ Idle.at = "new" /\ Idle.marks = {}
    BY DEF Idle
  <2> DEFINE c == Idle
  <2>3. c.op = "none" /\ c.at = "new" /\ c.marks = {} /\ c = Idle
    BY <2>2
  <2> HIDE DEF c
  <2>4. CallInv(r, c, {}, {}, usable, unset)
    BY <2>3 DEF CallInv, Places, Loops, AtHand, Numbered, Affordable, Counted, Spent
  <2> QED
    BY <2>1, <2>4 DEF c
<1> QED
  BY <1>1, <1>2, <1>3 DEF IInv

\* Every step keeps the invariant.
LEMMA NextIInv == IInv /\ [Next]_vars => IInv'
<1> SUFFICES ASSUME IInv, [Next]_vars PROVE IInv'
  OBVIOUS
<1>1. ASSUME NEW r \in Calls, Start(r) PROVE IInv'
  <2>1. CASE SplitStart(r)
    BY <2>1, SplitStarts
  <2>2. CASE TransferStart(r, "transferAll")
    BY <2>2, TransferStarts
  <2>3. CASE TransferStart(r, "transfer")
    BY <2>3, TransferStarts
  <2>4. CASE MergerStart(r)
    BY <2>4, MergerStarts
  <2> QED
    BY <1>1, <2>1, <2>2, <2>3, <2>4 DEF Start
<1>2. ASSUME NEW r \in Calls, Step(r) PROVE IInv'
  <2>1. CASE SplitRound(r)
    BY <2>1, SplitRounds
  <2>2. CASE SplitSend(r)
    BY <2>2, SplitSends
  <2>3. CASE Balance(r)
    BY <2>3, Balances
  <2>4. CASE BatchRound(r)
    BY <2>4, BatchRounds
  <2>5. CASE BatchSend(r)
    BY <2>5, BatchSends
  <2>6. CASE TransferRound(r)
    BY <2>6, TransferRounds
  <2>7. CASE TransferSend(r)
    BY <2>7, TransferSends
  <2>8. CASE MergerRound(r)
    BY <2>8, MergerRounds
  <2>9. CASE MergerSend(r)
    BY <2>9, MergerSends
  <2>10. CASE Mark(r)
    BY <2>10, Marks
  <2> QED
    BY <1>2, <2>1, <2>2, <2>3, <2>4, <2>5, <2>6, <2>7, <2>8, <2>9, <2>10 DEF Step
<1>3. CASE Arrive /\ UNCHANGED call
  BY <1>3, Arrives
<1>4. CASE Sync /\ UNCHANGED call
  BY <1>4, Syncs
<1>5. CASE UNCHANGED vars
  <2>1. /\ UNCHANGED <<call, sent, answered>>
        /\ usable' = usable /\ unset' = unset /\ taken' = taken
    BY <1>5 DEF vars, ledgerVars
  <2>2. usable' \subseteq Outs /\ unset' \subseteq Outs
        /\ answered \subseteq taken' /\ taken' \subseteq sent
    BY <2>1 DEF IInv, Types
  <2>3. \A q \in Calls : Spent(call[q], Of(q, answered), usable', unset')
    BY <2>1 DEF IInv, CallInv
  <2> QED
    BY <2>1, <2>2, <2>3, OutsideStep
<1> QED
  BY <1>1, <1>2, <1>3, <1>4, <1>5 DEF Next

(* The invariant holds in every reachable state: what each call has        *)
(* counted, spent and numbered fits what it has handed to the node         *)
(* (presstest.go:218-299, 405-501, 513-594).                               *)
THEOREM Invariant == Spec => []IInv
<1> QED
  BY InitIInv, NextIInv, PTL DEF Spec

\* The invariant about one call.
LEMMA OneCall ==
  ASSUME IInv, NEW r \in Calls
  PROVE  /\ CallInv(r, call[r], Of(r, sent), Of(r, answered), usable, unset)
         /\ call[r] \in CallRecord
  BY DEF IInv, Types

(* The variables have their types, the rows to mark are inputs of the      *)
(* transaction that was answered, and TransferAll's indices stay within    *)
(* its list (presstest.go:284-295, 405-424, 489).                          *)
THEOREM TypeCorrect == Spec => []TypeOK
<1>1. IInv => TypeOK
  <2> SUFFICES ASSUME IInv PROVE TypeOK
    OBVIOUS
  <2>1. ASSUME NEW r \in Calls
        PROVE  LET c == call[r] IN
          /\ c.op \in {"none", "split", "transferAll", "transfer", "merger"}
          /\ c.at \in Ended \cup {"new", "balance", "round", "send", "mark"}
          /\ c.tx = NoTx \/ c.tx \in SentTx
          /\ c.marks \subseteq c.tx.ins
          /\ c.at = "mark" <=> c.marks # {}
          /\ c.op = "transferAll" => c.success <= c.index /\ c.index <= Len(c.list)
    <3> DEFINE c == call[r]
               S == Of(r, sent)
               A == Of(r, answered)
    <3>1. CallInv(r, c, S, A, usable, unset) /\ c \in CallRecord
      BY OneCall
    <3> HIDE DEF c, S, A
    <3>2. /\ c.op \in {"none", "split", "transferAll", "transfer", "merger"}
          /\ c.at \in Ended \cup {"new", "balance", "round", "send", "mark"}
          /\ c.tx = NoTx \/ c.tx \in SentTx
      BY <3>1 DEF CallRecord
    <3>3. c.at = "mark" <=> c.marks # {}
      BY <3>1 DEF CallInv, Places
    <3>4. c.marks \subseteq c.tx.ins
      BY <3>1, <3>3 DEF CallInv, Spent
    <3>5. ASSUME c.op = "transferAll" PROVE c.success <= c.index /\ c.index <= Len(c.list)
      <4>1. /\ c.list \in Seq(Addresses) /\ Len(c.list) \in Nat /\ c.round \in Nat
            /\ c.times = Rounds(Len(c.list)) /\ c.times \in Int
            /\ c.index = IF c.round < c.times THEN c.round * Batch ELSE Len(c.list)
            /\ c.success <= c.index
        BY <3>1, <3>5 DEF CallInv, Loops, CallRecord
      <4>2. CASE c.round < c.times
        <5> DEFINE len == Len(c.list)
                   n == IF c.round = Rounds(len) - 1 /\ Rem(len, Batch) # 0
                        THEN Rem(len, Batch) ELSE Batch
        <5>1. len \in Nat /\ c.round < Rounds(len) /\ c.index = c.round * Batch
              /\ n = IF c.round = Rounds(len) - 1 /\ Rem(len, Batch) # 0
                     THEN Rem(len, Batch) ELSE Batch
          BY <4>1, <4>2
        <5>3. len = Len(c.list)
          OBVIOUS
        <5> HIDE DEF len, n
        <5>2. n \in 1 .. Batch /\ c.round * Batch \in Nat /\ c.round * Batch + n <= len
          BY <4>1, <5>1, BatchFacts
        <5> QED
          BY <4>1, <5>1, <5>2, <5>3
      <4>3. CASE ~ (c.round < c.times)
        BY <4>1, <4>3
      <4> QED
        BY <4>2, <4>3
    <3> QED
      BY <3>2, <3>3, <3>4, <3>5 DEF c
  <2>2. /\ usable \subseteq Outs /\ unset \subseteq Outs /\ sent \subseteq SentTx
        /\ answered \subseteq taken /\ taken \subseteq sent
    BY DEF IInv, Types
  <2> QED
    BY <2>1, <2>2 DEF TypeOK
<1> QED
  BY <1>1, Invariant, PTL

(* Whatever the amount asked for, the balance read before and uint64       *)
(* arithmetic come to, a transaction that goes out pays from its inputs    *)
(* every payment, a positive change and the fee, and nothing but rounding  *)
(* is lost (presstest.go:427-468, 617-657, 346-349).                       *)
THEOREM ValueKept == Spec => []NoValueCreated
<1>1. IInv => NoValueCreated
  <2> SUFFICES ASSUME IInv, NEW t \in sent
               PROVE  /\ t.change > 0 /\ (t.pays > 0 => t.amount > 0)
                      /\ t.pays * t.amount + t.change + t.fee \in FloatTotals(t.ins)
    BY DEF NoValueCreated
  <2>1. Keeps(t) /\ t \in SentTx
    BY DEF IInv, Types
  <2>2. t.change > 0
    BY <2>1, Limits DEF SentTx
  <2> QED
    BY <2>1, <2>2 DEF Keeps
<1> QED
  BY <1>1, Invariant, PTL

(* "balance no enough" means that nothing at all was sent, for any amount  *)
(* and any number of batches: when the balance is enough for the first     *)
(* batch it is enough for every later one (presstest.go:407, 423-429).     *)
THEOREM RefusedSentNothing == Spec => []RefusedMeansNothingSent
<1>1. IInv => RefusedMeansNothingSent
  <2> SUFFICES ASSUME IInv, NEW r \in Calls, call[r].at = "refused"
               PROVE  Of(r, sent) = {}
    BY DEF RefusedMeansNothingSent
  <2> DEFINE c == call[r]
             S == Of(r, sent)
             A == Of(r, answered)
  <2>1. CallInv(r, c, S, A, usable, unset) /\ c \in CallRecord /\ c.at = "refused"
    BY OneCall
  <2> HIDE DEF c, S, A
  <2>2. c.op \in {"transferAll", "transfer"}
    <3>1. c.op \in {"none", "split", "transferAll", "transfer", "merger"}
      BY <2>1 DEF CallRecord
    <3>2. Idle.at # "refused"
      BY DEF Idle
    <3> QED
      BY <2>1, <3>1, <3>2 DEF CallInv, Places
  <2>3. S = {}
    BY <2>1, <2>2 DEF CallInv, Affordable, Numbered
  <2> QED
    BY <2>3 DEF S
<1> QED
  BY <1>1, Invariant, PTL

(* A TransferAll pays no address in two transactions, however many batches *)
(* its list makes (presstest.go:424, 450-458).                             *)
THEOREM NonePaidTwice == Spec => []PaidOnce
<1>1. IInv => PaidOnce
  <2> SUFFICES ASSUME IInv, NEW r \in Calls, call[r].op = "transferAll",
                      NEW s \in Of(r, sent), NEW t \in Of(r, sent), s # t
               PROVE  s.to \cap t.to = {}
    BY DEF PaidOnce
  <2> DEFINE c == call[r]
             S == Of(r, sent)
             A == Of(r, answered)
  <2>1. CallInv(r, c, S, A, usable, unset) /\ c.op = "transferAll" /\ s \in S /\ t \in S
    BY OneCall
  <2>2. S \subseteq SentTx
    BY OfFacts
  <2> HIDE DEF c, S, A
  <2>3. c.list \in Seq(Addresses) /\ IsInjective(c.list)
    BY <2>1 DEF CallInv, Loops
  <2>4. /\ s.no # t.no /\ s.no[2] = From /\ t.no[2] = From
        /\ s.to = Part(c.list, s.no[1]) /\ t.to = Part(c.list, t.no[1])
    BY <2>1 DEF CallInv, Numbered
  <2>5. s.no \in Nat \X (Addresses \cup {From}) /\ t.no \in Nat \X (Addresses \cup {From})
    BY <2>1, <2>2 DEF SentTx
  <2>6. s.no[1] \in Nat /\ t.no[1] \in Nat /\ s.no[1] # t.no[1]
    BY <2>4, <2>5
  <2> QED
    BY <2>3, <2>4, <2>6, PartsApart
<1> QED
  BY <1>1, Invariant, PTL

(* What a call counts is what the node answered: Split the outputs it      *)
(* made, Merger what it put together, and TransferAll, of the addresses of *)
(* its transactions, those of the transactions that were answered          *)
(* (presstest.go:292, 489, 504, 591-592).                                  *)
THEOREM ReportsFollowAnswers == Spec => []ReportFollowsAnswers
<1>1. IInv => ReportFollowsAnswers
  <2> SUFFICES ASSUME IInv, NEW r \in Calls
               PROVE  LET c == call[r] IN
                 /\ c.op = "split" => c.success = Total([t \in answered |-> t.pays], r)
                 /\ c.op = "merger" => c.all = Total([t \in answered |-> Worth(t.ins)], r)
                 /\ c.op = "transferAll" /\ c.at = "returned" =>
                      \A t \in Of(r, sent) :
                        t.to \cap {c.list[k] : k \in 1 .. c.success} =
                          IF t \in answered THEN t.to ELSE {}
    BY DEF ReportFollowsAnswers
  <2> DEFINE c == call[r]
             S == Of(r, sent)
             A == Of(r, answered)
             f == [t \in answered |-> t.pays]
             g == [t \in answered |-> Worth(t.ins)]
             fA == [t \in A |-> t.pays]
             gA == [t \in A |-> Worth(t.ins)]
  <2>1. CallInv(r, c, S, A, usable, unset) /\ c \in CallRecord
    BY OneCall
  <2>2. A \subseteq answered /\ \A t \in S : t \in A <=> t \in answered
    BY DEF Of
  <2>3. S \subseteq SentTx /\ A \subseteq S
    BY OfFacts
  <2>4. \A t \in A : f[t] = fA[t] /\ g[t] = gA[t]
    BY <2>2
  <2>5. Total(f, r) = SumFunctionOnSet(f, A) /\ Total(g, r) = SumFunctionOnSet(g, A)
    BY DEF Total
  <2> HIDE DEF f, g, fA, gA
  <2>6. SumFunctionOnSet(f, A) = SumFunctionOnSet(fA, A)
    BY <2>4, SumSame
  <2>7. SumFunctionOnSet(g, A) = SumFunctionOnSet(gA, A)
    BY <2>4, SumSame
  <2> HIDE DEF c, S, A
  <2>8. c.op = "split" => c.success = Total(f, r)
    <3>1. c.op = "split" => c.success = SumFunctionOnSet(fA, A)
      BY <2>1 DEF CallInv, Counted, fA
    <3> QED
      BY <2>5, <2>6, <3>1
  <2>9. c.op = "merger" => c.all = Total(g, r)
    <3>1. c.op = "merger" => c.all = SumFunctionOnSet(gA, A)
      BY <2>1 DEF CallInv, Counted, gA
    <3> QED
      BY <2>5, <2>7, <3>1
  <2>10. ASSUME c.op = "transferAll", NEW t \in S
         PROVE  t.to \cap {c.list[k] : k \in 1 .. c.success} =
                  IF t \in answered THEN t.to ELSE {}
    <3> DEFINE h == t.no[1]
    <3>1. /\ c.list \in Seq(Addresses) /\ IsInjective(c.list) /\ Len(c.list) \in Nat
          /\ DOMAIN c.list = 1 .. Len(c.list) /\ c.success \in Nat
      BY <2>1, <2>10 DEF CallInv, Loops, CallRecord
    <3>2. h \in Nat /\ t.to = Part(c.list, h)
      BY <2>1, <2>3, <2>10 DEF CallInv, Numbered, SentTx
    <3>3. /\ t \in A => \A k \in 1 .. Len(c.list) : k <= (h + 1) * Batch => k <= c.success
          /\ t \notin A => c.success <= h * Batch
      BY <2>1, <2>10 DEF CallInv, Counted
    <3> HIDE DEF h
    <3>4. CASE t \in A
      <4>1. ASSUME NEW x \in Part(c.list, h)
            PROVE  x \in {c.list[k] : k \in 1 .. c.success}
        <5>1. PICK k \in 1 .. Len(c.list) : x = c.list[k] /\ k <= (h + 1) * Batch
          BY DEF Part
        <5>2. k \in 1 .. c.success
          BY <3>1, <3>3, <3>4, <5>1
        <5> QED
          BY <5>1, <5>2
      <4>2. t \in answered
        BY <2>2, <3>4
      <4> QED
        BY <3>2, <4>1, <4>2
    <3>5. CASE t \notin A
      <4>1. ASSUME NEW x \in Part(c.list, h), x \in {c.list[k] : k \in 1 .. c.success}
            PROVE  FALSE
        <5>1. PICK k \in 1 .. Len(c.list) :
                x = c.list[k] /\ h * Batch < k /\ k <= (h + 1) * Batch
          BY DEF Part
        <5>2. PICK j \in 1 .. c.success : x = c.list[j]
          BY <4>1
        <5>3. c.success <= h * Batch /\ h * Batch \in Nat
          BY <3>2, <3>3, <3>5, Limits
        <5>4. j < k /\ j \in 1 .. Len(c.list)
          BY <3>1, <5>1, <5>2, <5>3
        <5>5. j = k
          BY <3>1, <5>1, <5>2, <5>4 DEF IsInjective
        <5> QED
          BY <5>4, <5>5
      <4>2. t \notin answered
        BY <2>2, <2>10, <3>5
      <4> QED
        BY <3>2, <4>1, <4>2
    <3> QED
      BY <3>4, <3>5
  <2> QED
    BY <2>8, <2>9, <2>10 DEF c, S, f, g
<1> QED
  BY <1>1, Invariant, PTL

(* A call does not spend again what a transaction of its own has spent and *)
(* was answered for, unless the database failed to mark the row; the other *)
(* calls and the program that fills the table do not bring a spent row     *)
(* back (presstest.go:236, 293, 430, 491, 525).                            *)
THEOREM NoneSpentAgain == Spec => []OwnSpendsNotReused
<1>1. IInv => OwnSpendsNotReused
  <2> SUFFICES ASSUME IInv, NEW r \in Calls, call[r].at = "send",
                      NEW t \in Of(r, answered)
               PROVE  t.ins \cap call[r].tx.ins \subseteq unset
    BY DEF OwnSpendsNotReused
  <2> DEFINE c == call[r]
             S == Of(r, sent)
             A == Of(r, answered)
  <2>1. CallInv(r, c, S, A, usable, unset) /\ c \in CallRecord
        /\ c.at = "send" /\ t \in A
    BY OneCall
  <2>2. A \subseteq S /\ S \subseteq SentTx /\ Sound(r, c.tx)
    BY HandFacts
  <2> HIDE DEF c, S, A
  <2>3. c.op \in {"none", "split", "transferAll", "transfer", "merger"} /\ Idle.at # "send"
    BY <2>1 DEF CallRecord, Idle
  <2>4. CASE c.op \in {"split", "transferAll"}
    BY <2>1, <2>4 DEF CallInv, Spent, c
  <2>5. CASE c.op = "transfer"
    <3>1. S = {}
      BY <2>1, <2>5 DEF CallInv, Numbered
    <3> QED
      BY <2>1, <2>2, <3>1
  <2>6. CASE c.op = "merger"
    <3>1. c.list \in Seq(Outs) /\ IsInjective(c.list) /\ c.round \in Nat
      BY <2>1, <2>6 DEF CallInv, Loops, CallRecord
    <3>2. t.no[1] \in Nat /\ t.no[1] < c.round /\ t.ins \subseteq Part(c.list, t.no[1])
      BY <2>1, <2>2, <2>6 DEF CallInv, Numbered, SentTx
    <3>3. c.tx.ins \subseteq Part(c.list, c.round)
      BY <2>1, <2>6 DEF CallInv, AtHand
    <3>4. Part(c.list, t.no[1]) \cap Part(c.list, c.round) = {}
      BY <3>1, <3>2, PartsApart
    <3>5. t.ins \cap c.tx.ins = {}
      BY <3>2, <3>3, <3>4
    <3> QED
      BY <3>5 DEF c
  <2>7. c.op # "none"
    BY <2>1, <2>3 DEF CallInv, Places
  <2>8. t.ins \cap c.tx.ins \subseteq unset
    BY <2>3, <2>4, <2>5, <2>6, <2>7 DEF c
  <2> QED
    BY <2>8 DEF c
<1> QED
  BY <1>1, Invariant, PTL

(* A row stops being usable only when the node has taken a transaction     *)
(* that spends it: not when a transaction is refused or gets no answer     *)
(* (presstest.go:285-293, 484-491).                                        *)
THEOREM MarkedAreSpent == Spec => OnlySpentAreMarked
<1>1. IInv /\ [Next]_vars =>
        [\A o \in Outs : o \in usable /\ o \notin usable' => o \in Claimed]_vars
  <2> SUFFICES ASSUME IInv, Next, NEW o \in Outs, o \in usable, o \notin usable'
               PROVE  o \in Claimed
    OBVIOUS
  <2>1. usable' # usable
    OBVIOUS
  <2>2. ~ Arrive /\ ~ UNCHANGED ledgerVars
    BY <2>1 DEF Arrive, ledgerVars
  <2>3. \A r \in Calls : ~ Start(r)
    BY <2>2 DEF Start, SplitStart, TransferStart, MergerStart
  <2>4. \A r \in Calls : Step(r) => Mark(r)
    <3>1. \A t : \A ok \in BOOLEAN : ~ Submit(t, ok)
      BY <2>1 DEF Submit
    <3>2. \A r \in Calls : ~ SplitSend(r) /\ ~ BatchSend(r) /\ ~ TransferSend(r) /\ ~ MergerSend(r)
      BY <3>1 DEF SplitSend, BatchSend, TransferSend, MergerSend, Hand
    <3>3. \A r \in Calls : ~ SplitRound(r) /\ ~ Balance(r) /\ ~ BatchRound(r)
                           /\ ~ TransferRound(r) /\ ~ MergerRound(r)
      BY <2>2 DEF SplitRound, Balance, BatchRound, TransferRound, MergerRound
    <3> QED
      BY <3>2, <3>3 DEF Step
  <2>5. CASE Sync
    <3>1. PICK t \in taken : usable' = usable \ t.ins
      <4>1. ~ \E p \in Outs \ Claimed : usable' = usable \cup {p}
        OBVIOUS
      <4> QED
        BY <2>5, <4>1 DEF Sync
    <3>2. o \in t.ins
      BY <3>1
    <3> QED
      BY <3>2 DEF Claimed
  <2>6. ASSUME NEW r \in Calls, Mark(r) PROVE o \in Claimed
    <3>1. call[r].at = "mark" /\ \E p \in call[r].marks : SetSpent(p)
      BY <2>6 DEF Mark
    <3>2. PICK p \in call[r].marks : SetSpent(p)
      BY <3>1
    <3>3. o = p
      BY <2>1, <3>2 DEF SetSpent
    <3>4. call[r].tx \in Of(r, answered) /\ call[r].marks \subseteq call[r].tx.ins
      BY <3>1, OneCall DEF CallInv, Spent
    <3>5. call[r].tx \in taken
      BY <3>4 DEF Of, IInv, Types
    <3> QED
      BY <3>2, <3>3, <3>4, <3>5 DEF Claimed
  <2> QED
    BY <2>2, <2>3, <2>4, <2>5, <2>6 DEF Next
<1> QED
  BY <1>1, Invariant, PTL DEF Spec, OnlySpentAreMarked
-----------------------------------------------------------------------------
(***************************************************************************)
(* Every step of a call leaves it less to do.                              *)
(***************************************************************************)

\* The call has been made and is not over.
Active(c) == c.at \in {"balance", "round", "send", "mark"}

\* A Split does not go past its last round.
Within(c) == c.op = "split" /\ Active(c) => c.round <= c.times

\* What is left: rounds, the addresses of this round, and steps for this one.
RoundsLeft(c) ==
  IF ~ Active(c) THEN 0
  ELSE IF c.op \in {"split", "transferAll"} THEN c.times - c.round
  ELSE IF c.op = "merger" /\ c.round <= Len(c.list) THEN Len(c.list) - c.round
  ELSE 0
AddressesLeft(c) == IF c.op = "split" THEN Cardinality(c.todo) ELSE 0
StepsLeft(c) ==
  IF c.at = "balance" THEN NumOuts + 4
  ELSE IF c.at = "round"
       THEN IF c.op \in {"transfer", "merger"} THEN NumOuts + 3 ELSE 1
  ELSE IF c.at = "send" THEN NumOuts + 2
  ELSE IF c.at = "mark" THEN Cardinality(c.marks) + 1
  ELSE 0
ToGo(c) == <<RoundsLeft(c), AddressesLeft(c), StepsLeft(c)>>

\* A call that is within its bounds.
Bounded(c) == c \in CallRecord /\ Places(c) /\ Loops(c) /\ Within(c)

\* It goes on and has less to do.
Nearer(c, d) == Within(d) /\ Closer(ToGo(d), ToGo(c))

\* What is left is three numbers.
LEMMA LeftFacts ==
  ASSUME NEW c, Bounded(c)
  PROVE  /\ RoundsLeft(c) \in Nat /\ AddressesLeft(c) \in Nat /\ StepsLeft(c) \in Nat
         /\ ToGo(c) \in Measures
         /\ Active(c) => StepsLeft(c) > 0
<1>1. /\ c.times \in Int /\ c.round \in Nat /\ c.todo \subseteq Addresses
      /\ c.marks \in SUBSET Outs /\ c.list \in Seq(Addresses) \cup Seq(Outs)
  BY DEF Bounded, CallRecord
<1>2. Cardinality(c.todo) \in Nat
  BY <1>1, PaymentsConfig, FS_Subset, FS_CardinalityType
<1>3. Cardinality(c.marks) \in Nat /\ NumOuts \in Nat
  BY <1>1, OutsFacts, LedgerConfig
<1>4. Len(c.list) \in Nat
  BY <1>1, LenProperties
<1>5. Active(c) /\ c.op \in {"split", "transferAll"} => c.round <= c.times
  BY DEF Bounded, Within, Loops
<1>6. RoundsLeft(c) \in Nat
  BY <1>1, <1>4, <1>5 DEF RoundsLeft
<1>7. AddressesLeft(c) \in Nat
  BY <1>2 DEF AddressesLeft
<1>8. StepsLeft(c) \in Nat /\ (Active(c) => StepsLeft(c) > 0)
  BY <1>3 DEF StepsLeft, Active
<1> QED
  BY <1>6, <1>7, <1>8 DEF ToGo, Measures

\* A call that ends has nothing left.
LEMMA Ends ==
  ASSUME NEW c, Bounded(c), Active(c), NEW d \in CallRecord,
         d.at \in Ended, d.op = c.op, d.todo = c.todo
  PROVE  Nearer(c, d)
<1>1. ~ Active(d) /\ d.at \notin {"balance", "round", "send", "mark"}
  BY DEF Active, Ended
<1>2. RoundsLeft(d) = 0 /\ StepsLeft(d) = 0 /\ AddressesLeft(d) = AddressesLeft(c)
  BY <1>1 DEF RoundsLeft, StepsLeft, AddressesLeft
<1>3. RoundsLeft(c) \in Nat /\ StepsLeft(c) \in Nat /\ StepsLeft(c) > 0
  BY LeftFacts
<1>4. Closer(ToGo(d), ToGo(c))
  <2> DEFINE n == RoundsLeft(c)
             k == StepsLeft(c)
             m == AddressesLeft(c)
  <2>1. ToGo(d) = <<0, m, 0>> /\ ToGo(c) = <<n, m, k>>
    BY <1>2 DEF ToGo
  <2>2. n \in Nat /\ k \in Nat /\ k > 0
    BY <1>3
  <2> HIDE DEF n, k, m
  <2>3. 0 < n \/ 0 = n
    BY <2>2
  <2> QED
    BY <2>1, <2>2, <2>3 DEF Closer
<1> QED
  BY <1>1, <1>4 DEF Nearer, Within

\* A step within a round.
LEMMA SameRound ==
  ASSUME NEW c, Bounded(c), Active(c), NEW d \in CallRecord, Active(d),
         d.op = c.op, d.todo = c.todo, d.times = c.times, d.round = c.round,
         d.list = c.list, StepsLeft(d) < StepsLeft(c)
  PROVE  Nearer(c, d)
<1>1. RoundsLeft(d) = RoundsLeft(c) /\ AddressesLeft(d) = AddressesLeft(c)
  BY DEF RoundsLeft, AddressesLeft
<1>2. Closer(ToGo(d), ToGo(c))
  BY <1>1 DEF Closer, ToGo
<1>3. Within(d)
  BY DEF Bounded, Within
<1> QED
  BY <1>2, <1>3 DEF Nearer

\* Another round.
LEMMA AnotherRound ==
  ASSUME NEW c, Bounded(c), Active(c), NEW d \in CallRecord, Active(d),
         d.op = c.op, d.times = c.times, d.list = c.list, d.round = c.round + 1,
         \/ c.op \in {"split", "transferAll"} /\ c.round < c.times
         \/ c.op = "merger" /\ c.round < Len(c.list)
  PROVE  Nearer(c, d)
<1>1. c.times \in Int /\ c.round \in Nat /\ c.list \in Seq(Addresses) \cup Seq(Outs)
  BY DEF Bounded, CallRecord
<1>2. Len(c.list) \in Nat
  BY <1>1, LenProperties
<1>3. RoundsLeft(d) < RoundsLeft(c)
  <2>1. CASE c.op \in {"split", "transferAll"} /\ c.round < c.times
    <3>1. RoundsLeft(c) = c.times - c.round /\ RoundsLeft(d) = c.times - (c.round + 1)
      BY <2>1 DEF RoundsLeft
    <3> QED
      BY <1>1, <3>1
  <2>2. CASE c.op = "merger" /\ c.round < Len(c.list)
    <3>1. c.round <= Len(c.list) /\ c.round + 1 <= Len(c.list)
      BY <1>1, <1>2, <2>2
    <3>2. /\ RoundsLeft(c) = Len(c.list) - c.round
          /\ RoundsLeft(d) = Len(c.list) - (c.round + 1)
      BY <2>2, <3>1 DEF RoundsLeft
    <3> QED
      BY <1>1, <1>2, <3>2
  <2> QED
    BY <2>1, <2>2
<1>4. Closer(ToGo(d), ToGo(c))
  BY <1>3 DEF Closer, ToGo
<1>5. Within(d)
  BY <1>1 DEF Within
<1> QED
  BY <1>4, <1>5 DEF Nearer

\* Another address of a Split.
LEMMA AnotherAddress ==
  ASSUME NEW c, Bounded(c), Active(c), NEW d \in CallRecord, Active(d),
         c.op = "split", d.op = c.op, d.times = c.times, d.round = c.round,
         NEW a \in c.todo, d.todo = c.todo \ {a}
  PROVE  Nearer(c, d)
<1>1. RoundsLeft(d) = RoundsLeft(c)
  BY DEF RoundsLeft
<1>2. IsFiniteSet(c.todo)
  <2>1. c.todo \subseteq Addresses
    BY DEF Bounded, CallRecord
  <2> QED
    BY <2>1, PaymentsConfig, FS_Subset
<1>3. /\ Cardinality(d.todo) = Cardinality(c.todo) - 1
      /\ Cardinality(c.todo) \in Nat
  BY <1>2, FS_RemoveElement, FS_CardinalityType
<1>4. AddressesLeft(d) < AddressesLeft(c)
  BY <1>3 DEF AddressesLeft
<1>5. Closer(ToGo(d), ToGo(c))
  BY <1>1, <1>4 DEF Closer, ToGo
<1>6. Within(d)
  BY DEF Bounded, Within
<1> QED
  BY <1>5, <1>6 DEF Nearer

\* A step of a call, seen from its record.
LEMMA Becomes ==
  ASSUME IInv, NEW r \in Calls, NEW d, Become(r, d)
  PROVE  call'[r] = d /\ call[r] \in CallRecord
  BY DEF IInv, Types, Become

\* A call's record and the numbers of it satisfy the invariant.
LEMMA BoundedCall ==
  ASSUME IInv, NEW r \in Calls, Within(call[r])
  PROVE  /\ Bounded(call[r]) /\ call[r] \in CallRecord
         /\ CallInv(r, call[r], Of(r, sent), Of(r, answered), usable, unset)
  BY DEF IInv, Types, CallInv, Bounded

\* A round of Split: the next address, the next round, or the end.
LEMMA SplitRoundNearer ==
  ASSUME IInv, NEW r \in Calls, Within(call[r]), call'[r] \in CallRecord, SplitRound(r)
  PROVE  Nearer(call[r], call'[r])
<1> DEFINE c == call[r]
           d == call'[r]
<1>1. c.op = "split" /\ c.at = "round" /\ Active(c)
  BY DEF SplitRound, In, Active
<1>2. Bounded(c) /\ c \in CallRecord /\ d \in CallRecord
  BY BoundedCall
<1>3. \A e : Become(r, e) => d = e
  BY Becomes
<1>4. IF c.todo = {}
      THEN Become(r, IF c.round = c.times
                     THEN [c EXCEPT !.at = "returned"]
                     ELSE [c EXCEPT !.round = @ + 1, !.todo = Addresses])
      ELSE \E a \in c.todo :
        LET next == NextAddress(c, a)
            need == OneAmount * TimeCount(c)
            ins  == FirstWorth(RowsOf(a, OneAmount + 1), need + PreFees)
            fee  == Fess(ins, TimeCount(c))
            t    == MakeTx(r, <<c.round, a>>, ins, {a}, TimeCount(c),
                       OneAmount, Minus(Worth(ins), need + fee), fee)
        IN  IF Worth(ins) < need + fee
            THEN Become(r, next)
            ELSE Encode(r, t, next, next)
  BY DEF SplitRound
<1> HIDE DEF c, d
<1>5. CASE c.todo = {} /\ c.round = c.times
  <2>1. d = [c EXCEPT !.at = "returned"]
    BY <1>3, <1>4, <1>5
  <2>2. d.at \in Ended /\ d.op = c.op /\ d.todo = c.todo
    BY <1>2, <2>1 DEF CallRecord, Ended
  <2> QED
    BY <1>1, <1>2, <2>2, Ends DEF c, d
<1>6. CASE c.todo = {} /\ c.round # c.times
  <2>1. d = [c EXCEPT !.round = @ + 1, !.todo = Addresses]
    BY <1>3, <1>4, <1>6
  <2>2. /\ d.op = c.op /\ d.times = c.times /\ d.list = c.list /\ d.round = c.round + 1
        /\ Active(d)
    BY <1>1, <1>2, <2>1 DEF CallRecord, Active
  <2>3. c.round < c.times
    BY <1>1, <1>2, <1>6 DEF Bounded, Within, CallRecord
  <2> QED
    BY <1>1, <1>2, <2>2, <2>3, AnotherRound DEF c, d
<1>7. CASE c.todo # {}
  <2>1. \E a \in c.todo : \/ Become(r, NextAddress(c, a))
                          \/ \E t : Become(r, [NextAddress(c, a) EXCEPT !.tx = t, !.at = "send"])
    BY <1>4, <1>7 DEF Encode
  <2>2. PICK a \in c.todo : \/ d = NextAddress(c, a)
                            \/ \E t : d = [NextAddress(c, a) EXCEPT !.tx = t, !.at = "send"]
    BY <1>3, <2>1
  <2>3. /\ d.op = c.op /\ d.times = c.times /\ d.round = c.round
        /\ d.todo = c.todo \ {a} /\ Active(d)
    BY <1>1, <1>2, <2>2 DEF CallRecord, NextAddress, Active
  <2> QED
    BY <1>1, <1>2, <2>3, AnotherAddress DEF c, d
<1> QED
  BY <1>5, <1>6, <1>7

\* What the node says of a transaction moves its call on.
LEMMA SendNearer ==
  ASSUME IInv, NEW r \in Calls, Within(call[r]), call'[r] \in CallRecord,
         SplitSend(r) \/ BatchSend(r) \/ TransferSend(r) \/ MergerSend(r)
  PROVE  Nearer(call[r], call'[r])
<1> DEFINE c == call[r]
           d == call'[r]
<1>1. c.at = "send" /\ Active(c)
  BY DEF SplitSend, BatchSend, TransferSend, MergerSend, In, Active
<1>2. Bounded(c) /\ c \in CallRecord /\ d \in CallRecord
  BY BoundedCall
<1>3. \A e : Become(r, e) => d = e
  BY Becomes
<1>4. \/ c.op = "split" /\ (d = SplitPaid(c) \/ d = SplitRefused(c))
      \/ c.op = "transferAll" /\ (d = BatchPaid(c) \/ d = [c EXCEPT !.at = "returned"])
      \/ c.op = "transfer" /\ (\/ d = [c EXCEPT !.at = "returned"]
                               \/ d = [c EXCEPT !.at = "failed"])
      \/ c.op = "merger" /\ (\/ d = [c EXCEPT !.all = @ + c.tx.change + c.tx.fee,
                                       !.round = @ + 1, !.at = "round"]
                             \/ d = [c EXCEPT !.at = "failed"])
  BY <1>3 DEF SplitSend, BatchSend, TransferSend, MergerSend, Hand, In
<1>5. AtHand(r, c, Of(r, sent))
  BY BoundedCall DEF CallInv
<1> HIDE DEF c, d
<1>6. Cardinality(c.tx.ins) \in Nat /\ Cardinality(c.tx.ins) <= NumOuts /\ NumOuts \in Nat
  <2>1. c.tx.ins \in SUBSET Outs
    BY <1>1, <1>5 DEF AtHand, Sound, SentTx
  <2> QED
    BY <2>1, OutsFacts, LedgerConfig
<1>7. StepsLeft(c) = NumOuts + 2
  BY <1>1 DEF StepsLeft
<1>8. CASE d = [c EXCEPT !.at = "returned"] \/ d = [c EXCEPT !.at = "failed"]
  <2>1. d.at \in Ended /\ d.op = c.op /\ d.todo = c.todo
    BY <1>2, <1>8 DEF CallRecord, Ended
  <2> QED
    BY <1>1, <1>2, <2>1, Ends DEF c, d
<1>9. CASE c.op = "split" /\ d = SplitRefused(c)
  <2>1. /\ d.op = c.op /\ d.todo = c.todo /\ d.times = c.times /\ d.round = c.round
        /\ d.list = c.list /\ d.at = "round"
    BY <1>2, <1>9 DEF CallRecord, SplitRefused
  <2>2. Active(d) /\ StepsLeft(d) = 1
    BY <1>9, <2>1 DEF Active, StepsLeft
  <2>3. StepsLeft(d) < StepsLeft(c)
    BY <1>6, <1>7, <2>2
  <2> QED
    BY <1>1, <1>2, <2>1, <2>2, <2>3, SameRound DEF c, d
<1>10. CASE d = SplitPaid(c) \/ d = BatchPaid(c)
  <2>1. /\ d.op = c.op /\ d.todo = c.todo /\ d.times = c.times /\ d.round = c.round
        /\ d.list = c.list /\ d.at = "mark" /\ d.marks = c.tx.ins
    BY <1>2, <1>10 DEF CallRecord, SplitPaid, BatchPaid
  <2>2. Active(d) /\ StepsLeft(d) = Cardinality(c.tx.ins) + 1
    BY <2>1 DEF Active, StepsLeft
  <2>3. StepsLeft(d) < StepsLeft(c)
    BY <1>6, <1>7, <2>2
  <2> QED
    BY <1>1, <1>2, <2>1, <2>2, <2>3, SameRound DEF c, d
<1>11. CASE /\ c.op = "merger"
            /\ d = [c EXCEPT !.all = @ + c.tx.change + c.tx.fee,
                             !.round = @ + 1, !.at = "round"]
  <2>1. /\ d.op = c.op /\ d.times = c.times /\ d.list = c.list /\ d.round = c.round + 1
        /\ d.at = "round" /\ Active(d)
    BY <1>2, <1>11 DEF CallRecord, Active
  <2>2. Part(c.list, c.round) # {}
    BY <1>1, <1>5, <1>11 DEF AtHand, Sound
  <2>3. PICK k \in 1 .. Len(c.list) : c.round * Batch < k
    BY <2>2 DEF Part
  <2>4. c.round \in Nat /\ Len(c.list) \in Nat
    <3>1. c.round \in Nat /\ c.list \in Seq(Addresses) \cup Seq(Outs)
      BY <1>2 DEF CallRecord
    <3> QED
      BY <3>1, LenProperties
  <2>5. c.round <= c.round * Batch
    BY <2>4, TimesGrows, PaymentsConfig
  <2>6. c.round < Len(c.list)
    <3> DEFINE m == c.round * Batch
    <3>1. c.round <= m /\ m < k /\ m \in Int
      BY <2>3, <2>4, <2>5, PaymentsConfig
    <3> HIDE DEF m
    <3> QED
      BY <2>4, <3>1
  <2> QED
    BY <1>1, <1>2, <1>11, <2>1, <2>6, AnotherRound DEF c, d
<1> QED
  BY <1>4, <1>8, <1>9, <1>10, <1>11

\* The balance has been read.
LEMMA BalanceNearer ==
  ASSUME IInv, NEW r \in Calls, Within(call[r]), call'[r] \in CallRecord, Balance(r)
  PROVE  Nearer(call[r], call'[r])
<1> DEFINE c == call[r]
           d == call'[r]
<1>1. c.at = "balance" /\ Active(c)
  BY DEF Balance, Active
<1>2. Bounded(c) /\ c \in CallRecord /\ d \in CallRecord
  BY BoundedCall
<1>3. \E b : d = [c EXCEPT !.balance = b, !.at = "round"]
  BY Becomes DEF Balance
<1> HIDE DEF c, d
<1>4. /\ d.op = c.op /\ d.todo = c.todo /\ d.times = c.times /\ d.round = c.round
      /\ d.list = c.list /\ d.at = "round"
  BY <1>2, <1>3 DEF CallRecord
<1>5. Active(d) /\ StepsLeft(c) = NumOuts + 4 /\ StepsLeft(d) \in {1, NumOuts + 3}
  BY <1>1, <1>4 DEF Active, StepsLeft
<1>6. StepsLeft(d) < StepsLeft(c)
  BY <1>5, LedgerConfig
<1> QED
  BY <1>1, <1>2, <1>4, <1>5, <1>6, SameRound DEF c, d

\* A batch is made up or passed over, or TransferAll ends.
LEMMA BatchRoundNearer ==
  ASSUME IInv, NEW r \in Calls, Within(call[r]), call'[r] \in CallRecord, BatchRound(r)
  PROVE  Nearer(call[r], call'[r])
<1> DEFINE c == call[r]
           d == call'[r]
<1>1. c.op = "transferAll" /\ c.at = "round" /\ Active(c)
  BY DEF BatchRound, In, Active
<1>2. Bounded(c) /\ c \in CallRecord /\ d \in CallRecord
  BY BoundedCall
<1>3. \A e : Become(r, e) => d = e
  BY Becomes
<1>4. \/ c.round = c.times /\ d = [c EXCEPT !.at = "returned"]
      \/ d = [c EXCEPT !.at = "refused", !.success = 0]
      \/ c.round # c.times /\ \E n : \/ d = NextBatch(c, n)
                                     \/ \E t : d = [NextBatch(c, n) EXCEPT !.tx = t, !.at = "send"]
  <2>1. CASE c.round = c.times
    <3>1. GoTo(r, "returned")
      BY <2>1 DEF BatchRound
    <3>2. d = [c EXCEPT !.at = "returned"]
      BY <3>1 DEF GoTo, IInv, Types
    <3> QED
      BY <2>1, <3>2
  <2>2. CASE c.round # c.times
    <3> DEFINE n == OneCount(c)
               sum == Times(c.amount, n)
    <3>1. \/ Become(r, [c EXCEPT !.at = "refused", !.success = 0])
          \/ \E ins \in Found(OneAmount + 1, sum) :
              \E total \in FloatTotals(ins) :
                LET next == NextBatch(c, n)
                    to   == {c.list[k] : k \in c.index + 1 .. c.index + n}
                    fee  == Fess(ins, n)
                    t    == MakeTx(r, <<c.round, From>>, ins, to, n, c.amount,
                              Minus(total, Plus(sum, fee)), fee)
                IN  IF Covers(total, c, fee)
                    THEN Encode(r, t, next, next)
                    ELSE Become(r, next)
      BY <2>2 DEF BatchRound
    <3>2. \/ Become(r, [c EXCEPT !.at = "refused", !.success = 0])
          \/ Become(r, NextBatch(c, n))
          \/ \E t : Become(r, [NextBatch(c, n) EXCEPT !.tx = t, !.at = "send"])
      <4> HIDE DEF n, sum, c
      <4> QED
        BY <3>1 DEF Encode
    <3> HIDE DEF n, c, d
    <3> QED
      BY <1>3, <2>2, <3>2
  <2> QED
    BY <2>1, <2>2
<1> HIDE DEF c, d
<1>5. CASE d = [c EXCEPT !.at = "returned"] \/ d = [c EXCEPT !.at = "refused", !.success = 0]
  <2>1. d.at \in Ended /\ d.op = c.op /\ d.todo = c.todo
    BY <1>2, <1>5 DEF CallRecord, Ended
  <2> QED
    BY <1>1, <1>2, <2>1, Ends DEF c, d
<1>6. ASSUME c.round # c.times, NEW n,
             \/ d = NextBatch(c, n)
             \/ \E t : d = [NextBatch(c, n) EXCEPT !.tx = t, !.at = "send"]
      PROVE  Nearer(c, d)
  <2>1. /\ d.op = c.op /\ d.times = c.times /\ d.list = c.list /\ d.round = c.round + 1
        /\ Active(d)
    BY <1>1, <1>2, <1>6 DEF CallRecord, NextBatch, Active
  <2>2. c.round < c.times
    <3>1. c.round <= c.times
      BY <1>1, <1>2 DEF Bounded, Loops
    <3>2. c.round \in Nat /\ c.times \in Int
      BY <1>2 DEF CallRecord
    <3>3. c.round # c.times
      BY <1>6
    <3> QED
      BY <3>1, <3>2, <3>3
  <2> QED
    BY <1>1, <1>2, <2>1, <2>2, AnotherRound
<1> QED
  BY <1>4, <1>5, <1>6 DEF c, d

\* Transfer and Merger send a transaction or end.
LEMMA OneRoundNearer ==
  ASSUME IInv, NEW r \in Calls, Within(call[r]), call'[r] \in CallRecord,
         TransferRound(r) \/ MergerRound(r)
  PROVE  Nearer(call[r], call'[r])
<1> DEFINE c == call[r]
           d == call'[r]
<1>1. c.op \in {"transfer", "merger"} /\ c.at = "round" /\ Active(c)
  BY DEF TransferRound, MergerRound, In, Active
<1>2. Bounded(c) /\ c \in CallRecord /\ d \in CallRecord
  BY BoundedCall
<1>3. \A e : Become(r, e) => d = e
  BY Becomes
<1>4. \A place : GoTo(r, place) => d = [c EXCEPT !.at = place]
  BY DEF GoTo, IInv, Types
<1>5. \/ \E place \in Ended : d = [c EXCEPT !.at = place]
      \/ \E t : d = [c EXCEPT !.tx = t, !.at = "send"]
  <2>1. CASE TransferRound(r)
    <3>1. \/ GoTo(r, "refused") \/ GoTo(r, "failed")
          \/ Become(r, [c EXCEPT !.at = "failed"])
          \/ \E t : Become(r, [c EXCEPT !.tx = t, !.at = "send"])
      BY <2>1 DEF TransferRound, Encode
    <3> HIDE DEF c, d
    <3> QED
      BY <1>3, <1>4, <3>1 DEF Ended
  <2>2. CASE MergerRound(r)
    <3>1. \/ GoTo(r, "returned") \/ GoTo(r, "panicked") \/ GoTo(r, "failed")
          \/ Become(r, [c EXCEPT !.at = "failed"])
          \/ \E t : Become(r, [c EXCEPT !.tx = t, !.at = "send"])
      BY <2>2 DEF MergerRound, Encode
    <3> HIDE DEF c, d
    <3> QED
      BY <1>3, <1>4, <3>1 DEF Ended
  <2> QED
    BY <2>1, <2>2
<1> HIDE DEF c, d
<1>6. ASSUME NEW place \in Ended, d = [c EXCEPT !.at = place] PROVE Nearer(c, d)
  <2>1. d.at \in Ended /\ d.op = c.op /\ d.todo = c.todo
    BY <1>2, <1>6 DEF CallRecord
  <2> QED
    BY <1>1, <1>2, <2>1, Ends
<1>7. ASSUME NEW t, d = [c EXCEPT !.tx = t, !.at = "send"] PROVE Nearer(c, d)
  <2>1. /\ d.op = c.op /\ d.todo = c.todo /\ d.times = c.times /\ d.round = c.round
        /\ d.list = c.list /\ d.at = "send"
    BY <1>2, <1>7 DEF CallRecord
  <2>2. Active(d) /\ StepsLeft(c) = NumOuts + 3 /\ StepsLeft(d) = NumOuts + 2
    BY <1>1, <2>1 DEF Active, StepsLeft
  <2>3. StepsLeft(d) < StepsLeft(c)
    BY <2>2, LedgerConfig
  <2> QED
    BY <1>1, <1>2, <2>1, <2>2, <2>3, SameRound
<1> QED
  BY <1>5, <1>6, <1>7 DEF c, d

\* A row is marked, or could not be: one row less to mark.
LEMMA MarkNearer ==
  ASSUME IInv, NEW r \in Calls, Within(call[r]), call'[r] \in CallRecord, Mark(r)
  PROVE  Nearer(call[r], call'[r])
<1> DEFINE c == call[r]
           d == call'[r]
<1>1. c.at = "mark" /\ Active(c)
  BY DEF Mark, Active
<1>2. Bounded(c) /\ c \in CallRecord /\ d \in CallRecord
  BY BoundedCall
<1>3. PICK o \in c.marks : d = [c EXCEPT !.marks = @ \ {o},
                                  !.at = IF c.marks = {o} THEN "round" ELSE "mark"]
  BY Becomes DEF Mark
<1> HIDE DEF c, d
<1>4. /\ d.op = c.op /\ d.todo = c.todo /\ d.times = c.times /\ d.round = c.round
      /\ d.list = c.list /\ d.marks = c.marks \ {o}
      /\ d.at = IF c.marks = {o} THEN "round" ELSE "mark"
  BY <1>2, <1>3 DEF CallRecord
<1>5. IsFiniteSet(c.marks)
  <2>1. c.marks \in SUBSET Outs
    BY <1>2 DEF CallRecord
  <2> QED
    BY <2>1, OutsFacts
<1>6. Cardinality(d.marks) = Cardinality(c.marks) - 1 /\ Cardinality(c.marks) \in Nat
  BY <1>4, <1>5, FS_RemoveElement, FS_CardinalityType
<1>7. Cardinality(c.marks) > 0
  <2>1. c.marks # {}
    BY <1>3
  <2> QED
    BY <1>5, <1>6, <2>1, FS_EmptySet
<1>8. StepsLeft(c) = Cardinality(c.marks) + 1
  BY <1>1 DEF StepsLeft
<1>9. c.op \in {"split", "transferAll"}
  <2>1. Places(c) /\ c.op \in {"none", "split", "transferAll", "transfer", "merger"}
    BY <1>2 DEF Bounded, CallRecord
  <2>2. Idle.at # "mark"
    BY DEF Idle
  <2> QED
    BY <1>1, <2>1, <2>2 DEF Places
<1>10. Active(d) /\ StepsLeft(d) \in {1, Cardinality(d.marks) + 1}
  <2>1. CASE d.at = "round"
    BY <1>4, <1>9, <2>1 DEF Active, StepsLeft
  <2>2. CASE d.at = "mark"
    BY <2>2 DEF Active, StepsLeft
  <2> QED
    BY <1>4, <2>1, <2>2
<1>11. StepsLeft(d) < StepsLeft(c)
  BY <1>6, <1>7, <1>8, <1>10
<1> QED
  BY <1>1, <1>2, <1>4, <1>10, <1>11, SameRound DEF c, d

\* Every step of a call.
LEMMA StepNearer ==
  ASSUME IInv, Types', NEW r \in Calls, Within(call[r]), Step(r)
  PROVE  Nearer(call[r], call'[r])
<1>1. call'[r] \in CallRecord
  BY DEF Types
<1> QED
  BY <1>1, SplitRoundNearer, SendNearer, BalanceNearer, BatchRoundNearer, OneRoundNearer,
     MarkNearer DEF Step

\* A call that begins is within its rounds.
LEMMA StartWithin ==
  ASSUME IInv, NEW r \in Calls, Start(r)
  PROVE  call[r] = Idle /\ Within(call'[r])
<1>1. \A e : Become(r, e) => call'[r] = e
  BY Becomes
<1>2. CASE SplitStart(r)
  <2>1. PICK n \in Counts : \E known \in BOOLEAN :
          Become(r, [Idle EXCEPT !.op = "split", !.times = Rounds(n),
                    !.left = Rem(n, Batch),
                    !.at = IF Rounds(n) <= 0 THEN "returned"
                           ELSE IF ~Wired THEN "panicked"
                           ELSE IF Addresses = {} THEN "returned"
                           ELSE IF ~known THEN "nocoin"
                           ELSE "round"])
    BY <1>2 DEF SplitStart
  <2>2. PICK place \in Ended \cup {"round"} :
          /\ call'[r] = [Idle EXCEPT !.op = "split", !.times = Rounds(n),
                           !.left = Rem(n, Batch), !.at = place]
          /\ place = "round" => ~ Rounds(n) <= 0
    BY <1>1, <2>1 DEF Ended
  <2>3. call'[r].round = 0 /\ call'[r].times = Rounds(n) /\ call'[r].at = place
    BY <2>2 DEF Idle
  <2>4. Rounds(n) \in Int
    BY <2>1, RoundsFacts, PaymentsConfig
  <2>5. Active(call'[r]) => place = "round"
    BY <2>2, <2>3 DEF Active, Ended
  <2>6. Within(call'[r])
    BY <2>2, <2>3, <2>4, <2>5 DEF Within
  <2> QED
    BY <1>2, <2>6 DEF SplitStart
<1>3. ASSUME NEW op \in {"transferAll", "transfer"}, TransferStart(r, op)
      PROVE  call[r] = Idle /\ Within(call'[r])
  <2>1. PICK a, l, place :
          call'[r] = [Idle EXCEPT !.op = op, !.amount = a, !.list = l,
                    !.times = Rounds(Len(l)), !.left = Rem(Len(l), Batch), !.at = place]
    BY <1>1, <1>3 DEF TransferStart
  <2>2. call'[r].op # "split"
    BY <2>1 DEF Idle
  <2> QED
    BY <1>3, <2>2 DEF TransferStart, Within
<1>4. CASE MergerStart(r)
  <2>1. PICK l, k, place :
          call'[r] = [Idle EXCEPT !.op = "merger", !.list = l, !.capacity = k, !.at = place]
    BY <1>1, <1>4 DEF MergerStart
  <2>2. call'[r].op # "split"
    BY <2>1 DEF Idle
  <2> QED
    BY <1>4, <2>2 DEF MergerStart, Within
<1> QED
  BY <1>2, <1>3, <1>4 DEF Start

\* Whatever the others do, a call's record is its own.
LEMMA NextNearer ==
  ASSUME IInv, Types', [Next]_vars, \A r \in Calls : Within(call[r]), NEW r \in Calls
  PROVE  /\ Step(r) => Nearer(call[r], call'[r])
         /\ \/ call'[r] = call[r]
            \/ call[r] = Idle /\ Within(call'[r])
            \/ Nearer(call[r], call'[r])
<1>1. Step(r) => Nearer(call[r], call'[r])
  BY StepNearer
<1>2. CASE UNCHANGED call
  BY <1>1, <1>2
<1>3. ASSUME NEW q \in Calls, Start(q) \/ Step(q), q # r
      PROVE  call'[r] = call[r]
  <2>1. \E e : Become(q, e) \/ \E place : GoTo(q, place)
    BY <1>3 DEF Start, SplitStart, TransferStart, MergerStart, Step, SplitRound, SplitSend,
                Balance, BatchRound, BatchSend, TransferRound, TransferSend, MergerRound,
                MergerSend, Mark, Hand, Encode
  <2> QED
    BY <1>3, <2>1 DEF Become, GoTo, IInv, Types
<1>4. Start(r) => call[r] = Idle /\ Within(call'[r])
  BY StartWithin
<1> QED
  BY <1>1, <1>2, <1>3, <1>4 DEF Next, vars

(* The half of EveryCallEnds that does not depend on who is scheduled:     *)
(* what is left of a call is three numbers, rounds before addresses before *)
(* steps, every step of the call brings it closer to 0, whatever the node, *)
(* the database, TxEncode and TxSign answer, and nobody else takes a step  *)
(* of it back; by NoEndlessDescent a call that is scheduled ends           *)
(* (presstest.go:218-299, 423-501, 520-594).                               *)
THEOREM CallsGetOn ==
  Spec =>
    /\ [](\A r \in Calls : ToGo(call[r]) \in Measures)
    /\ [][\A r \in Calls : call[r] # Idle =>
           /\ Step(r) => Closer(ToGo(call[r])', ToGo(call[r]))
           /\ ToGo(call[r])' = ToGo(call[r]) \/ Closer(ToGo(call[r])', ToGo(call[r]))]_vars
<1> DEFINE AllWithin == \A r \in Calls : Within(call[r])
<1> DEFINE Measured == \A r \in Calls : ToGo(call[r]) \in Measures
<1> DEFINE GetsOn ==
      \A r \in Calls : call[r] # Idle =>
        /\ Step(r) => Closer(ToGo(call[r])', ToGo(call[r]))
        /\ ToGo(call[r])' = ToGo(call[r]) \/ Closer(ToGo(call[r])', ToGo(call[r]))
<1>1. Init => AllWithin
  BY DEF Init, Idle, Within
<1>2. IInv /\ Types' /\ AllWithin /\ [Next]_vars => AllWithin'
  BY NextNearer DEF Nearer
<1>3. IInv /\ Types' /\ AllWithin /\ [Next]_vars => GetsOn
  BY NextNearer DEF Nearer
<1>4. IInv /\ AllWithin => Measured
  BY BoundedCall, LeftFacts
<1>5. IInv => Types
  BY DEF IInv
<1> QED
  BY <1>1, <1>2, <1>3, <1>4, <1>5, Invariant, PTL DEF Spec
=============================================================================
