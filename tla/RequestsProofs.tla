----------------------------- MODULE RequestsProofs -----------------------------
(***************************************************************************)
(* Proofs about the components that MCRequests checks: the ids of a worker *)
(* (SnowflakeIdWorker), the purchases of a reader (ChapterPurchase) and    *)
(* the chat (LayIMChat), each for every value of its constants.            *)
(***************************************************************************)
EXTENDS MCRequests, FiniteSetTheorems, WellFoundedInduction, TLAPS

--------------------------------------------------------------------------------
(* Ids.                                                                     *)

\* A larger high field outweighs any low field.
LEMMA FieldOrder ==
  ASSUME NEW m \in Nat, NEW a \in Int, NEW b \in Int, a < b, NEW r \in 0..m - 1, NEW q \in Nat
  PROVE  a * m + r < b * m + q
<1> DEFINE d == b - a - 1
<1>1. d \in Nat /\ b = a + 1 + d
  OBVIOUS
<1>2. b * m = a * m + m + d * m
  BY <1>1
<1>3. d * m >= 0 /\ d * m \in Int /\ a * m \in Int
  BY <1>1
<1> QED BY <1>2, <1>3

\* Ids of one worker are ordered by timestamp, then by sequence.
LEMMA PackOrder ==
  ASSUME NEW n \in 0..Numbers - 1, NEW t \in Int, NEW u \in Int,
         NEW r \in 0..SeqSize - 1, NEW q \in 0..SeqSize - 1,
         t < u \/ (t = u /\ r < q)
  PROVE  Pack(t, n, r) < Pack(u, n, q)
<1> USE WorkerAssumption
<1>1. CASE t = u /\ r < q
  BY <1>1 DEF Pack
<1>2. CASE t < u
  <2>1. t * Numbers + n < u * Numbers + n
    BY <1>2, FieldOrder
  <2>2. t * Numbers + n \in Int /\ u * Numbers + n \in Int
    OBVIOUS
  <2> QED BY <2>1, <2>2, FieldOrder DEF Pack
<1> QED BY <1>1, <1>2

\* The worker's number can be read back from an id.
LEMMA PackNumber ==
  ASSUME NEW n \in 0..Numbers - 1, NEW p \in 0..Numbers - 1, NEW t \in Int, NEW u \in Int,
         NEW r \in 0..SeqSize - 1, NEW q \in 0..SeqSize - 1, Pack(t, n, r) = Pack(u, p, q)
  PROVE  n = p
<1> USE WorkerAssumption
<1> DEFINE a == t * Numbers + n
           b == u * Numbers + p
<1>1. a \in Int /\ b \in Int /\ a * SeqSize + r = b * SeqSize + q
  BY DEF Pack
<1>2. a = b
  <2> HIDE DEF a, b
  <2> QED BY <1>1, FieldOrder
<1>3. t = u
  BY <1>2, FieldOrder
<1> QED BY <1>2, <1>3
\* An id is an integer.
LEMMA PackType ==
  ASSUME NEW t \in Int, NEW n \in Int, NEW r \in Int
  PROVE  Pack(t, n, r) \in Int
<1>1. t * Numbers + n \in Int
  BY WorkerAssumption
<1> QED BY <1>1, WorkerAssumption DEF Pack

\* So are the newest id of a worker and the id of a log entry.
LEMMA IdType ==
  ASSUME TypeOK
  PROVE  /\ \A w \in Worker : Newest[w] \in Int
         /\ \A e \in Entry : Id(e) \in Int /\ e.worker \in Worker
<1>1. \A w \in Worker : Newest[w] \in Int
  <2> SUFFICES ASSUME NEW w \in Worker PROVE Newest[w] \in Int
    OBVIOUS
  <2> DEFINE seq == IF waiting[w] = NoCaller THEN sequence[w] ELSE SeqSize - 1
  <2>1. lastTimestamp[w] \in Int /\ Number[w] \in Int /\ seq \in Int
    BY WorkerAssumption DEF TypeOK
  <2>2. Newest[w] = Pack(lastTimestamp[w], Number[w], seq)
    BY DEF Newest
  <2> HIDE DEF seq
  <2> QED BY <2>1, <2>2, PackType
<1>2. \A e \in Entry : Id(e) \in Int /\ e.worker \in Worker
  BY PackType, WorkerAssumption DEF Id, Entry
<1> QED BY <1>1, <1>2

\* The sequence of the next id stays within its field, and grows unless it wraps.
LEMMA NextSeqType ==
  ASSUME TypeOK, NEW w \in Worker
  PROVE  /\ NextSeq(w) \in 0..SeqSize - 1
         /\ clock = lastTimestamp[w] /\ NextSeq(w) # 0 => NextSeq(w) = sequence[w] + 1
<1>1. sequence[w] \in 0..SeqSize - 1
  BY DEF TypeOK
<1>2. CASE sequence[w] + 1 < SeqSize
  BY <1>1, <1>2, WorkerAssumption DEF NextSeq
<1>3. CASE sequence[w] + 1 = SeqSize
  BY <1>1, <1>3, WorkerAssumption DEF NextSeq
<1> QED BY <1>1, <1>2, <1>3, WorkerAssumption

\* What Return appends is a log entry.
LEMMA ReturnType ==
  ASSUME TypeOK, NEW w \in Worker, NEW ts \in Int, NEW seq \in Nat, Return(w, ts, seq)
  PROVE  log' \in Seq(Entry)
<1>1. [worker |-> w, timestamp |-> ts, seq |-> seq] \in Entry
  BY DEF Entry
<1> QED BY <1>1 DEF TypeOK, Return

\* Every call and every change of the clock keeps the generator well typed:
\* in particular the sequence never leaves its field (SnowflakeIdWorker).
THEOREM TypeCorrect == Spec => []TypeOK
<1> USE WorkerAssumption
<1>1. Init => TypeOK
  BY DEF Init, TypeOK
<1>2. TypeOK /\ [Next]_vars => TypeOK'
  <2> SUFFICES ASSUME TypeOK, [Next]_vars PROVE TypeOK'
    OBVIOUS
  <2>1. ASSUME NEW c \in Caller, NEW w \in Worker, NextId(c, w) PROVE TypeOK'
    <3>1. log' \in Seq(Entry)
      BY <2>1, NextSeqType, ReturnType DEF TypeOK, NextId
    <3> QED BY <2>1, <3>1, NextSeqType DEF TypeOK, NextId
  <2>2. ASSUME NEW w \in Worker, NextMillis(w) PROVE TypeOK'
    <3>1. log' \in Seq(Entry)
      BY <2>2, ReturnType DEF TypeOK, NextMillis
    <3> QED BY <2>2, <3>1 DEF TypeOK, NextMillis
  <2>3. CASE SetClock
    BY <2>3 DEF TypeOK, SetClock
  <2>4. CASE UNCHANGED vars
    BY <2>4 DEF TypeOK, vars
  <2> QED BY <2>1, <2>2, <2>3, <2>4 DEF Next
<1> QED BY <1>1, <1>2, PTL DEF Spec

\* Returning an id above the newest of its worker keeps the log increasing.
LEMMA ReturnKeeps ==
  ASSUME TypeOK, Increasing, LogInv, NEW w \in Worker, NEW ts \in Int,
         NEW seq \in 0..SeqSize - 1, Return(w, ts, seq),
         Newest[w] < Pack(ts, Number[w], seq),
         Newest'[w] = Pack(ts, Number[w], seq),
         \A v \in Worker \ {w} : Newest'[v] = Newest[v]
  PROVE  Increasing' /\ LogInv'
<1> DEFINE new == [worker |-> w, timestamp |-> ts, seq |-> seq]
<1>1. /\ new \in Entry /\ Id(new) = Pack(ts, Number[w], seq)
      /\ log \in Seq(Entry) /\ log' = Append(log, new)
  BY DEF TypeOK, Entry, Id, Return
<1>2. /\ DOMAIN log = 1..Len(log) /\ DOMAIN log' = 1..Len(log) + 1 /\ Len(log) \in Nat
      /\ \A i \in 1..Len(log) : log'[i] = log[i] /\ log[i] \in Entry
      /\ log'[Len(log) + 1] = new
  BY <1>1
<1>3. /\ \A v \in Worker : Newest[v] \in Int
      /\ \A e \in Entry : Id(e) \in Int /\ e.worker \in Worker
  BY IdType
<1>4. \A i \in 1..Len(log) : Id(log[i]) <= Newest[log[i].worker] /\ log[i].seq < SeqSize
  BY <1>2 DEF LogInv
<1> HIDE DEF new
<1>5. new.worker = w /\ new.seq = seq
  BY DEF new
<1>6. LogInv'
  <2> SUFFICES ASSUME NEW i \in 1..Len(log) + 1
               PROVE  log'[i].seq < SeqSize /\ Id(log'[i]) <= Newest'[log'[i].worker]
    BY <1>2 DEF LogInv, Id
  <2>1. CASE i = Len(log) + 1
    BY <1>1, <1>2, <1>3, <1>5, <2>1, WorkerAssumption
  <2>2. CASE i \in 1..Len(log)
    <3>1. /\ log'[i] = log[i] /\ log[i].worker \in Worker
          /\ Id(log[i]) <= Newest[log[i].worker] /\ log[i].seq < SeqSize
      BY <1>2, <1>3, <1>4, <2>2
    <3> DEFINE v == log[i].worker
    <3>2. Newest[v] <= Newest'[v]
      <4>1. v \in Worker /\ Newest[v] \in Int /\ Newest[w] \in Int
        BY <1>3, <3>1
      <4>2. Pack(ts, Number[w], seq) \in Int
        BY <1>1, <1>3
      <4> HIDE DEF v
      <4>3. CASE v = w
        BY <4>1, <4>2, <4>3
      <4>4. CASE v # w
        BY <4>1, <4>4
      <4> QED BY <4>3, <4>4
    <3> QED BY <1>1, <1>3, <3>1, <3>2, <1>2, <2>2
  <2> QED BY <1>2, <2>1, <2>2
<1>7. Increasing'
  <2> SUFFICES ASSUME NEW i \in 1..Len(log) + 1, NEW j \in 1..Len(log) + 1, i < j,
                      log'[i].worker = log'[j].worker
               PROVE  Id(log'[i]) < Id(log'[j])
    BY <1>2 DEF Increasing, Id
  <2>1. i \in 1..Len(log) /\ log'[i] = log[i]
    BY <1>2
  <2>2. CASE j \in 1..Len(log)
    BY <1>2, <2>1, <2>2 DEF Increasing
  <2>3. CASE j = Len(log) + 1
    BY <1>1, <1>2, <1>3, <1>4, <1>5, <2>1, <2>3
  <2> QED BY <1>2, <2>2, <2>3
<1> QED BY <1>6, <1>7

\* The inductive invariant: besides the order of the log, no id is above the
\* newest its worker may have returned.
LEMMA Invariance == Spec => []IInv
<1> USE WorkerAssumption
<1>1. Init => IInv
  <2>1. Init => TypeOK
    BY DEF Init, TypeOK
  <2> QED BY <2>1 DEF Init, IInv, Increasing, LogInv, WaitInv
<1>2. IInv /\ [Next]_vars => (Increasing /\ LogInv /\ WaitInv)'
  <2> DEFINE Goal == (Increasing /\ LogInv /\ WaitInv)'
  <2> SUFFICES ASSUME IInv, [Next]_vars PROVE Goal
    OBVIOUS
  <2>1. ASSUME NEW c \in Caller, NEW w \in Worker, NextId(c, w) PROVE Goal
    <3> DEFINE seq == NextSeq(w)
    <3>1. /\ seq \in 0..SeqSize - 1 /\ sequence[w] \in 0..SeqSize - 1
          /\ clock = lastTimestamp[w] /\ seq # 0 => seq = sequence[w] + 1
          /\ clock \in Int /\ lastTimestamp[w] \in Int /\ Number[w] \in 0..Numbers - 1
      BY NextSeqType DEF IInv, TypeOK
    <3>2. /\ waiting[w] = NoCaller /\ clock >= lastTimestamp[w]
          /\ sequence' = [sequence EXCEPT ![w] = seq]
      BY <2>1 DEF NextId
    <3>3. \A v \in Worker \ {w} : Newest'[v] = Newest[v]
      BY <2>1, <3>2 DEF NextId, Newest, IInv, TypeOK
    <3>4. CASE clock = lastTimestamp[w] /\ seq = 0
      <4>1. log' = log /\ lastTimestamp' = lastTimestamp /\ waiting' = [waiting EXCEPT ![w] = c]
        BY <2>1, <3>4 DEF NextId
      <4>2. /\ Newest[w] = Pack(lastTimestamp[w], Number[w], sequence[w])
            /\ Newest'[w] = Pack(lastTimestamp[w], Number[w], SeqSize - 1)
        BY <3>2, <4>1 DEF Newest, IInv, TypeOK
      <4>3. Newest[w] <= Newest'[w] /\ Newest[w] \in Int /\ Newest'[w] \in Int
        BY <3>1, <4>2 DEF Pack
      <4>4. WaitInv'
        BY <3>2, <3>4, <4>1 DEF WaitInv, IInv, TypeOK
      <4>5. \A i \in DOMAIN log : log[i].worker \in Worker /\ Id(log[i]) \in Int
        BY IdType DEF IInv, TypeOK
      <4>6. LogInv'
        <5> SUFFICES ASSUME NEW i \in DOMAIN log
                     PROVE  log[i].seq < SeqSize /\ Id(log[i]) <= Newest'[log[i].worker]
          BY <4>1 DEF LogInv, Id
        <5>1. log[i].seq < SeqSize /\ Id(log[i]) <= Newest[log[i].worker]
          BY DEF LogInv, IInv
        <5> QED BY <3>3, <4>3, <4>5, <5>1
      <4> QED BY <4>1, <4>4, <4>6 DEF Increasing, IInv, Id
    <3>5. CASE ~(clock = lastTimestamp[w] /\ seq = 0)
      <4>1. /\ Return(w, clock, seq) /\ waiting' = waiting
            /\ lastTimestamp' = [lastTimestamp EXCEPT ![w] = clock]
        BY <2>1, <3>5 DEF NextId
      <4>2. /\ Newest[w] = Pack(lastTimestamp[w], Number[w], sequence[w])
            /\ Newest'[w] = Pack(clock, Number[w], seq)
        BY <3>2, <4>1 DEF Newest, IInv, TypeOK
      <4>3. Newest[w] < Pack(clock, Number[w], seq)
        BY <3>1, <3>2, <3>5, <4>2, PackOrder
      <4>4. WaitInv'
        BY <3>2, <4>1 DEF WaitInv, IInv, TypeOK
      <4> QED BY <3>1, <3>3, <4>1, <4>2, <4>3, <4>4, ReturnKeeps DEF IInv
    <3> QED BY <3>4, <3>5
  <2>2. ASSUME NEW w \in Worker, NextMillis(w) PROVE Goal
    <3>1. /\ waiting[w] # NoCaller /\ clock > lastTimestamp[w] /\ sequence' = sequence
          /\ lastTimestamp' = [lastTimestamp EXCEPT ![w] = clock]
          /\ waiting' = [waiting EXCEPT ![w] = NoCaller]
          /\ Return(w, clock, sequence[w])
      BY <2>2 DEF NextMillis
    <3>2. /\ clock \in Int /\ lastTimestamp[w] \in Int /\ Number[w] \in 0..Numbers - 1
          /\ sequence[w] \in 0..SeqSize - 1
      BY DEF IInv, TypeOK
    <3>3. /\ Newest[w] = Pack(lastTimestamp[w], Number[w], SeqSize - 1)
          /\ Newest'[w] = Pack(clock, Number[w], sequence[w])
      BY <3>1 DEF Newest, IInv, TypeOK
    <3>4. Newest[w] < Pack(clock, Number[w], sequence[w])
      BY <3>1, <3>2, <3>3, PackOrder
    <3>5. \A v \in Worker \ {w} : Newest'[v] = Newest[v]
      BY <3>1 DEF Newest, IInv, TypeOK
    <3>6. WaitInv'
      BY <3>1 DEF WaitInv, IInv, TypeOK
    <3> QED BY <3>1, <3>2, <3>3, <3>4, <3>5, <3>6, ReturnKeeps DEF IInv
  <2>3. CASE SetClock
    BY <2>3 DEF SetClock, IInv, Increasing, LogInv, WaitInv, Newest, Id
  <2>4. CASE UNCHANGED vars
    BY <2>4 DEF vars, IInv, Increasing, LogInv, WaitInv, Newest, Id
  <2> HIDE DEF Goal
  <2> QED BY <2>1, <2>2, <2>3, <2>4 DEF Next
<1> QED BY <1>1, <1>2, TypeCorrect, PTL DEF Spec, IInv

\* Whatever the clock does and however many threads call it, a worker object
\* returns ever larger ids: none is returned twice (SnowflakeIdWorker.nextId).
THEOREM IdsIncrease == Spec => []Increasing
<1>1. IInv => Increasing
  BY DEF IInv
<1> QED BY <1>1, Invariance, PTL

\* Workers with different numbers never return the same id.
THEOREM NumbersSeparate == Spec => []Disjoint
<1>1. IInv => Disjoint
  <2> SUFFICES ASSUME IInv, TypeOK, LogInv, NEW i \in DOMAIN log, NEW j \in DOMAIN log,
                      Id(log[i]) = Id(log[j])
               PROVE  Number[log[i].worker] = Number[log[j].worker]
    BY DEF Disjoint, IInv
  <2>1. log[i] \in Entry /\ log[j] \in Entry
    BY DEF TypeOK
  <2>2. log[i].seq \in 0..SeqSize - 1 /\ log[j].seq \in 0..SeqSize - 1
    BY <2>1, WorkerAssumption DEF LogInv, Entry
  <2>3. /\ log[i].timestamp \in Int /\ Number[log[i].worker] \in 0..Numbers - 1
        /\ log[j].timestamp \in Int /\ Number[log[j].worker] \in 0..Numbers - 1
    BY <2>1, WorkerAssumption DEF Entry
  <2> QED BY <2>2, <2>3, PackNumber DEF Id
<1> QED BY <1>1, Invariance, PTL

\* An id is returned twice only by two objects that were given one number, as
\* the readers' controllers do with a new worker (0, 0) for each request.
THEOREM RepeatsShareNumber ==
  Spec => [](\A i, j \in DOMAIN log :
               i # j /\ Id(log[i]) = Id(log[j]) =>
                 /\ log[i].worker # log[j].worker
                 /\ Number[log[i].worker] = Number[log[j].worker])
<1>1. TypeOK /\ Increasing /\ Disjoint =>
        \A i, j \in DOMAIN log :
          i # j /\ Id(log[i]) = Id(log[j]) =>
            /\ log[i].worker # log[j].worker
            /\ Number[log[i].worker] = Number[log[j].worker]
  <2>1. SUFFICES ASSUME TypeOK, Increasing, Disjoint,
                        NEW i \in DOMAIN log, NEW j \in DOMAIN log,
                        i # j, Id(log[i]) = Id(log[j])
                 PROVE  /\ log[i].worker # log[j].worker
                        /\ Number[log[i].worker] = Number[log[j].worker]
    OBVIOUS
  <2>2. log \in Seq(Entry) /\ log[i] \in Entry
    BY <2>1 DEF TypeOK
  <2>3. i < j \/ j < i
    BY <2>1, <2>2
  <2>4. Id(log[i]) \in Int
    BY <2>1, <2>2, IdType DEF TypeOK
  <2>5. log[i].worker # log[j].worker
    BY <2>1, <2>3, <2>4 DEF Increasing
  <2>6. QED
    BY <2>1, <2>5 DEF Disjoint
<1>2. QED
  BY <1>1, TypeCorrect, IdsIncrease, NumbersSeparate, PTL

--------------------------------------------------------------------------------
(* Induction over the natural numbers, in a form that needs no operator     *)
(* parameter, and sums of functions over finite sets.                       *)

Below == {ss \in Nat \X Nat : ss[1] < ss[2]}

LEMMA BelowWF == IsWellFoundedOn(Below, Nat)
BY NatLessThanWellFounded DEF OpToRel, Below

LEMMA Induction ==
  ASSUME NEW S, 0 \in S, \A n \in Nat : n \in S => n + 1 \in S
  PROVE  Nat \subseteq S
<1> DEFINE T == Nat \ S
<1>1. SUFFICES ASSUME T # {} PROVE FALSE
  OBVIOUS
<1>2. PICK x \in T : \A y \in T : <<y, x>> \notin Below
  <2>1. T \subseteq Nat
    OBVIOUS
  <2> HIDE DEF T
  <2>2. QED
    BY <1>1, <2>1, BelowWF, WFMin
<1>3. x # 0 /\ x \in Nat
  OBVIOUS
<1>4. x - 1 \in Nat /\ (x - 1) + 1 = x
  BY <1>3
<1>5. x - 1 \in T
  BY <1>4
<1>6. <<x - 1, x>> \in Below
  BY <1>3, <1>4 DEF Below
<1>7. QED
  BY <1>2, <1>5, <1>6

(* The sum of a function takes one element after the other out of its       *)
(* domain; h has the sums over the sets in T.                               *)
Pick(s) == CHOOSE x \in s : TRUE
Within(S, n) == {s \in SUBSET S : Cardinality(s) <= n}
SumOn(f, T, h) ==
  h = [s \in T |-> IF s = {} THEN 0 ELSE f[Pick(s)] + h[s \ {Pick(s)}]]

LEMMA PickIn == ASSUME NEW s, s # {} PROVE Pick(s) \in s
BY DEF Pick

LEMMA WithinRest ==
  ASSUME NEW S, IsFiniteSet(S), NEW n \in Nat, NEW s \in SUBSET S, s # {},
         Cardinality(s) <= n + 1
  PROVE  /\ s \ {Pick(s)} \in Within(S, n) 
         /\ Pick(s) \in S /\ IsFiniteSet(s)
         /\ Cardinality(s \ {Pick(s)}) \in Nat
         /\ Cardinality(s) = Cardinality(s \ {Pick(s)}) + 1
<1>1. IsFiniteSet(s) /\ Pick(s) \in s
  BY FS_Subset, PickIn
<1>2. /\ Cardinality(s) \in Nat
      /\ Cardinality(s \ {Pick(s)}) = Cardinality(s) - 1
      /\ Cardinality(s \ {Pick(s)}) \in Nat
  BY <1>1, FS_CardinalityType, FS_RemoveElement
<1>3. s \ {Pick(s)} \in SUBSET S /\ Pick(s) \in S
  BY <1>1
<1>4. Cardinality(s \ {Pick(s)}) <= n /\ Cardinality(s) = Cardinality(s \ {Pick(s)}) + 1
  BY <1>2
<1>5. QED
  BY <1>1, <1>2, <1>3, <1>4 DEF Within

LEMMA SumExists ==
  ASSUME NEW S, IsFiniteSet(S), NEW f
  PROVE  \A n \in Nat : \E h : SumOn(f, Within(S, n), h)
<1> DEFINE N == {n \in Nat : \E h : SumOn(f, Within(S, n), h)}
<1>1. 0 \in N
  <2> DEFINE h == [s \in Within(S, 0) |-> 0]
  <2>1. ASSUME NEW s \in Within(S, 0) PROVE s = {}
    BY FS_Subset, FS_EmptySet, FS_CardinalityType DEF Within
  <2>2. SumOn(f, Within(S, 0), h)
    BY <2>1 DEF SumOn
  <2>3. QED
    BY <2>2
<1>2. ASSUME NEW n \in Nat, n \in N PROVE n + 1 \in N
  <2>1. PICK h : SumOn(f, Within(S, n), h)
    BY <1>2
  <2> DEFINE T == Within(S, n + 1)
             g == [s \in T |-> IF s = {} THEN 0
                               ELSE f[Pick(s)] + h[s \ {Pick(s)}]]
  <2>2. ASSUME NEW s \in Within(S, n) PROVE g[s] = h[s]
    <3>1. s \in T
      BY FS_Subset, FS_CardinalityType DEF Within
    <3>2. QED
      BY <2>1, <3>1 DEF SumOn
  <2>3. ASSUME NEW s \in T, s # {} PROVE g[s \ {Pick(s)}] = h[s \ {Pick(s)}]
    BY <2>2, <2>3, WithinRest DEF Within
  <2>4. SumOn(f, T, g)
    <3> HIDE DEF T
    <3>1. QED
      BY <2>3 DEF SumOn
  <2>5. QED
    BY <2>4
<1>3. Nat \subseteq N
  <2> HIDE DEF N
  <2>1. QED
    BY <1>1, <1>2, Induction
<1>4. QED
  BY <1>3

LEMMA SumIs ==
  ASSUME NEW S, IsFiniteSet(S), NEW f, DOMAIN f = S
  PROVE  \E h : SumOn(f, SUBSET S, h) /\ SumFunction(f) = h[S]
<1>1. Within(S, Cardinality(S)) = SUBSET S /\ Cardinality(S) \in Nat
  BY FS_Subset, FS_CardinalityType DEF Within
<1>2. \E h : SumOn(f, SUBSET S, h)
  <2>1. \A n \in Nat : \E h : SumOn(f, Within(S, n), h)
    BY SumExists
  <2>2. QED
    BY <1>1, <2>1
<1>3. SumFunction(f) =
        LET h == CHOOSE h : SumOn(f, SUBSET S, h) IN h[S]
  BY DEF SumFunction, SumFunctionOnSet, FoldFunctionOnSet, MapThenFoldSet,
         SumOn, Pick
<1>4. QED
  BY <1>2, <1>3

(* A change at one place changes the sum by as much. *)
LEMMA SumChange ==
  ASSUME NEW S, IsFiniteSet(S), NEW f \in [S -> Int], NEW g \in [S -> Int],
         NEW x \in S, \A y \in S \ {x} : g[y] = f[y]
  PROVE  /\ SumFunction(f) \in Int /\ SumFunction(g) \in Int
         /\ SumFunction(g) = SumFunction(f) + (g[x] - f[x])
<1>1. PICK h : SumOn(f, SUBSET S, h) /\ SumFunction(f) = h[S]
  BY SumIs
<1>2. PICK k : SumOn(g, SUBSET S, k) /\ SumFunction(g) = k[S]
  BY SumIs
<1> DEFINE d == g[x] - f[x]
           Moved(s) == /\ h[s] \in Int
                       /\ k[s] = h[s] + (IF x \in s THEN d ELSE 0)
           N == {n \in Nat : \A s \in Within(S, n) : Moved(s)}
<1>3. d \in Int
  OBVIOUS
<1>4. 0 \in N
  <2>1. ASSUME NEW s \in Within(S, 0) PROVE s = {} /\ s \in SUBSET S
    BY FS_Subset, FS_EmptySet, FS_CardinalityType DEF Within
  <2>2. h[{}] = 0 /\ k[{}] = 0
    BY <1>1, <1>2 DEF SumOn
  <2>3. Moved({})
    BY <2>2
  <2>4. QED
    <3> HIDE DEF Moved
    <3>1. QED
      BY <2>1, <2>3
<1>5. ASSUME NEW n \in Nat, n \in N PROVE n + 1 \in N
  <2>1. ASSUME NEW s \in Within(S, n + 1), s # {} PROVE Moved(s)
    <3> DEFINE y == Pick(s)
               r == s \ {y}
    <3>2. s \in SUBSET S /\ y \in s /\ y \in S /\ r \in Within(S, n) /\ r \in SUBSET S
      BY <2>1, WithinRest, PickIn DEF Within
    <3>3. h[s] = f[y] + h[r] /\ k[s] = g[y] + k[r]
      BY <1>1, <1>2, <2>1, <3>2 DEF SumOn
    <3>4. Moved(r)
      BY <1>5, <3>2
    <3>5. f[y] \in Int /\ g[y] \in Int /\ f[x] \in Int /\ g[x] \in Int
      BY <3>2
    <3>6. CASE y = x
      <4>1. x \notin r /\ x \in s /\ k[r] = h[r] /\ h[r] \in Int
        BY <3>2, <3>4, <3>6
      <4>2. QED
        BY <3>3, <3>5, <3>6, <4>1
    <3>7. CASE y # x
      <4>1. g[y] = f[y] /\ (x \in r <=> x \in s)
        BY <3>2, <3>7
      <4>2. QED
        BY <1>3, <3>3, <3>4, <3>5, <4>1
    <3>8. QED
      BY <3>6, <3>7
  <2>2. h[{}] = 0 /\ k[{}] = 0
    BY <1>1, <1>2 DEF SumOn
  <2>3. Moved({})
    BY <2>2
  <2>4. QED
    <3> HIDE DEF Moved
    <3>1. \A s \in Within(S, n + 1) : Moved(s)
      BY <2>1, <2>3
    <3>2. QED
      BY <3>1
<1>6. Nat \subseteq N
  <2> HIDE DEF N
  <2>1. QED
    BY <1>4, <1>5, Induction
<1>7. Cardinality(S) \in Nat /\ S \in Within(S, Cardinality(S))
  BY FS_CardinalityType DEF Within
<1>8. Moved(S)
  BY <1>6, <1>7
<1>9. QED
  BY <1>1, <1>2, <1>3, <1>8

LEMMA SumOfNone ==
  ASSUME NEW S, IsFiniteSet(S), NEW f, DOMAIN f = S, \A x \in S : f[x] = 0
  PROVE  SumFunction(f) = 0
<1>1. PICK h : SumOn(f, SUBSET S, h) /\ SumFunction(f) = h[S]
  BY SumIs
<1> DEFINE N == {n \in Nat : \A s \in Within(S, n) : h[s] = 0}
<1>2. 0 \in N
  <2>1. ASSUME NEW s \in Within(S, 0) PROVE s = {} /\ s \in SUBSET S
    BY FS_Subset, FS_EmptySet, FS_CardinalityType DEF Within
  <2>2. QED
    BY <1>1, <2>1 DEF SumOn
<1>3. ASSUME NEW n \in Nat, n \in N PROVE n + 1 \in N
  <2>1. SUFFICES ASSUME NEW s \in Within(S, n + 1), s # {} PROVE h[s] = 0
    <3>1. h[{}] = 0
      BY <1>1 DEF SumOn
    <3>2. QED
      BY <2>1, <3>1
  <2>2. /\ s \in SUBSET S /\ Pick(s) \in S
        /\ s \ {Pick(s)} \in Within(S, n)
    BY <2>1, WithinRest DEF Within
  <2>3. h[s] = f[Pick(s)] + h[s \ {Pick(s)}]
    BY <1>1, <2>1, <2>2 DEF SumOn
  <2>4. QED
    BY <1>3, <2>2, <2>3
<1>4. Nat \subseteq N
  <2> HIDE DEF N
  <2>1. QED
    BY <1>2, <1>3, Induction
<1>5. Cardinality(S) \in Nat /\ S \in Within(S, Cardinality(S))
  BY FS_CardinalityType DEF Within
<1>6. QED
  BY <1>1, <1>4, <1>5

--------------------------------------------------------------------------------
(* Purchases.                                                               *)

(* What a page that has begun holds, and what covers the reader's first     *)
(* balance as long as no save has failed: each copy of the balance, in the  *)
(* row, in a session or in a handler about to reduce it, falls short of it  *)
(* only by what is bought or under way.                                     *)
Least == Money0 - (Worth + Pending)

Begun == \A p \in Page : pc[p] # "shop" => want[p] \in Chapter /\ Users(p) # None

Balanced ==
  /\ purse >= Least
  /\ \A s \in Session : held[s] # None => held[s] >= Least
  /\ \A p \in Page : pc[p] = "set" => money[p] >= Least

PurchaseInv ==
  /\ PurchaseTypeOK /\ Begun /\ ReadMeansBought
  /\ fails = 0 => Balanced

LEMMA SumInt ==
  ASSUME NEW S, IsFiniteSet(S), NEW f \in [S -> Int]
  PROVE  SumFunction(f) \in Int
<1>1. CASE S = {}
  BY <1>1, SumOfNone
<1>2. ASSUME NEW x \in S PROVE SumFunction(f) \in Int
  BY SumChange
<1>3. QED
  BY <1>1, <1>2

LEMMA Sums ==
  ASSUME PurchaseTypeOK, Begun
  PROVE  /\ Spent \in [Chapter -> Int] /\ Due \in [Page -> Int]
         /\ Worth \in Int /\ Pending \in Int
<1> USE PurchaseAssumption
<1>1. ASSUME NEW c \in Chapter PROVE rows[c] * Price[c] \in Int
  <2>1. rows[c] \in Nat /\ Price[c] \in Nat
    BY DEF PurchaseTypeOK
  <2>2. QED
    BY <2>1
<1>2. Spent \in [Chapter -> Int]
  BY <1>1 DEF Spent
<1>3. Due \in [Page -> Int]
  BY DEF Due, Begun, Cost, PurchaseTypeOK
<1>4. QED
  BY <1>2, <1>3, SumInt DEF Worth, Pending

LEMMA SumsAfter ==
  ASSUME PurchaseTypeOK', Begun'
  PROVE  Spent' \in [Chapter -> Int] /\ Due' \in [Page -> Int]
<1> USE PurchaseAssumption
<1>1. ASSUME NEW c \in Chapter PROVE rows'[c] * Price[c] \in Int
  <2>1. rows'[c] \in Nat /\ Price[c] \in Nat
    BY DEF PurchaseTypeOK
  <2>2. QED
    BY <2>1
<1>2. Spent' \in [Chapter -> Int]
  BY <1>1 DEF Spent
<1>3. Due' \in [Page -> Int]
  BY DEF Due, Begun, Cost, PurchaseTypeOK
<1>4. QED
  BY <1>2, <1>3

(* An action that changes neither what is bought nor what is under way. *)
LEMMA SameAccount ==
  ASSUME Spent' = Spent, Due' = Due
  PROVE  Worth' = Worth /\ Pending' = Pending
BY DEF Worth, Pending

LEMMA DueStays ==
  ASSUME \A p \in Page :
           (IF pc[p] \in {"users", "row"} THEN Cost(p) ELSE 0)' =
            IF pc[p] \in {"users", "row"} THEN Cost(p) ELSE 0
  PROVE  Due' = Due
BY DEF Due

LEMMA LeastFalls ==
  ASSUME PurchaseTypeOK, Begun, PurchaseTypeOK', Begun', NEW d \in Int,
         Worth' + Pending' = (Worth + Pending) + d
  PROVE  Least \in Int /\ Least' = Least - d
<1>1. Worth \in Int /\ Pending \in Int /\ Money0 \in Int
  BY Sums, PurchaseAssumption
<1>2. Least' = Money0 - (Worth' + Pending')
  BY DEF Least
<1>3. QED
  BY <1>1, <1>2 DEF Least

(* The steps of a page that neither buy nor pay. *)
LEMMA QuietStep ==
  ASSUME PurchaseInv, NEW p \in Page, NEW next \in PageSteps, Proceed(p, next),
         pc[p] \notin {"users", "row"} \/ (pc[p] = "users" /\ next = "row"),
         next \notin {"users", "row"} \/ (pc[p] = "users" /\ next = "row"),
         \A q \in Page : pc[q] \in {"users", "row"} => want'[q] = want[q],
         UNCHANGED rows
  PROVE  Worth' = Worth /\ Pending' = Pending
<1>1. pc' = [pc EXCEPT ![p] = next] /\ pc \in [Page -> PageSteps]
  BY DEF Proceed, PurchaseInv, PurchaseTypeOK
<1>2. Due' = Due
  BY <1>1 DEF Due, Cost
<1>3. Spent' = Spent
  BY DEF Spent
<1>4. QED
  BY <1>2, <1>3, SameAccount

LEMMA TypeStep ==
  ASSUME PurchaseInv, PurchaseNext
  PROVE  PurchaseTypeOK' /\ Begun'
<1> USE PurchaseAssumption
<1>1. PurchaseTypeOK /\ Begun
  BY DEF PurchaseInv
<1>2. ASSUME NEW s \in Session, Login(s) PROVE PurchaseTypeOK' /\ Begun'
  <2>1. /\ held' = [held EXCEPT ![s] = purse] /\ purse \in Int /\ purse # None
        /\ UNCHANGED <<purse, rows, pc, want, money, fails, topups>>
    BY <1>1, <1>2 DEF Login, PurchaseTypeOK
  <2>2. PurchaseTypeOK'
    BY <1>1, <2>1 DEF PurchaseTypeOK
  <2>3. Begun'
    BY <1>1, <2>1 DEF PurchaseTypeOK, Begun, Users
  <2>4. QED
    BY <2>2, <2>3
<1>3. ASSUME NEW p \in Page, NEW c \in Chapter, SelectOneBuychapter(p, c)
      PROVE  PurchaseTypeOK' /\ Begun'
  <2>1. PurchaseTypeOK'
    BY <1>1, <1>3 DEF SelectOneBuychapter, Proceed, PurchaseTypeOK, PageSteps
  <2>2. Begun'
    BY <1>1, <1>3 DEF SelectOneBuychapter, Proceed, PurchaseTypeOK, Begun, Users
  <2>3. QED
    BY <2>1, <2>2
<1>4. ASSUME NEW p \in Page, JudgeMoney(p) \/ Buy(p) \/ Decline(p)
      PROVE  PurchaseTypeOK' /\ Begun'
  <2>1. PurchaseTypeOK'
    <3>1. Buy(p) => Users(p) \in Int
      BY <1>1 DEF Buy, PurchaseTypeOK, Begun, Users
    <3>2. QED
      BY <1>1, <1>4, <3>1 DEF JudgeMoney, Buy, Decline, Proceed, PurchaseTypeOK, PageSteps
  <2>2. Begun'
    BY <1>1, <1>4 DEF JudgeMoney, Buy, Decline, Proceed, PurchaseTypeOK, Begun, Users
  <2>3. QED
    BY <2>1, <2>2
<1>5. ASSUME NEW p \in Page, SetMoney(p) PROVE PurchaseTypeOK' /\ Begun'
  <2>1. want[p] \in Chapter /\ Price[want[p]] \in Nat /\ money[p] \in Int
    BY <1>1, <1>5 DEF SetMoney, PurchaseTypeOK, Begun
  <2>2. money[p] - Cost(p) \in Int
    BY <2>1 DEF Cost
  <2>3. PurchaseTypeOK'
    BY <1>1, <1>5, <2>2 DEF SetMoney, Proceed, PurchaseTypeOK, PageSteps
  <2>4. money[p] - Cost(p) # None
    BY <2>2
  <2>5. Begun'
    BY <1>1, <1>5, <2>4 DEF SetMoney, Proceed, PurchaseTypeOK, Begun, Users
  <2>6. QED
    BY <2>3, <2>5
<1>6. ASSUME NEW p \in Page, SaveUsers(p) PROVE PurchaseTypeOK' /\ Begun'
  <2>1. Users(p) \in Int
    BY <1>1, <1>6 DEF SaveUsers, PurchaseTypeOK, Begun, Users
  <2>2. PurchaseTypeOK'
    BY <1>1, <1>6, <2>1 DEF SaveUsers, Proceed, PurchaseTypeOK, PageSteps
  <2>3. Begun'
    BY <1>1, <1>6 DEF SaveUsers, Proceed, PurchaseTypeOK, Begun, Users
  <2>4. QED
    BY <2>2, <2>3
<1>7. ASSUME NEW p \in Page, SaveBuychapter(p) PROVE PurchaseTypeOK' /\ Begun'
  <2>1. want[p] \in Chapter /\ rows[want[p]] + 1 \in Nat
    BY <1>1, <1>7 DEF SaveBuychapter, PurchaseTypeOK, Begun
  <2>2. PurchaseTypeOK'
    BY <1>1, <1>7, <2>1 DEF SaveBuychapter, Proceed, PurchaseTypeOK, PageSteps
  <2>3. Begun'
    BY <1>1, <1>7 DEF SaveBuychapter, Proceed, PurchaseTypeOK, Begun, Users
  <2>4. QED
    BY <2>2, <2>3
<1>8. ASSUME NEW p \in Page, SaveFails(p) PROVE PurchaseTypeOK' /\ Begun'
  <2>1. fails + 1 \in 0..MaxFails
    BY <1>1, <1>8 DEF SaveFails, PurchaseTypeOK
  <2>2. PurchaseTypeOK'
    BY <1>1, <1>8, <2>1 DEF SaveFails, Proceed, PurchaseTypeOK, PageSteps
  <2>3. Begun'
    BY <1>1, <1>8 DEF SaveFails, Proceed, PurchaseTypeOK, Begun, Users
  <2>4. QED
    BY <2>2, <2>3
<1>9. ASSUME TopUp PROVE PurchaseTypeOK' /\ Begun'
  <2>1. topups + 1 \in 0..MaxTopUps /\ purse + 1 \in Int
    BY <1>1, <1>9 DEF TopUp, PurchaseTypeOK
  <2>2. PurchaseTypeOK'
    BY <1>1, <1>9, <2>1 DEF TopUp, PurchaseTypeOK
  <2>3. Begun'
    BY <1>1, <1>9 DEF TopUp, Begun, Users
  <2>4. QED
    BY <2>2, <2>3
<1>10. QED
  BY <1>2, <1>3, <1>4, <1>5, <1>6, <1>7, <1>8, <1>9 DEF PurchaseNext

(* The rows of bought chapters only grow. *)
LEMMA ReadingStep ==
  ASSUME PurchaseInv, PurchaseNext
  PROVE  ReadMeansBought'
<1> USE PurchaseAssumption DEF ReadMeansBought
<1>1. /\ PurchaseTypeOK /\ Begun /\ ReadMeansBought
      /\ rows \in [Chapter -> Nat] /\ pc \in [Page -> PageSteps]
      /\ want \in [Page -> Chapter \cup {None}]
  BY DEF PurchaseInv, PurchaseTypeOK
<1>2. ASSUME UNCHANGED <<rows, pc, want>> PROVE ReadMeansBought'
  BY <1>1, <1>2
<1>3. ASSUME NEW p \in Page, NEW c \in Chapter, SelectOneBuychapter(p, c)
      PROVE  ReadMeansBought'
  BY <1>1, <1>3 DEF SelectOneBuychapter, Proceed
<1>4. ASSUME NEW p \in Page, NEW next \in PageSteps \ {"reading"}, Proceed(p, next),
             UNCHANGED <<rows, want>>
      PROVE  ReadMeansBought'
  BY <1>1, <1>4 DEF Proceed
<1>5. ASSUME NEW p \in Page, SaveBuychapter(p) PROVE ReadMeansBought'
  <2>1. /\ want[p] \in Chapter /\ rows[want[p]] \in Nat /\ want' = want
        /\ rows' = [rows EXCEPT ![want[p]] = rows[want[p]] + 1]
        /\ pc' = [pc EXCEPT ![p] = "reading"]
    BY <1>1, <1>5 DEF SaveBuychapter, Proceed, Begun
  <2>2. ASSUME NEW q \in Page, pc'[q] = "reading" PROVE rows'[want'[q]] > 0
    <3>1. want[q] \in Chapter /\ rows[want[q]] \in Nat
      BY <1>1, <2>1, <2>2 DEF Begun
    <3>2. q = p \/ rows[want[q]] > 0
      BY <1>1, <2>1, <2>2
    <3>3. rows'[want[q]] = IF want[q] = want[p] THEN rows[want[q]] + 1 ELSE rows[want[q]]
      BY <1>1, <2>1, <3>1
    <3>4. QED
      BY <2>1, <3>1, <3>2, <3>3
  <2>3. QED
    BY <2>2
<1>6. QED
  <2>1. ASSUME NEW s \in Session, Login(s) PROVE ReadMeansBought'
    BY <1>2, <2>1 DEF Login
  <2>2. ASSUME TopUp PROVE ReadMeansBought'
    BY <1>2, <2>2 DEF TopUp
  <2>3. ASSUME NEW p \in Page,
               JudgeMoney(p) \/ Buy(p) \/ Decline(p) \/ SetMoney(p)
                 \/ SaveUsers(p) \/ SaveFails(p)
        PROVE  ReadMeansBought'
    <3>1. \E next \in PageSteps \ {"reading"} : Proceed(p, next)
      BY <2>3 DEF JudgeMoney, Buy, Decline, SetMoney, SaveUsers, SaveFails, PageSteps
    <3>2. UNCHANGED <<rows, want>>
      BY <2>3 DEF JudgeMoney, Buy, Decline, SetMoney, SaveUsers, SaveFails
    <3>3. QED
      BY <1>4, <3>1, <3>2
  <2>4. QED
    BY <1>3, <1>5, <2>1, <2>2, <2>3 DEF PurchaseNext

(* An action under which the least balance falls by d. *)
LEMMA LeastAfter ==
  ASSUME PurchaseInv, PurchaseNext, NEW d \in Int,
         Worth' + Pending' = (Worth + Pending) + d
  PROVE  Least \in Int /\ Least' = Least - d
BY TypeStep, LeastFalls DEF PurchaseInv

LEMMA LeastSame ==
  ASSUME PurchaseInv, PurchaseNext, Worth' = Worth, Pending' = Pending
  PROVE  Least \in Int /\ Least' = Least
<1>1. Worth \in Int /\ Pending \in Int /\ Money0 \in Int
  BY Sums, PurchaseAssumption DEF PurchaseInv
<1>2. QED
  BY <1>1 DEF Least

(* SetMoney: the handler's balance, less the price, is the session's, and   *)
(* the price is under way.                                                  *)
LEMMA SetMoneyBalances ==
  ASSUME PurchaseInv, Balanced, NEW p \in Page, SetMoney(p)
  PROVE  Balanced'
<1> USE PurchaseAssumption
<1>1. /\ PurchaseTypeOK /\ Begun /\ pc[p] = "set" /\ want[p] \in Chapter
      /\ PurchaseNext
  BY DEF PurchaseInv, SetMoney, Begun, PurchaseNext
<1>2. /\ held' = [held EXCEPT ![SessionOf[p]] = money[p] - Cost(p)]
      /\ pc' = [pc EXCEPT ![p] = "users"] /\ SessionOf[p] \in Session
      /\ UNCHANGED <<purse, rows, want, money>>
  BY DEF SetMoney, Proceed
<1>3. Cost(p) \in Nat /\ money[p] \in Int /\ purse \in Int
  BY <1>1 DEF Cost, PurchaseTypeOK
<1>4. Due \in [Page -> Int] /\ Due' \in [Page -> Int] /\ Worth \in Int /\ Pending \in Int
  BY <1>1, Sums, SumsAfter, TypeStep DEF PurchaseInv
<1>5. Due'[p] = Cost(p) /\ Due[p] = 0 /\ \A q \in Page \ {p} : Due'[q] = Due[q]
  BY <1>1, <1>2 DEF Due, Cost, PurchaseTypeOK
<1>6. Pending' = Pending + Cost(p)
  <2>1. SumFunction(Due') = SumFunction(Due) + (Due'[p] - Due[p])
    BY <1>4, <1>5, SumChange
  <2>2. QED
    BY <1>3, <1>4, <1>5, <2>1 DEF Pending
<1>7. Worth' = Worth
  BY <1>2 DEF Worth, Spent
<1>8. Worth' + Pending' = (Worth + Pending) + Cost(p)
  BY <1>3, <1>4, <1>6, <1>7
<1>9. Least \in Int /\ Least' = Least - Cost(p)
  BY <1>1, <1>3, <1>8, LeastAfter
<1>10. ASSUME NEW x \in Int, x >= Least PROVE x >= Least' /\ x - Cost(p) >= Least'
  BY <1>3, <1>9, <1>10
<1>11. purse' >= Least'
  BY <1>2, <1>3, <1>10 DEF Balanced
<1>12. ASSUME NEW s \in Session, held'[s] # None PROVE held'[s] >= Least'
  <2>1. CASE s = SessionOf[p]
    BY <1>1, <1>2, <1>3, <1>10, <2>1 DEF Balanced, PurchaseTypeOK
  <2>2. CASE s # SessionOf[p]
    BY <1>1, <1>2, <1>10, <1>12, <2>2 DEF Balanced, PurchaseTypeOK
  <2>3. QED
    BY <2>1, <2>2
<1>13. ASSUME NEW q \in Page, pc'[q] = "set" PROVE money'[q] >= Least'
  BY <1>1, <1>2, <1>10, <1>13 DEF Balanced, PurchaseTypeOK
<1>14. QED
  BY <1>11, <1>12, <1>13 DEF Balanced

(* SaveBuychapter: what was under way is bought. *)
LEMMA SaveBuychapterBalances ==
  ASSUME PurchaseInv, Balanced, NEW p \in Page, SaveBuychapter(p)
  PROVE  Balanced'
<1> USE PurchaseAssumption
<1>1. /\ PurchaseTypeOK /\ Begun /\ pc[p] = "row" /\ want[p] \in Chapter
      /\ PurchaseNext
  BY DEF PurchaseInv, SaveBuychapter, Begun, PurchaseNext
<1> DEFINE c == want[p]
<1>2. /\ rows' = [rows EXCEPT ![c] = rows[c] + 1]
      /\ pc' = [pc EXCEPT ![p] = "reading"]
      /\ UNCHANGED <<purse, held, want, money>>
  BY DEF SaveBuychapter, Proceed
<1>3. Cost(p) \in Nat /\ Price[c] = Cost(p) /\ rows[c] \in Nat
  BY <1>1 DEF Cost, PurchaseTypeOK
<1>4. /\ Due \in [Page -> Int] /\ Due' \in [Page -> Int]
      /\ Spent \in [Chapter -> Int] /\ Spent' \in [Chapter -> Int]
      /\ Worth \in Int /\ Pending \in Int
  BY <1>1, Sums, SumsAfter, TypeStep DEF PurchaseInv
<1>5. Due'[p] = 0 /\ Due[p] = Cost(p) /\ \A q \in Page \ {p} : Due'[q] = Due[q]
  BY <1>1, <1>2 DEF Due, Cost, PurchaseTypeOK
<1>6. Pending' = Pending - Cost(p)
  <2>1. SumFunction(Due') = SumFunction(Due) + (Due'[p] - Due[p])
    BY <1>4, <1>5, SumChange
  <2>2. QED
    BY <1>3, <1>4, <1>5, <2>1 DEF Pending
<1>7. /\ Spent'[c] = (rows[c] + 1) * Cost(p) /\ Spent[c] = rows[c] * Cost(p)
      /\ \A b \in Chapter \ {c} : Spent'[b] = Spent[b]
  BY <1>1, <1>2, <1>3 DEF Spent, PurchaseTypeOK
<1>8. Spent'[c] - Spent[c] = Cost(p)
  BY <1>3, <1>7
<1>9. Worth' = Worth + Cost(p)
  <2>1. SumFunction(Spent') = SumFunction(Spent) + (Spent'[c] - Spent[c])
    BY <1>1, <1>4, <1>7, SumChange
  <2>2. QED
    BY <1>8, <2>1 DEF Worth
<1>10. Worth' + Pending' = (Worth + Pending) + 0
  BY <1>3, <1>4, <1>6, <1>9
<1>11. Least \in Int /\ Least' = Least
  <2>1. Least \in Int /\ Least' = Least - 0
    BY <1>1, <1>10, LeastAfter
  <2>2. QED
    BY <2>1
<1>12. \A q \in Page : pc'[q] = "set" => pc[q] = "set"
  BY <1>1, <1>2 DEF PurchaseTypeOK
<1>13. QED
  BY <1>2, <1>11, <1>12 DEF Balanced

LEMMA BalanceStep ==
  ASSUME PurchaseInv, PurchaseNext, fails' = 0
  PROVE  Balanced'
<1> USE PurchaseAssumption
<1>1. /\ PurchaseTypeOK /\ Begun /\ Balanced
      /\ purse \in Int /\ held \in [Session -> Int \cup {None}]
      /\ pc \in [Page -> PageSteps] /\ money \in [Page -> Int]
  <2>1. fails \in Nat /\ (fails' = fails \/ fails' = fails + 1)
    BY DEF PurchaseInv, PurchaseTypeOK, PurchaseNext, Login, SelectOneBuychapter,
           JudgeMoney, Buy, Decline, SetMoney, SaveUsers, SaveBuychapter, SaveFails, TopUp
  <2>2. fails = 0
    BY <2>1
  <2>3. QED
    BY <2>2 DEF PurchaseInv, PurchaseTypeOK
<1>2. ASSUME UNCHANGED <<pc, want, rows>> PROVE Least \in Int /\ Least' = Least
  <2>1. Worth' = Worth /\ Pending' = Pending
    BY <1>2 DEF Worth, Pending, Spent, Due, Cost
  <2>2. QED
    BY <2>1, LeastSame
<1>3. ASSUME NEW s \in Session, Login(s) PROVE Balanced'
  <2>1. Least \in Int /\ Least' = Least
    BY <1>2, <1>3 DEF Login
  <2>2. /\ held' = [held EXCEPT ![s] = purse]
        /\ UNCHANGED <<purse, pc, money>>
    BY <1>3 DEF Login
  <2>3. QED
    BY <1>1, <2>1, <2>2 DEF Balanced
<1>4. ASSUME TopUp PROVE Balanced'
  <2>1. Least \in Int /\ Least' = Least
    BY <1>2, <1>4 DEF TopUp
  <2>2. purse' = purse + 1 /\ UNCHANGED <<held, pc, money>>
    BY <1>4 DEF TopUp
  <2>3. purse' >= Least
    BY <1>1, <2>1, <2>2 DEF Balanced
  <2>4. QED
    BY <1>1, <2>1, <2>2, <2>3 DEF Balanced
<1>5. ASSUME NEW p \in Page, NEW next \in PageSteps, Proceed(p, next), next # "set",
             pc[p] \notin {"users", "row"}, next \notin {"users", "row"},
             \A q \in Page : pc[q] \in {"users", "row"} => want'[q] = want[q],
             UNCHANGED <<rows, purse, held, money>>
      PROVE  Balanced'
  <2>1. Least \in Int /\ Least' = Least
    BY <1>5, QuietStep, LeastSame
  <2>2. \A q \in Page : pc'[q] = "set" => pc[q] = "set"
    BY <1>1, <1>5 DEF Proceed
  <2>3. QED
    BY <1>1, <1>5, <2>1, <2>2 DEF Balanced
<1>6. ASSUME NEW p \in Page, NEW c \in Chapter, SelectOneBuychapter(p, c)
      PROVE  Balanced'
  <2>1. PICK next \in {"reading", "judge"} : Proceed(p, next)
    BY <1>6 DEF SelectOneBuychapter
  <2>2. /\ pc[p] \in {"shop", "reading"} /\ want' = [want EXCEPT ![p] = c]
        /\ UNCHANGED <<rows, purse, held, money>>
    BY <1>6 DEF SelectOneBuychapter
  <2>3. \A q \in Page : pc[q] \in {"users", "row"} => want'[q] = want[q]
    BY <1>1, <2>2 DEF PurchaseTypeOK
  <2>4. next \in PageSteps
    BY DEF PageSteps
  <2>5. QED
    BY <1>5, <2>1, <2>2, <2>3, <2>4
<1>7. ASSUME NEW p \in Page, JudgeMoney(p) \/ Decline(p) PROVE Balanced'
  <2>1. PICK next \in {"confirm", "shop"} : Proceed(p, next)
    BY <1>7 DEF JudgeMoney, Decline
  <2>2. pc[p] \in {"judge", "confirm"} /\ UNCHANGED <<want, rows, purse, held, money>>
    BY <1>7 DEF JudgeMoney, Decline
  <2>3. next \in PageSteps
    BY DEF PageSteps
  <2>4. QED
    BY <1>5, <2>1, <2>2, <2>3
<1>8. ASSUME NEW p \in Page, Buy(p) PROVE Balanced'
  <2>1. /\ Proceed(p, "set") /\ pc[p] = "confirm"
        /\ money' = [money EXCEPT ![p] = Users(p)]
        /\ UNCHANGED <<want, rows, purse, held>>
    BY <1>8 DEF Buy
  <2>2. Least \in Int /\ Least' = Least
    <3>1. "set" \in PageSteps
      BY DEF PageSteps
    <3>2. Worth' = Worth /\ Pending' = Pending
      BY <2>1, <3>1, QuietStep
    <3>3. QED
      BY <3>2, LeastSame
  <2>3. Users(p) # None /\ Users(p) = held[SessionOf[p]] /\ SessionOf[p] \in Session
    BY <1>1, <2>1 DEF Begun, Users
  <2>4. Users(p) >= Least
    BY <1>1, <2>3 DEF Balanced
  <2>5. QED
    BY <1>1, <2>1, <2>2, <2>4 DEF Balanced, Proceed
<1>9. ASSUME NEW p \in Page, SaveUsers(p) PROVE Balanced'
  <2>1. /\ Proceed(p, "row") /\ pc[p] = "users" /\ purse' = Users(p)
        /\ UNCHANGED <<want, rows, held, money>>
    BY <1>9 DEF SaveUsers
  <2>2. Least \in Int /\ Least' = Least
    <3>1. "row" \in PageSteps
      BY DEF PageSteps
    <3>2. Worth' = Worth /\ Pending' = Pending
      BY <2>1, <3>1, QuietStep
    <3>3. QED
      BY <3>2, LeastSame
  <2>3. Users(p) # None /\ Users(p) = held[SessionOf[p]] /\ SessionOf[p] \in Session
    BY <1>1, <2>1 DEF Begun, Users
  <2>4. Users(p) >= Least
    BY <1>1, <2>3 DEF Balanced
  <2>5. \A q \in Page : pc'[q] = "set" => pc[q] = "set"
    BY <1>1, <2>1 DEF Proceed
  <2>6. QED
    BY <1>1, <2>1, <2>2, <2>4, <2>5 DEF Balanced
<1>10. ASSUME NEW p \in Page, SaveFails(p) PROVE FALSE
  <2>1. fails \in Nat /\ fails' = fails + 1
    BY <1>1, <1>10 DEF SaveFails, PurchaseTypeOK
  <2>2. QED
    BY <2>1
<1>11. QED
  BY <1>1, <1>3, <1>4, <1>6, <1>7, <1>8, <1>9, <1>10, SetMoneyBalances,
     SaveBuychapterBalances DEF PurchaseNext

LEMMA PurchaseInitGives == PurchaseInit => PurchaseInv
<1> SUFFICES ASSUME PurchaseInit PROVE PurchaseInv
  OBVIOUS
<1> USE PurchaseAssumption
<1>1. PurchaseTypeOK
  BY DEF PurchaseInit, PurchaseTypeOK, PageSteps
<1>2. Begun /\ ReadMeansBought
  BY DEF PurchaseInit, Begun, ReadMeansBought
<1>3. Worth = 0 /\ Pending = 0
  <2>1. DOMAIN Spent = Chapter /\ DOMAIN Due = Page
    BY DEF Spent, Due
  <2>2. \A c \in Chapter : Spent[c] = 0
    BY DEF PurchaseInit, Spent
  <2>3. \A p \in Page : Due[p] = 0
    BY DEF PurchaseInit, Due
  <2>4. QED
    BY <2>1, <2>2, <2>3, SumOfNone DEF Worth, Pending
<1>4. Least = Money0
  BY <1>3 DEF Least
<1>5. Balanced
  BY <1>4 DEF Balanced, PurchaseInit
<1>6. QED
  BY <1>1, <1>2, <1>5 DEF PurchaseInv

(* The invariant of the purchases holds in every behaviour. *)
THEOREM PurchaseInductive == PurchaseSpec => []PurchaseInv
<1>1. PurchaseInit => PurchaseInv
  BY PurchaseInitGives
<1>2. PurchaseInv /\ [PurchaseNext]_purchaseVars => PurchaseInv'
  <2>1. ASSUME PurchaseInv, PurchaseNext PROVE PurchaseInv'
    BY <2>1, TypeStep, ReadingStep, BalanceStep DEF PurchaseInv
  <2>2. ASSUME PurchaseInv, UNCHANGED purchaseVars PROVE PurchaseInv'
    BY <2>2 DEF PurchaseInv, purchaseVars, PurchaseTypeOK, Begun, ReadMeansBought,
                Balanced, Least, Worth, Pending, Spent, Due, Cost, Users
  <2>3. QED
    BY <2>1, <2>2
<1>3. QED
  BY <1>1, <1>2, PTL DEF PurchaseSpec

(* The state of a purchase is well typed. *)
THEOREM PurchaseTypeCorrect == PurchaseSpec => []PurchaseTypeOK
<1>1. PurchaseInv => PurchaseTypeOK
  BY DEF PurchaseInv
<1>2. QED
  BY <1>1, PurchaseInductive, PTL

(* Whatever pages and sessions cross, coins that are gone are bought        *)
(* chapters or purchases under way, as long as no save has failed.          *)
THEOREM CoinsAreAccounted == PurchaseSpec => []NothingPaidForNothing
<1>1. PurchaseInv => NothingPaidForNothing
  <2>1. SUFFICES ASSUME PurchaseInv, fails = 0 PROVE purse + Worth + Pending >= Money0
    BY DEF NothingPaidForNothing
  <2>2. /\ Worth \in Int /\ Pending \in Int /\ Money0 \in Int /\ purse \in Int
        /\ purse >= Money0 - (Worth + Pending)
    BY <2>1, Sums, PurchaseAssumption DEF PurchaseInv, PurchaseTypeOK, Balanced, Least
  <2>3. QED
    BY <2>2
<1>2. QED
  BY <1>1, PurchaseInductive, PTL

(* A page never shows a chapter that has no row, failed saves or not. *)
THEOREM ReadIsBought == PurchaseSpec => []ReadMeansBought
<1>1. PurchaseInv => ReadMeansBought
  BY DEF PurchaseInv
<1>2. QED
  BY <1>1, PurchaseInductive, PTL

--------------------------------------------------------------------------------
(* The chat.                                                                *)

(* A thread that sends has a message of its own client, at one of its       *)
(* receivers; what it is about to save as read was sent, except to itself.  *)
Sending ==
  \A c \in Conn : step[c] \in {"send", "save"} =>
    /\ cur[c] \in Msg /\ Sender[cur[c]] = Who[c]
    /\ pos[c] \in 1..Len(To[cur[c]])
Marking == \A c \in Conn : step[c] = "mark" => cur[c] \in Msg
Reported ==
  \A c \in Conn : step[c] = "save" /\ result[c] =>
    <<cur[c], Receiver(c)>> \in seen \/ Receiver(c) = Who[c]

ChatInv == ChatTypeOK /\ Sending /\ Marking /\ Reported /\ SavedReadWasSent

LEMMA ChatInitGives == ChatInit => ChatInv
<1> SUFFICES ASSUME ChatInit PROVE ChatInv
  OBVIOUS
<1>1. ChatTypeOK
  BY DEF ChatInit, ChatTypeOK, Steps
<1>2. Sending /\ Marking /\ Reported /\ SavedReadWasSent
  BY DEF ChatInit, Sending, Marking, Reported, SavedReadWasSent
<1>3. QED
  BY <1>1, <1>2 DEF ChatInv

(* What has been written to a socket stays written. *)
LEMMA Delivered ==
  ASSUME ChatTypeOK, NEW m \in Msg, NEW u \in User, Deliver(m, u) \/ UNCHANGED seen
  PROVE  seen \subseteq seen' /\ seen' \subseteq Msg \X User
BY DEF Deliver, ChatTypeOK

(* The connections other than one keep their message, receiver and result. *)
Others(c) ==
  \A d \in Conn \ {c} : /\ step'[d] = step[d] /\ cur'[d] = cur[d]
                        /\ pos'[d] = pos[d] /\ result'[d] = result[d]

(* A step of a thread that ends neither in send nor in save, and stores no  *)
(* message.                                                                 *)
LEMMA AwayStep ==
  ASSUME ChatInv, NEW c \in Conn, Others(c), step'[c] \notin {"send", "save", "mark"},
         seen \subseteq seen', UNCHANGED <<status, replayed>>
  PROVE  Sending' /\ Marking' /\ Reported' /\ SavedReadWasSent'
<1>1. Sending' /\ Marking'
  BY DEF ChatInv, Others, Sending, Marking
<1>2. Reported'
  <2>1. ASSUME NEW d \in Conn, step'[d] = "save", result'[d]
        PROVE  <<cur'[d], Receiver(d)'>> \in seen' \/ Receiver(d)' = Who[d]
    <3>1. d # c /\ step[d] = "save" /\ result[d] /\ cur'[d] = cur[d] /\ pos'[d] = pos[d]
      BY <2>1 DEF Others
    <3>2. Receiver(d)' = Receiver(d)
      BY <3>1 DEF Receiver
    <3>3. QED
      BY <3>1, <3>2 DEF ChatInv, Reported
  <2>2. QED
    BY <2>1 DEF Reported
<1>3. SavedReadWasSent'
  BY DEF ChatInv, SavedReadWasSent
<1>4. QED
  BY <1>1, <1>2, <1>3

LEMMA ReceiverIs ==
  ASSUME ChatInv, NEW c \in Conn, step[c] \in {"send", "save"}
  PROVE  /\ cur[c] \in Msg /\ Sender[cur[c]] = Who[c] /\ Receiver(c) \in User
         /\ pos[c] \in 1..Len(To[cur[c]]) /\ Len(To[cur[c]]) \in Nat
<1>1. cur[c] \in Msg /\ Sender[cur[c]] = Who[c] /\ pos[c] \in 1..Len(To[cur[c]])
  BY DEF ChatInv, Sending
<1>2. To[cur[c]] \in Seq(User)
  BY <1>1, ChatAssumption
<1>3. QED
  BY <1>1, <1>2 DEF Receiver

LEMMA ChatTypeStep ==
  ASSUME ChatInv, ChatNext
  PROVE  ChatTypeOK'
<1> USE ChatAssumption
<1>1. ChatTypeOK
  BY DEF ChatInv
<1>2. ASSUME NEW c \in Conn, Connect(c) \/ Ready(c) \/ Closed(c) PROVE ChatTypeOK'
  BY <1>1, <1>2 DEF Connect, Ready, Closed, Goto, ChatTypeOK, Steps
<1>3. ASSUME NEW c \in Conn, Add(c) PROVE ChatTypeOK'
  BY <1>1, <1>3 DEF Add, Goto, ChatTypeOK, Steps
<1>4. ASSUME NEW c \in Conn, Remove(c) PROVE ChatTypeOK'
  BY <1>1, <1>4 DEF Remove, Goto, ChatTypeOK, Steps
<1>5. ASSUME NEW c \in Conn, List(c) PROVE ChatTypeOK'
  BY <1>1, <1>5 DEF List, Goto, Unread, ChatTypeOK, Steps
<1>6. ASSUME NEW c \in Conn, NEW m \in Msg, Replay(c, m) PROVE ChatTypeOK'
  <2>1. Who[c] \in User
    OBVIOUS
  <2>2. seen' \subseteq Msg \X User
    BY <1>1, <1>6, <2>1, Delivered DEF Replay
  <2>3. QED
    BY <1>1, <1>6, <2>2 DEF Replay, Goto, ChatTypeOK, Steps
<1>7. ASSUME NEW c \in Conn, Mark(c) PROVE ChatTypeOK'
  <2>1. cur[c] \in Msg /\ Who[c] \in User
    BY <1>7 DEF ChatInv, Marking, Mark
  <2>2. status' \in [Msg -> [User -> {"none", "0", "1"}]]
    BY <1>1, <1>7, <2>1 DEF Mark, ChatTypeOK
  <2>3. QED
    BY <1>1, <1>7, <2>1, <2>2 DEF Mark, Goto, ChatTypeOK, Steps
<1>8. ASSUME NEW c \in Conn, NEW m \in Msg, Handle(c, m) PROVE ChatTypeOK'
  BY <1>1, <1>8 DEF Handle, Goto, ChatTypeOK, Steps
<1>9. ASSUME NEW c \in Conn, Send(c) PROVE ChatTypeOK'
  <2>1. cur[c] \in Msg /\ Receiver(c) \in User
    BY <1>9, ReceiverIs DEF Send
  <2>2. seen' \subseteq Msg \X User
    BY <1>1, <1>9, <2>1, Delivered DEF Send
  <2>3. result' \in [Conn -> BOOLEAN]
    <3>1. Sent(Receiver(c)) \in BOOLEAN
      BY DEF Sent
    <3>2. \E r \in BOOLEAN : result' = [result EXCEPT ![c] = r]
      BY <1>9, <3>1, Zenon DEF Send
    <3>3. QED
      BY <1>1, <3>2 DEF ChatTypeOK
  <2>4. QED
    BY <1>1, <1>9, <2>2, <2>3 DEF Send, Goto, ChatTypeOK, Steps
<1>10. ASSUME NEW c \in Conn, Save(c) PROVE ChatTypeOK'
  <2>1. cur[c] \in Msg /\ Receiver(c) \in User
    BY <1>10, ReceiverIs DEF Save
  <2>2. status' \in [Msg -> [User -> {"none", "0", "1"}]]
    BY <1>1, <1>10, <2>1 DEF Save, ChatTypeOK
  <2>3. pos' \in [Conn -> Nat \ {0}]
    BY <1>1, <1>10 DEF Save, ChatTypeOK
  <2>4. step' \in [Conn -> Steps]
    BY <1>1, <1>10 DEF Save, Goto, ChatTypeOK, Steps
  <2>5. QED
    BY <1>1, <1>10, <2>2, <2>3, <2>4 DEF Save, ChatTypeOK
<1>11. ASSUME NEW c \in Conn, Throw(c) PROVE ChatTypeOK'
  <2>1. seen' \subseteq Msg \X User
    <3>1. CASE UNCHANGED seen
      BY <1>1, <3>1 DEF ChatTypeOK
    <3>2. ASSUME step[c] = "replay", NEW m \in inbox[c], Deliver(m, Who[c])
          PROVE  seen' \subseteq Msg \X User
      <4>1. m \in Msg /\ Who[c] \in User
        BY <1>1, <3>2 DEF ChatTypeOK
      <4>2. QED
        BY <1>1, <3>2, <4>1, Delivered
    <3>3. ASSUME step[c] = "send", Deliver(cur[c], Receiver(c))
          PROVE  seen' \subseteq Msg \X User
      BY <1>1, <3>3, ReceiverIs, Delivered
    <3>4. QED
      BY <1>11, <3>1, <3>2, <3>3 DEF Throw
  <2>2. QED
    BY <1>1, <1>11, <2>1 DEF Throw, Goto, ChatTypeOK, Steps
<1>12. ASSUME NEW c \in Conn, Leave(c) PROVE ChatTypeOK'
  BY <1>1, <1>12 DEF Leave, ChatTypeOK
<1>13. ASSUME NEW u \in User, DeleteUser(u) PROVE ChatTypeOK'
  BY <1>1, <1>13 DEF DeleteUser, ChatTypeOK
<1>14. QED
  BY <1>2, <1>3, <1>4, <1>5, <1>6, <1>7, <1>8, <1>9, <1>10, <1>11, <1>12, <1>13
     DEF ChatNext, Callback

(* Send reports success only of what it has written, or of its own client. *)
LEMMA SendStep ==
  ASSUME ChatInv, NEW c \in Conn, Send(c)
  PROVE  Sending' /\ Marking' /\ Reported' /\ SavedReadWasSent'
<1> DEFINE m == cur[c]
           u == Receiver(c)
<1>1. /\ ChatTypeOK /\ step[c] = "send" /\ step' = [step EXCEPT ![c] = "save"]
      /\ UNCHANGED <<cur, pos, status, replayed>>
      /\ step \in [Conn -> Steps] /\ result \in [Conn -> BOOLEAN]
  BY DEF Send, Goto, ChatInv, ChatTypeOK
<1>2. m \in Msg /\ Sender[m] = Who[c] /\ u \in User
  BY <1>1, ReceiverIs
<1>3. seen \subseteq seen'
  BY <1>1, <1>2, Delivered DEF Send
<1>4. Sending' /\ Marking'
  BY <1>1 DEF ChatInv, Sending, Marking
<1>5. \A d \in Conn : Receiver(d)' = Receiver(d)
  BY <1>1 DEF Receiver
<1>6. result'[c] => <<m, u>> \in seen' \/ u = Who[c]
  <2>1. CASE Len(To[m]) > 1 /\ u = Who[c]
    BY <2>1
  <2>2. CASE ~(Len(To[m]) > 1 /\ u = Who[c])
    <3>1. result' = [result EXCEPT ![c] = Sent(u)] /\ Deliver(m, u)
      BY <2>2 DEF Send
    <3>2. result'[c] = Sent(u)
      BY <1>1, <3>1
    <3>3. QED
      BY <3>1, <3>2 DEF Deliver
  <2>3. QED
    BY <2>1, <2>2
<1>7. \A d \in Conn \ {c} : step'[d] = step[d] /\ (result'[d] => result[d])
  BY <1>1 DEF Send
<1>8. Reported'
  <2>1. ASSUME NEW d \in Conn, step'[d] = "save", result'[d]
        PROVE  <<cur'[d], Receiver(d)'>> \in seen' \/ Receiver(d)' = Who[d]
    <3>1. CASE d = c
      BY <1>1, <1>5, <1>6, <2>1, <3>1
    <3>2. CASE d # c
      <4>1. <<cur[d], Receiver(d)>> \in seen \/ Receiver(d) = Who[d]
        BY <1>7, <2>1, <3>2 DEF ChatInv, Reported
      <4>2. QED
        BY <1>1, <1>3, <1>5, <4>1
    <3>3. QED
      BY <3>1, <3>2
  <2>2. QED
    BY <2>1 DEF Reported
<1>9. SavedReadWasSent'
  BY <1>1, <1>3 DEF ChatInv, SavedReadWasSent
<1>10. QED
  BY <1>4, <1>8, <1>9

(* Save stores "read" only where success was reported. *)
LEMMA SaveStep ==
  ASSUME ChatInv, NEW c \in Conn, Save(c)
  PROVE  Sending' /\ Marking' /\ Reported' /\ SavedReadWasSent'
<1> DEFINE m == cur[c]
           u == Receiver(c)
<1>1. /\ ChatTypeOK /\ step[c] = "save" /\ UNCHANGED <<cur, result, seen, replayed>>
      /\ status' = [status EXCEPT ![m][u] = IF result[c] THEN "1" ELSE "0"]
      /\ step \in [Conn -> Steps] /\ pos \in [Conn -> Nat \ {0}]
      /\ status \in [Msg -> [User -> {"none", "0", "1"}]]
  BY DEF Save, ChatInv, ChatTypeOK
<1>2. /\ m \in Msg /\ Sender[m] = Who[c] /\ u \in User
      /\ pos[c] \in 1..Len(To[m]) /\ Len(To[m]) \in Nat
  BY <1>1, ReceiverIs
<1>3. /\ \A d \in Conn \ {c} : step'[d] = step[d] /\ pos'[d] = pos[d]
      /\ step'[c] = "send" \/ step'[c] = "ready"
      /\ step'[c] = "send" => pos'[c] \in 1..Len(To[m])
  BY <1>1, <1>2 DEF Save, Goto
<1>4. Sending' /\ Marking'
  BY <1>1, <1>2, <1>3 DEF ChatInv, Sending, Marking
<1>5. Reported'
  <2>1. ASSUME NEW d \in Conn, step'[d] = "save", result'[d]
        PROVE  <<cur'[d], Receiver(d)'>> \in seen' \/ Receiver(d)' = Who[d]
    <3>1. d # c /\ step[d] = "save" /\ result[d] /\ Receiver(d)' = Receiver(d)
      BY <1>1, <1>3, <2>1 DEF Receiver
    <3>2. QED
      BY <1>1, <3>1 DEF ChatInv, Reported
  <2>2. QED
    BY <2>1 DEF Reported
<1>6. ASSUME NEW n \in Msg, NEW v \in User \ {Sender[n]}, status'[n][v] = "1",
             <<n, v>> \notin replayed'
      PROVE  <<n, v>> \in seen'
  <2>1. CASE n = m /\ v = u
    <3>1. status'[m][u] = IF result[c] THEN "1" ELSE "0"
      BY <1>1, <1>2
    <3>2. result[c] /\ u # Who[c]
      BY <1>2, <1>6, <2>1, <3>1
    <3>3. QED
      BY <1>1, <2>1, <3>2 DEF ChatInv, Reported
  <2>2. CASE ~(n = m /\ v = u)
    <3>1. status'[n][v] = status[n][v]
      BY <1>1, <1>2, <2>2
    <3>2. QED
      BY <1>1, <1>6, <3>1 DEF ChatInv, SavedReadWasSent
  <2>3. QED
    BY <2>1, <2>2
<1>7. QED
  BY <1>4, <1>5, <1>6 DEF SavedReadWasSent

LEMMA MarkStep ==
  ASSUME ChatInv, NEW c \in Conn, Mark(c)
  PROVE  Sending' /\ Marking' /\ Reported' /\ SavedReadWasSent'
<1> DEFINE m == cur[c]
           u == Who[c]
<1>1. /\ ChatTypeOK /\ step[c] = "mark" /\ step' = [step EXCEPT ![c] = "replay"]
      /\ UNCHANGED <<cur, pos, result, seen>> /\ replayed' = replayed \cup {<<m, u>>}
      /\ status' = [status EXCEPT ![m][u] = "1"]
      /\ step \in [Conn -> Steps]
      /\ status \in [Msg -> [User -> {"none", "0", "1"}]]
  BY DEF Mark, Goto, ChatInv, ChatTypeOK
<1>2. m \in Msg /\ u \in User
  BY <1>1, ChatAssumption DEF ChatInv, Marking
<1>3. Sending' /\ Marking'
  BY <1>1 DEF ChatInv, Sending, Marking
<1>4. Reported'
  BY <1>1 DEF ChatInv, Reported, Receiver
<1>5. ASSUME NEW n \in Msg, NEW v \in User \ {Sender[n]}, status'[n][v] = "1",
             <<n, v>> \notin replayed'
      PROVE  <<n, v>> \in seen'
  <2>1. ~(n = m /\ v = u) /\ <<n, v>> \notin replayed
    BY <1>1, <1>5
  <2>2. status'[n][v] = status[n][v]
    BY <1>1, <1>2, <2>1
  <2>3. QED
    BY <1>1, <1>5, <2>1, <2>2 DEF ChatInv, SavedReadWasSent
<1>6. QED
  BY <1>3, <1>4, <1>5 DEF SavedReadWasSent

LEMMA ReplayStep ==
  ASSUME ChatInv, NEW c \in Conn, NEW m \in Msg, Replay(c, m)
  PROVE  Sending' /\ Marking' /\ Reported' /\ SavedReadWasSent'
<1>1. /\ ChatTypeOK /\ step' = [step EXCEPT ![c] = "mark"]
      /\ cur' = [cur EXCEPT ![c] = m]
      /\ UNCHANGED <<pos, result, status, replayed>> /\ Deliver(m, Who[c])
      /\ step \in [Conn -> Steps] /\ cur \in [Conn -> Msg \cup {NoMsg}]
  BY DEF Replay, Goto, ChatInv, ChatTypeOK
<1>2. seen \subseteq seen'
  BY <1>1, Delivered, ChatAssumption
<1>3. Sending' /\ Marking'
  BY <1>1 DEF ChatInv, Sending, Marking
<1>4. Reported'
  BY <1>1, <1>2 DEF ChatInv, Reported, Receiver
<1>5. SavedReadWasSent'
  BY <1>1, <1>2 DEF ChatInv, SavedReadWasSent
<1>6. QED
  BY <1>3, <1>4, <1>5

LEMMA HandleStep ==
  ASSUME ChatInv, NEW c \in Conn, NEW m \in Msg, Handle(c, m)
  PROVE  Sending' /\ Marking' /\ Reported' /\ SavedReadWasSent'
<1> USE ChatAssumption
<1>1. /\ ChatTypeOK /\ Sender[m] = Who[c]
      /\ step' = [step EXCEPT ![c] = IF To[m] = <<>> THEN "ready" ELSE "send"]
      /\ cur' = [cur EXCEPT ![c] = m] /\ pos' = [pos EXCEPT ![c] = 1]
      /\ UNCHANGED <<result, status, seen, replayed>>
      /\ step \in [Conn -> Steps] /\ cur \in [Conn -> Msg \cup {NoMsg}]
      /\ pos \in [Conn -> Nat \ {0}]
  BY DEF Handle, Goto, ChatInv, ChatTypeOK
<1>2. To[m] \in Seq(User) /\ (To[m] # <<>> => 1 \in 1..Len(To[m]))
  OBVIOUS
<1>3. Sending' /\ Marking'
  BY <1>1, <1>2 DEF ChatInv, Sending, Marking
<1>4. Reported'
  BY <1>1 DEF ChatInv, Reported, Receiver
<1>5. SavedReadWasSent'
  BY <1>1 DEF ChatInv, SavedReadWasSent
<1>6. QED
  BY <1>3, <1>4, <1>5

LEMMA ChatStep ==
  ASSUME ChatInv, ChatNext
  PROVE  Sending' /\ Marking' /\ Reported' /\ SavedReadWasSent'
<1>1. ChatTypeOK
  BY DEF ChatInv
<1>2. ASSUME UNCHANGED <<step, cur, pos, result, status, seen, replayed>>
      PROVE  Sending' /\ Marking' /\ Reported' /\ SavedReadWasSent'
  BY <1>2 DEF ChatInv, Sending, Marking, Reported, SavedReadWasSent, Receiver
<1>3. ASSUME NEW c \in Conn,
             Connect(c) \/ Add(c) \/ List(c) \/ Ready(c) \/ Closed(c) \/ Remove(c)
      PROVE  Sending' /\ Marking' /\ Reported' /\ SavedReadWasSent'
  <2>1. Others(c) /\ step'[c] \notin {"send", "save", "mark"}
    BY <1>1, <1>3 DEF Connect, Add, List, Ready, Closed, Remove, Goto, Others, ChatTypeOK
  <2>2. UNCHANGED <<seen, status, replayed>>
    BY <1>3 DEF Connect, Add, List, Ready, Closed, Remove
  <2>3. QED
    BY <2>1, <2>2, AwayStep
<1>4. ASSUME NEW c \in Conn, Throw(c)
      PROVE  Sending' /\ Marking' /\ Reported' /\ SavedReadWasSent'
  <2>1. Others(c) /\ step'[c] = "remove" /\ UNCHANGED <<status, replayed>>
    BY <1>1, <1>4 DEF Throw, Goto, Others, ChatTypeOK
  <2>2. seen \subseteq seen'
    BY <1>4 DEF Throw, Deliver
  <2>3. QED
    BY <2>1, <2>2, AwayStep
<1>5. ASSUME NEW c \in Conn, Leave(c)
      PROVE  Sending' /\ Marking' /\ Reported' /\ SavedReadWasSent'
  BY <1>2, <1>5 DEF Leave
<1>6. ASSUME NEW u \in User, DeleteUser(u)
      PROVE  Sending' /\ Marking' /\ Reported' /\ SavedReadWasSent'
  BY <1>2, <1>6 DEF DeleteUser
<1>7. QED
  BY <1>3, <1>4, <1>5, <1>6, SendStep, SaveStep, MarkStep, ReplayStep, HandleStep
     DEF ChatNext, Callback

(* The invariant of the chat holds in every behaviour. *)
THEOREM ChatInductive == ChatSpec => []ChatInv
<1>1. ChatInit => ChatInv
  BY ChatInitGives
<1>2. ChatInv /\ [ChatNext]_chatVars => ChatInv'
  <2>1. ASSUME ChatInv, ChatNext PROVE ChatInv'
    BY <2>1, ChatTypeStep, ChatStep DEF ChatInv
  <2>2. ASSUME ChatInv, UNCHANGED chatVars PROVE ChatInv'
    BY <2>2 DEF ChatInv, chatVars, ChatTypeOK, Sending, Marking, Reported,
                SavedReadWasSent, Receiver
  <2>3. QED
    BY <2>1, <2>2
<1>3. QED
  BY <1>1, <1>2, PTL DEF ChatSpec

(* The state of the chat is well typed. *)
THEOREM ChatTypeCorrect == ChatSpec => []ChatTypeOK
<1>1. ChatInv => ChatTypeOK
  BY DEF ChatInv
<1>2. QED
  BY <1>1, ChatInductive, PTL

(* For any users, connections and groups, a message that its sender's       *)
(* thread has saved as read was written to an open socket of its receiver.  *)
THEOREM ReadMarksAreTrue == ChatSpec => []SavedReadWasSent
<1>1. ChatInv => SavedReadWasSent
  BY DEF ChatInv
<1>2. QED
  BY <1>1, ChatInductive, PTL

--------------------------------------------------------------------------------
(* The three parts, as the run takes them: one of them, the others at rest.  *)

(* Whichever part of the server runs, its variables keep their types.        *)
THEOREM RequestsTyped == MCSpec => []RequestsTypeOK
<1>1. MCInit => Init /\ PurchaseInit /\ ChatInit
  BY DEF MCInit
<1>2. ASSUME [MCNext]_<<part, vars, purchaseVars, chatVars>>
      PROVE  [Next]_vars /\ [PurchaseNext]_purchaseVars /\ [ChatNext]_chatVars
  BY <1>2 DEF MCNext, vars, purchaseVars, chatVars
<1>3. TypeOK /\ PurchaseTypeOK /\ ChatTypeOK => RequestsTypeOK
  BY DEF RequestsTypeOK
<1>4. MCSpec => Spec /\ PurchaseSpec /\ ChatSpec
  BY <1>1, <1>2, PTL DEF MCSpec, Spec, PurchaseSpec, ChatSpec
<1>5. QED
  BY <1>3, <1>4, TypeCorrect, PurchaseTypeCorrect, ChatTypeCorrect, PTL
================================================================================
