-------------------------- MODULE FileUploadPageProofs --------------------------
(***************************************************************************)
(* Proofs about the upload engine (WebUploader) and the attachment dialog  *)
(* on top of it (FileUploadPage).  One inductive invariant, UploadInv, is  *)
(* kept by every action of the engine, whichever of the two drives it; the *)
(* dialog's count needs a second one, CountInv, and what becomes of slots  *)
(* after a handler has thrown a third, SlotInv.                            *)
(***************************************************************************)
EXTENDS FileUploadPage, FiniteSetTheorems, WellFoundedInduction, TLAPS

--------------------------------------------------------------------------------
(* Induction, in a form that needs no operator parameter, and what is left  *)
(* of a list after a walk that splices entries out.                         *)

Elements(s) == {s[i] : i \in 1..Len(s)}
Below == {ss \in Nat \X Nat : ss[1] < ss[2]}

LEMMA BelowWF == IsWellFoundedOn(Below, Nat)
BY NatLessThanWellFounded DEF OpToRel, Below

LEMMA Induction ==
  ASSUME NEW S, 0 \in S, \A n \in Nat : n \in S => n + 1 \in S
  PROVE  Nat \subseteq S
<1> DEFINE T == Nat \ S
<1>1. SUFFICES ASSUME T # {} PROVE FALSE
  OBVIOUS
<1>2. PICK x \in T : \A y \in T : <<y, x>> \notin Below
  <2>1. T \subseteq Nat
    OBVIOUS
  <2> HIDE DEF T
  <2>2. QED
    BY <1>1, <2>1, BelowWF, WFMin
<1>3. x # 0 /\ x \in Nat
  OBVIOUS
<1>4. x - 1 \in Nat /\ (x - 1) + 1 = x
  BY <1>3
<1>5. x - 1 \in T
  BY <1>4
<1>6. <<x - 1, x>> \in Below
  BY <1>3, <1>4 DEF Below
<1>7. QED
  BY <1>2, <1>5, <1>6

UpTo(s, keep, n, f) ==
  f = [i \in 0..n |-> IF i = 0 THEN <<>>
                      ELSE IF s[i] \in keep THEN Append(f[i - 1], s[i]) ELSE f[i - 1]]

LEMMA UpToExists ==
  ASSUME NEW s, NEW keep
  PROVE  \A n \in Nat : \E f : UpTo(s, keep, n, f)
<1> DEFINE S == {n \in Nat : \E f : UpTo(s, keep, n, f)}
<1>1. 0 \in S
  <2>1. UpTo(s, keep, 0, [i \in 0..0 |-> <<>>])
    BY DEF UpTo
  <2>2. QED
    BY <2>1
<1>2. ASSUME NEW n \in Nat, n \in S PROVE n + 1 \in S
  <2>1. PICK f : UpTo(s, keep, n, f)
    BY <1>2
  <2> DEFINE last == IF s[n + 1] \in keep THEN Append(f[n], s[n + 1]) ELSE f[n]
             g == [i \in 0..n + 1 |-> IF i = n + 1 THEN last ELSE f[i]]
  <2>2. ASSUME NEW i \in 0..n + 1
        PROVE  g[i] = IF i = 0 THEN <<>>
                      ELSE IF s[i] \in keep THEN Append(g[i - 1], s[i]) ELSE g[i - 1]
    <3>1. CASE i = n + 1
      <4>1. g[i] = last /\ g[i - 1] = f[n] /\ i # 0
        BY <3>1
      <4> QED
        BY <3>1, <4>1
    <3>2. CASE i # n + 1 /\ i # 0
      <4>1. g[i] = f[i] /\ g[i - 1] = f[i - 1] /\ i \in 0..n
        BY <3>2
      <4>2. f[i] = IF s[i] \in keep THEN Append(f[i - 1], s[i]) ELSE f[i - 1]
        BY <2>1, <3>2, <4>1 DEF UpTo
      <4> QED
        BY <3>2, <4>1, <4>2
    <3>3. CASE i = 0
      <4>1. g[i] = f[i] /\ i \in 0..n
        BY <3>3
      <4>2. f[i] = <<>>
        BY <2>1, <3>3, <4>1 DEF UpTo
      <4> QED
        BY <3>3, <4>1, <4>2
    <3>4. QED
      BY <3>1, <3>2, <3>3
  <2>3. UpTo(s, keep, n + 1, g)
    <3> DEFINE h == [i \in 0..n + 1 |-> IF i = 0 THEN <<>>
                      ELSE IF s[i] \in keep THEN Append(g[i - 1], s[i]) ELSE g[i - 1]]
    <3>1. \A i \in 0..n + 1 : g[i] = h[i]
      BY <2>2
    <3>2. g = h
      BY <3>1
    <3>3. QED
      BY <3>2 DEF UpTo
  <2>4. QED
    BY <2>3
<1>3. QED
  <2> HIDE DEF S
  <2>1. Nat \subseteq S
    BY <1>1, <1>2, Induction
  <2> QED
    BY <2>1 DEF S

LEMMA SelectedIsUpTo ==
  ASSUME NEW s, NEW keep, Len(s) \in Nat
  PROVE  \E f : UpTo(s, keep, Len(s), f) /\ Selected(s, keep) = f[Len(s)]
<1>1. \E f : UpTo(s, keep, Len(s), f)
  BY UpToExists
<1>2. QED
  BY <1>1 DEF Selected, UpTo

LEMMA SelectedElements ==
  ASSUME NEW E, NEW s \in Seq(E), NEW keep
  PROVE  /\ Selected(s, keep) \in Seq(E)
         /\ Elements(Selected(s, keep)) = Elements(s) \cap keep
<1>1. PICK f : UpTo(s, keep, Len(s), f) /\ Selected(s, keep) = f[Len(s)]
  BY SelectedIsUpTo
<1> DEFINE P(i) == /\ f[i] \in Seq(E)
                   /\ Elements(f[i]) = {s[j] : j \in 1..i} \cap keep
           S == {i \in Nat : i <= Len(s) => P(i)}
<1>2. 0 \in S
  <2>1. f[0] = <<>>
    BY <1>1 DEF UpTo
  <2>2. Elements(<<>>) = {} /\ {s[j] : j \in 1..0} = {} /\ <<>> \in Seq(E)
    <3>1. 1..0 = {} /\ Len(<<>>) = 0
      OBVIOUS
    <3> QED
      BY <3>1 DEF Elements
  <2>3. P(0)
    BY <2>1, <2>2
  <2>4. QED
    BY <2>3
<1>3. ASSUME NEW i \in Nat, i \in S PROVE i + 1 \in S
  <2>1. SUFFICES ASSUME i + 1 <= Len(s) PROVE P(i + 1)
    OBVIOUS
  <2>2. P(i) /\ i + 1 \in 0..Len(s) /\ i + 1 # 0 /\ (i + 1) - 1 = i
    BY <1>3, <2>1
  <2>3. f[i + 1] = IF s[i + 1] \in keep THEN Append(f[i], s[i + 1]) ELSE f[i]
    BY <1>1, <2>2 DEF UpTo
  <2>4. s[i + 1] \in E
    BY <2>2
  <2>5. {s[j] : j \in 1..(i + 1)} = {s[j] : j \in 1..i} \cup {s[i + 1]}
    BY <2>2
  <2>6. CASE s[i + 1] \in keep
    <3>1. f[i + 1] = Append(f[i], s[i + 1])
      BY <2>3, <2>6
    <3>2. f[i + 1] \in Seq(E)
      BY <2>2, <2>4, <3>1
    <3>3. Elements(f[i + 1]) = Elements(f[i]) \cup {s[i + 1]}
      <4> DEFINE r == f[i] e == s[i+1] t == f[i+1]
      <4>1. r \in Seq(E) /\ t = Append(r, e) /\ e \in E
        BY <3>1, <2>2, <2>4
      <4> HIDE DEF r, e, t
      <4>2. Elements(t) = Elements(r) \cup {e}
        BY <4>1 DEF Elements
      <4> QED
        BY <4>2 DEF r, e, t
    <3>4. QED
      BY <2>2, <2>5, <2>6, <3>2, <3>3
  <2>7. CASE s[i + 1] \notin keep
    BY <2>2, <2>3, <2>5, <2>7
  <2>8. QED
    BY <2>6, <2>7
<1>4. P(Len(s))
  <2> HIDE DEF S
  <2>1. Nat \subseteq S
    BY <1>2, <1>3, Induction
  <2>2. Len(s) \in S
    BY <2>1
  <2> QED
    BY <2>2 DEF S
<1>5. QED
  BY <1>1, <1>4 DEF Elements
LEMMA Least ==
  ASSUME NEW T, T \subseteq Nat, T # {}
  PROVE  \E x \in T : \A y \in T : x <= y
<1>1. PICK x \in T : \A y \in T : <<y, x>> \notin Below
  BY BelowWF, WFMin
<1>2. ASSUME NEW y \in T PROVE x <= y
  <2>1. x \in Nat /\ y \in Nat /\ <<y, x>> \notin Below
    BY <1>1
  <2>2. ~(y < x)
    BY <2>1 DEF Below
  <2>3. QED
    BY <2>1, <2>2
<1>3. QED
  BY <1>2

--------------------------------------------------------------------------------
(* The inductive invariant of the engine.  On the way to file f it says     *)
(* what of f may be under way in each status, and counts its blocks.        *)

Live == {"progress", "interrupt"}
AllAnswered(f) == \A k \in 1..Chunks[f] : <<f, k>> \in answered

Counted ==
  /\ IsFiniteSet(pool)
  /\ Cardinality(pool) <= Threads /\ remaning = Cardinality(pool)

(* A request is on the wire only for a file under way, or for one that is   *)
(* complete and whose uploadComplete was never triggered (AnswerThrows).    *)
OnWireRuns == \A w \in transport : status[w[1]] \in {"progress", "complete"}

(* A file that is not being sent holds no slot. *)
Waiting ==
  \A f \in File :
    status[f] \in {"absent", "inited", "queued", "interrupt"} => Of(f, pool) = {}

(* The file being prepared is in no other stage, a slot is free for it, and *)
(* only removal can have changed its status to one that is not cut.         *)
Preparing ==
  promise # None =>
    /\ promise \notin Elements(stack) /\ promise \notin finishing
    /\ Of(promise, pool) = {}
    /\ Cardinality(pool) < Threads
    /\ \/ status[promise] \in Live
       \/ promise \in dequeued /\ status[promise] \in {"cancelled", "complete"}
    /\ skipping => promise \in dequeued
SkipsPromise == promise = None => ~skipping

(* The blocks of a file that holds slots lie before its cursor. *)
Ahead ==
  \A f \in Elements(stack) : status[f] \in Live =>
    \A k \in 1..Chunks[f] : <<f, k>> \in pool => k < cursor[f]

(* file.remaning counts the blocks not yet sent and those in the pool, and  *)
(* what is behind the cursor is answered unless it is in the pool.          *)
Accounted ==
  \A f \in File : status[f] \in Live /\ f # promise =>
    /\ left[f] = Chunks[f] + 1 - cursor[f] + Cardinality(Of(f, pool))
    /\ \A k \in 1..Chunks[f] : k < cursor[f] => <<f, k>> \in pool \cup answered

Finishing ==
  \A f \in finishing :
    /\ status[f] \in {"progress", "cancelled", "complete"}
    /\ f \in dequeued \/ AllAnswered(f)

Removed == \A f \in File : status[f] = "cancelled" => f \in dequeued

UploadInv ==
  /\ TypeOK /\ SlotsHeld /\ Counted /\ OnWireRuns /\ Waiting /\ Preparing
  /\ SkipsPromise /\ Ahead /\ Accounted /\ Finishing /\ Removed
  /\ CompleteMeansAnswered

--------------------------------------------------------------------------------
(* Blocks and slots.                                                        *)

LEMMA BlockParts ==
  ASSUME NEW b \in Block
  PROVE  /\ b = <<b[1], b[2]>> /\ b[1] \in File /\ b[2] \in 1..Chunks[b[1]]
BY DEF Block

LEMMA BlockOf ==
  ASSUME NEW f \in File, NEW k \in 1..Chunks[f]
  PROVE  <<f, k>> \in Block
BY DEF Block

LEMMA OfParts ==
  ASSUME NEW f, NEW blocks
  PROVE  /\ Of(f, blocks) \subseteq blocks
         /\ \A b \in Of(f, blocks) : b[1] = f
         /\ \A k : <<f, k>> \in blocks => <<f, k>> \in Of(f, blocks)
         /\ \A g : g # f => Of(g, blocks \ Of(f, blocks)) = Of(g, blocks)
BY DEF Of

(* Popping blocks that hold slots frees exactly these slots (_popBlock). *)
LEMMA PopFrees ==
  ASSUME UploadInv, NEW blocks \in SUBSET pool, NEW more, Pop(blocks, more)
  PROVE  /\ pool' = pool \ blocks
         /\ IsFiniteSet(pool')
         /\ Cardinality(pool') <= Cardinality(pool)
         /\ remaning' = Cardinality(pool')
         /\ remaning' \in Nat
         /\ Cardinality(blocks) \in Nat
         /\ ticks' = ticks + Cardinality(blocks) + more
<1>1. IsFiniteSet(pool) /\ remaning = Cardinality(pool)
  BY DEF UploadInv, Counted
<1>2. /\ IsFiniteSet(blocks) /\ IsFiniteSet(pool \ blocks)
      /\ Cardinality(blocks) <= Cardinality(pool)
  BY <1>1, FS_Subset
<1>3. Cardinality(pool \ blocks) = Cardinality(pool) - Cardinality(blocks)
  <2>1. pool \cap blocks = blocks
    OBVIOUS
  <2>2. QED
    BY <1>1, <2>1, FS_Difference
<1>4. /\ Cardinality(pool) \in Nat /\ Cardinality(blocks) \in Nat
      /\ Cardinality(pool \ blocks) \in Nat
  BY <1>1, <1>2, FS_CardinalityType
<1>5. pool' = pool \ blocks
  <2>1. /\ pool' \subseteq pool \ blocks
        /\ \/ Cardinality(pool') + Cardinality(blocks) = Cardinality(pool)
           \/ Cardinality(blocks) > Cardinality(pool)
    BY DEF Pop, PoolAfter
  <2>2. IsFiniteSet(pool') /\ Cardinality(pool') \in Nat
    BY <1>2, <2>1, FS_Subset, FS_CardinalityType
  <2>3. Cardinality(pool') = Cardinality(pool \ blocks)
    BY <1>2, <1>3, <1>4, <2>1, <2>2
  <2>4. QED
    BY <1>2, <2>1, <2>3, FS_Subset
<1>6. remaning' = remaning - Cardinality(blocks)
  BY DEF Pop
<1>7. ticks' = ticks + Cardinality(blocks) + more
  BY DEF Pop
<1>8. QED
  <2>1. Cardinality(pool') = Cardinality(pool) - Cardinality(blocks)
    BY <1>3, <1>5
  <2>2. remaning' = Cardinality(pool')
    BY <1>1, <1>6, <2>1
  <2>3. Cardinality(pool') <= Cardinality(pool) /\ Cardinality(pool') \in Nat
    BY <1>3, <1>4, <1>5
  <2>4. QED
    BY <1>2, <1>4, <1>5, <1>7, <2>2, <2>3

(* A file with no block in the pool has none anywhere. *)
LEMMA NoneUnderWay ==
  ASSUME UploadInv, NEW f \in File, Of(f, pool) = {}
  PROVE  Of(f, transport) = {} /\ Of(f, sending) = {}
BY DEF UploadInv, SlotsHeld, Of

--------------------------------------------------------------------------------
(* The user's calls keep the invariant.                                     *)

LEMMA AddFileKeeps ==
  ASSUME UploadInv, NEW f \in File, AddFile(f)
  PROVE  UploadInv'
<1> USE DEF UploadInv, AddFile, netVars, cutVars, flagVars, dueVars, logVars
<1>0. /\ status[f] = "absent" /\ status' = [status EXCEPT ![f] = "inited"]
      /\ status \in [File -> Status]
  BY DEF TypeOK
<1>1. /\ status'[f] = "inited"
      /\ \A g \in File : g # f => status'[g] = status[g]
  BY <1>0
<1>2. Of(f, pool) = {} /\ Of(f, transport) = {}
  BY <1>0, NoneUnderWay DEF Waiting
<1>3. TypeOK'
  <2>1. status' \in [File -> Status]
    BY <1>0 DEF Status
  <2>2. queue' \in Seq(File)
    BY DEF TypeOK
  <2>3. QED
    BY <2>1, <2>2 DEF TypeOK
<1>4. SlotsHeld' /\ Counted' /\ SkipsPromise'
  BY DEF SlotsHeld, Counted, SkipsPromise
<1>5. OnWireRuns'
  <2>1. ASSUME NEW w \in transport PROVE status'[w[1]] \in {"progress", "complete"}
    <3>1. w[1] \in File /\ w[1] # f /\ status[w[1]] \in {"progress", "complete"}
      BY <1>0, BlockParts DEF OnWireRuns, TypeOK
    <3>2. QED
      BY <1>1, <3>1
  <2>2. QED
    BY <2>1 DEF OnWireRuns
<1>6. Waiting'
  BY <1>1, <1>2 DEF Waiting
<1>7. Preparing'
  <2>1. promise # None => promise \in File /\ promise # f
    BY <1>0 DEF Preparing, TypeOK, Live
  <2>2. QED
    BY <1>1, <2>1 DEF Preparing
<1>8. Ahead' /\ Accounted'
  <2>1. \A g \in File : status'[g] \in Live => status'[g] = status[g]
    BY <1>1 DEF Live
  <2>2. Elements(stack) \subseteq File
    BY DEF TypeOK, Elements
  <2>3. Ahead'
    BY <2>1, <2>2 DEF Ahead
  <2>4. Accounted'
    BY <2>1 DEF Accounted
  <2>5. QED
    BY <2>3, <2>4
<1>9. Finishing' /\ Removed' /\ CompleteMeansAnswered'
  <2>1. f \notin finishing
    BY <1>0 DEF Finishing
  <2>2. finishing \subseteq File
    BY DEF TypeOK
  <2>3. Finishing'
    BY <1>1, <2>1, <2>2 DEF Finishing, AllAnswered
  <2>4. Removed'
    BY <1>1 DEF Removed
  <2>5. WithStatus("complete")' \subseteq WithStatus("complete")
    BY <1>1 DEF WithStatus
  <2>6. CompleteMeansAnswered'
    BY <2>5 DEF CompleteMeansAnswered
  <2>7. QED
    BY <2>3, <2>4, <2>6
<1>10. QED
  BY <1>3, <1>4, <1>5, <1>6, <1>7, <1>8, <1>9

(* startUpload() over the statuses as they are, or with the failed files of *)
(* which no block is under way queued again.                                *)
LEMMA StartKeeps ==
  ASSUME UploadInv, NEW before \in [File -> Status], StartUpload(before),
         clicks' \in Nat,
         \A f \in File :
           \/ before[f] = status[f]
           \/ /\ status[f] = "error" /\ before[f] = "queued"
              /\ \A b \in sending : b[1] # f
  PROVE  UploadInv'
<1> USE DEF UploadInv
<1>0. /\ status \in [File -> Status]
      /\ status' = [f \in File |->
           IF before[f] = "inited" THEN "queued"
           ELSE IF before[f] = "interrupt" /\ ~runing THEN "progress"
           ELSE before[f]]
      /\ UNCHANGED <<queue, pool, remaning, sending, transport, left, retried,
                     finishing, promise, skipping, stack, cursor, finished,
                     dequeued, answered>>
  BY DEF TypeOK, StartUpload, netVars, cutVars
<1>1. ASSUME NEW f \in File
      PROVE  \/ status'[f] = status[f]
             \/ status[f] = "inited" /\ status'[f] = "queued"
             \/ status[f] = "interrupt" /\ status'[f] = "progress"
             \/ /\ status[f] = "error" /\ status'[f] = "queued"
                /\ \A b \in sending : b[1] # f
  BY <1>0
<1>2. ASSUME NEW f \in File
      PROVE  /\ status'[f] \in Live <=> status[f] \in Live
             /\ status[f] = "progress" => status'[f] = "progress"
             /\ status'[f] = "cancelled" <=> status[f] = "cancelled"
             /\ status'[f] = "complete" <=> status[f] = "complete"
  BY <1>1 DEF Live
<1>3. TypeOK'
  <2>1. status' \in [File -> Status]
    BY <1>0 DEF Status
  <2>2. /\ runing' \in BOOLEAN /\ progress' \in BOOLEAN /\ trigged' \in BOOLEAN
        /\ ticks' \in Nat
    <3>1. /\ ticks \in Nat /\ runing \in BOOLEAN /\ progress \in BOOLEAN
          /\ trigged \in BOOLEAN
      BY DEF TypeOK
    <3>2. runing' = TRUE
      BY DEF StartUpload
    <3>3. CASE runing
      BY <3>1, <3>2, <3>3 DEF StartUpload
    <3>4. CASE ~runing
      <4>1. progress' = TRUE /\ trigged' = FALSE /\ ticks' = ticks + 1
        BY <3>4 DEF StartUpload
      <4>2. ticks' \in Nat
        BY <3>1, <4>1
      <4>3. QED
        BY <3>2, <4>1, <4>2
    <3>5. QED
      BY <3>3, <3>4
  <2>3. QED
    BY <1>0, <2>1, <2>2 DEF TypeOK
<1>4. SlotsHeld' /\ Counted' /\ SkipsPromise'
  BY <1>0 DEF SlotsHeld, Counted, SkipsPromise
<1>5. OnWireRuns'
  <2>1. \A w \in transport : w[1] \in File
    BY BlockParts DEF TypeOK
  <2>2. QED
    BY <1>0, <1>2, <2>1 DEF OnWireRuns
<1>6. Waiting'
  <2>1. ASSUME NEW f \in File,
               status'[f] \in {"absent", "inited", "queued", "interrupt"}
        PROVE  Of(f, pool) = {}
    <3>1. CASE status[f] \in {"absent", "inited", "queued", "interrupt"}
      BY <3>1 DEF Waiting
    <3>2. CASE status[f] = "error" /\ \A b \in sending : b[1] # f
      BY <3>2 DEF SlotsHeld, OnWireRuns, Of
    <3>3. QED
      BY <1>1, <2>1, <3>1, <3>2
  <2>2. QED
    BY <1>0, <2>1 DEF Waiting
<1>7. Preparing'
  <2>1. promise # None => promise \in File
    BY DEF TypeOK
  <2>2. QED
    BY <1>0, <1>2, <2>1 DEF Preparing
<1>8. Ahead'
  <2>1. Elements(stack) \subseteq File
    BY DEF TypeOK, Elements
  <2>2. QED
    BY <1>0, <1>2, <2>1 DEF Ahead
<1>9. Accounted'
  BY <1>0, <1>2 DEF Accounted
<1>10. Finishing'
  <2>1. finishing \subseteq File
    BY DEF TypeOK
  <2>2. QED
    BY <1>0, <1>2, <2>1 DEF Finishing, AllAnswered
<1>11. Removed' /\ CompleteMeansAnswered'
  BY <1>0, <1>2 DEF Removed, CompleteMeansAnswered, WithStatus
<1>12. QED
  BY <1>3, <1>4, <1>5, <1>6, <1>7, <1>8, <1>9, <1>10, <1>11

LEMMA UploadKeeps == ASSUME UploadInv, Upload PROVE UploadInv'
<1>1. status \in [File -> Status] /\ clicks \in Nat
  BY DEF UploadInv, TypeOK
<1>2. StartUpload(status) /\ clicks' \in Nat
  BY <1>1 DEF Upload
<1>3. QED
  BY <1>1, <1>2, StartKeeps

LEMMA RetryKeeps == ASSUME UploadInv, Retry PROVE UploadInv'
<1> DEFINE before == [f \in File |->
             IF status[f] = "error" THEN "queued" ELSE status[f]]
<1>1. status \in [File -> Status] /\ clicks \in Nat
  BY DEF UploadInv, TypeOK
<1>2. StartUpload(before) /\ clicks' \in Nat
  BY <1>1 DEF Retry
<1>3. before \in [File -> Status]
  BY <1>1 DEF Status
<1>4. ASSUME NEW f \in File
      PROVE  \/ before[f] = status[f]
             \/ /\ status[f] = "error" /\ before[f] = "queued"
                /\ \A b \in sending : b[1] # f
  BY DEF Retry
<1> HIDE DEF before
<1>5. QED
  BY <1>2, <1>3, <1>4, StartKeeps

(* stop() interrupts the file being prepared, which holds no slot yet. *)
LEMMA StopKeeps == ASSUME UploadInv, Stop PROVE UploadInv'
<1> USE DEF UploadInv
<1>0. /\ status \in [File -> Status] /\ promise \in File \cup {None}
      /\ status' = [f \in File |-> IF f = promise THEN "interrupt" ELSE status[f]]
      /\ UNCHANGED <<queue, pool, remaning, sending, transport, left, retried,
                     finishing, promise, skipping, stack, cursor, progress,
                     trigged, ticks, finished, dequeued, answered>>
  BY DEF TypeOK, Stop, netVars, cutVars, dueVars
<1>1. \A f \in File : f # promise => status'[f] = status[f]
  BY <1>0
<1>2. \A f \in File : f = promise =>
        status'[f] = "interrupt" /\ Of(f, pool) = {} /\ f \notin finishing
        /\ f \notin Elements(stack)
  <2>1. None \notin File
    BY UploaderAssumption
  <2>2. QED
    BY <1>0, <2>1 DEF Preparing
<1>3. TypeOK'
  <2>1. status' \in [File -> Status]
    BY <1>0 DEF Status
  <2>2. runing' \in BOOLEAN /\ clicks' \in Nat
    <3>1. clicks \in Nat /\ clicks' = clicks + 1 /\ runing' = FALSE
      BY DEF TypeOK, Stop
    <3>2. clicks' \in Nat
      BY <3>1
    <3>3. QED
      BY <3>1, <3>2
  <2>3. QED
    BY <1>0, <2>1, <2>2 DEF TypeOK
<1>4. SlotsHeld' /\ Counted' /\ SkipsPromise'
  BY <1>0 DEF SlotsHeld, Counted, SkipsPromise
<1>5. OnWireRuns'
  <2>1. \A w \in transport : w[1] \in File /\ w \in Of(w[1], pool)
    BY BlockParts DEF TypeOK, SlotsHeld, Of
  <2>2. QED
    BY <1>0, <1>1, <1>2, <2>1 DEF OnWireRuns
<1>6. Waiting'
  BY <1>0, <1>1, <1>2 DEF Waiting
<1>7. Preparing'
  <2>1. promise # None => status'[promise] = "interrupt"
    BY <1>0
  <2>2. QED
    BY <1>0, <2>1 DEF Preparing, Live
<1>8. Ahead'
  <2>1. Elements(stack) \subseteq File
    BY DEF TypeOK, Elements
  <2>2. QED
    BY <1>0, <1>1, <1>2, <2>1 DEF Ahead
<1>9. Accounted'
  BY <1>0, <1>1 DEF Accounted
<1>10. Finishing'
  <2>1. finishing \subseteq File
    BY DEF TypeOK
  <2>2. QED
    BY <1>0, <1>1, <1>2, <2>1 DEF Finishing, AllAnswered
<1>11. Removed' /\ CompleteMeansAnswered'
  BY <1>0, <1>1, <1>2 DEF Removed, CompleteMeansAnswered, WithStatus
<1>12. QED
  BY <1>3, <1>4, <1>5, <1>6, <1>7, <1>8, <1>9, <1>10, <1>11


(* cancelFile aborts the requests of the file; each frees its slot. *)
LEMMA RemoveFileKeeps ==
  ASSUME UploadInv, NEW f \in File, RemoveFile(f)
  PROVE  UploadInv'
<1> USE DEF UploadInv
<1> DEFINE gone == Of(f, transport)
<1>0. /\ status \in [File -> Status]
      /\ status' = [status EXCEPT ![f] = "cancelled"]
      /\ transport' = transport \ gone
      /\ left \in [File -> Nat]
      /\ left' = [left EXCEPT ![f] = Minus(@, Cardinality(gone))]
      /\ dequeued' = dequeued \cup {f}
      /\ UNCHANGED <<queue, sending, retried, finishing, promise, skipping,
                     stack, cursor, runing, progress, trigged, finished, clicks,
                     answered>>
  BY DEF TypeOK, RemoveFile, DestroyTransports, cutVars, flagVars
<1>1. /\ status'[f] = "cancelled"
      /\ \A g \in File : g # f => status'[g] = status[g] /\ left'[g] = left[g]
  BY <1>0
<1>2. Pop(gone, 0) /\ gone \subseteq pool
  BY DEF RemoveFile, DestroyTransports, SlotsHeld, Of
<1>3. /\ pool' = pool \ gone /\ IsFiniteSet(pool')
      /\ Cardinality(pool') <= Cardinality(pool)
      /\ remaning' = Cardinality(pool') /\ remaning' \in Nat
      /\ Cardinality(gone) \in Nat
      /\ ticks' = ticks + Cardinality(gone) + 0
  BY <1>2, PopFrees
<1>4. /\ gone \subseteq transport /\ \A b \in gone : b[1] = f
      /\ \A g \in File : g # f => Of(g, pool') = Of(g, pool)
      /\ \A g : Of(g, pool') \subseteq Of(g, pool)
  BY <1>3 DEF Of
<1> HIDE DEF gone
<1>5. TypeOK'
  <2>1. status' \in [File -> Status]
    BY <1>0 DEF Status
  <2>2. left' \in [File -> Nat]
    <3>1. Minus(left[f], Cardinality(gone)) \in Nat
      BY <1>0, <1>3 DEF Minus
    <3>2. QED
      BY <1>0, <3>1
  <2>3. ticks' \in Nat
    <3>1. ticks \in Nat
      BY DEF TypeOK
    <3>2. QED
      BY <1>3, <3>1
  <2>4. pool' \subseteq Block /\ transport' \subseteq Block
    BY <1>0, <1>3 DEF TypeOK
  <2>5. QED
    BY <1>0, <1>3, <2>1, <2>2, <2>3, <2>4 DEF TypeOK
<1>6. SlotsHeld'
  BY <1>0, <1>3, <1>4 DEF SlotsHeld
<1>7. Counted' /\ SkipsPromise'
  <2>1. Cardinality(pool) \in Nat /\ Cardinality(pool') \in Nat /\ Threads \in Nat
    BY <1>3, FS_CardinalityType, UploaderAssumption DEF Counted
  <2>2. QED
    BY <1>0, <1>3, <2>1 DEF Counted, SkipsPromise
<1>8. OnWireRuns'
  <2>1. \A w \in transport' : w \in transport /\ w[1] \in File /\ w[1] # f
    BY <1>0, BlockParts DEF TypeOK, Of, gone
  <2>2. QED
    BY <1>1, <2>1 DEF OnWireRuns
<1>9. Waiting'
  BY <1>1, <1>4 DEF Waiting
<1>10. Preparing'
  <2>1. ASSUME promise # None
        PROVE  /\ promise \in File
               /\ \/ status'[promise] \in Live
                  \/ /\ promise \in dequeued'
                     /\ status'[promise] \in {"cancelled", "complete"}
    BY <1>0, <1>1, <2>1 DEF Preparing, TypeOK
  <2>2. promise # None => Of(promise, pool') = {} /\ Cardinality(pool') < Threads
    <3>1. Cardinality(pool) \in Nat /\ Cardinality(pool') \in Nat /\ Threads \in Nat
      BY <1>3, FS_CardinalityType, UploaderAssumption DEF Counted
    <3>2. promise # None => Cardinality(pool') < Threads
      BY <1>3, <3>1 DEF Preparing
    <3>3. promise # None => Of(promise, pool') = {}
      BY <1>4 DEF Preparing
    <3>4. QED
      BY <3>2, <3>3
  <2>3. QED
    BY <1>0, <2>1, <2>2 DEF Preparing
<1>11. Ahead'
  <2>1. Elements(stack) \subseteq File
    BY DEF TypeOK, Elements
  <2>2. QED
    BY <1>0, <1>1, <1>3, <2>1 DEF Ahead, Live
<1>12. Accounted'
  <2>1. SUFFICES ASSUME NEW g \in File, status'[g] \in Live, g # promise
                 PROVE  /\ left[g] = Chunks[g] + 1 - cursor[g] + Cardinality(Of(g, pool))
                        /\ \A k \in 1..Chunks[g] :
                             k < cursor[g] => <<g, k>> \in pool' \cup answered
    BY <1>0, <1>1, <1>4 DEF Accounted, Live
  <2>2. g # f /\ status[g] \in Live
    BY <1>0, <1>1, <2>1 DEF Live
  <2>3. \A k : <<g, k>> \in pool => <<g, k>> \in pool'
    BY <1>3, <1>4, <2>2
  <2>4. QED
    BY <2>1, <2>2, <2>3 DEF Accounted
<1>13. Finishing'
  <2>1. finishing \subseteq File
    BY DEF TypeOK
  <2>2. QED
    BY <1>0, <1>1, <2>1 DEF Finishing, AllAnswered
<1>14. Removed' /\ CompleteMeansAnswered'
  BY <1>0, <1>1 DEF Removed, CompleteMeansAnswered, WithStatus
<1>15. QED
  BY <1>5, <1>6, <1>7, <1>8, <1>9, <1>10, <1>11, <1>12, <1>13, <1>14


--------------------------------------------------------------------------------
(* _tick keeps the invariant.                                               *)

(* _getStack forgets entries of the stack and adds none; when it passes the *)
(* whole stack, the entries of used-up files are all forgotten.             *)
LEMMA PrunedStack ==
  ASSUME stack \in Seq(File), NEW n \in 0..Len(stack)
  PROVE  /\ Pruned(n) \in Seq(File)
         /\ Elements(Pruned(n)) \subseteq Elements(stack)
         /\ n = Len(stack) => \A f \in Elements(Pruned(n)) : Kept(f)
         /\ \A f \in Elements(stack) : Kept(f) => f \in Elements(Pruned(n))
<1> DEFINE walked == SubSeq(stack, 1, n)
           rest == SubSeq(stack, n + 1, Len(stack))
           keep == {f \in File : Kept(f)}
           left1 == Selected(walked, keep)
<1>1. walked \in Seq(File) /\ Elements(walked) \subseteq Elements(stack)
  BY DEF Elements
<1>2. rest \in Seq(File) /\ Elements(rest) \subseteq Elements(stack)
  BY DEF Elements
<1>3. left1 \in Seq(File) /\ Elements(left1) = Elements(walked) \cap keep
  BY <1>1, SelectedElements
<1>4. /\ n = Len(stack) => Elements(rest) = {}
      /\ Elements(stack) \subseteq Elements(walked) \cup Elements(rest)
      /\ Elements(stack) \subseteq File
  <2>1. n = Len(stack) => Elements(rest) = {}
    BY DEF Elements
  <2>2. ASSUME NEW i \in 1..Len(stack)
        PROVE  stack[i] \in Elements(walked) \cup Elements(rest)
    <3>1. CASE i <= n
      BY <3>1 DEF Elements
    <3>2. CASE i > n
      <4>1. /\ Len(rest) = Len(stack) - n /\ i - n \in 1..Len(rest)
            /\ rest[i - n] = stack[i]
        BY <3>2
      <4>2. QED
        BY <4>1 DEF Elements
    <3>3. QED
      BY <3>1, <3>2
  <2>3. Elements(stack) \subseteq File
    BY DEF Elements
  <2>4. QED
    BY <2>1, <2>2, <2>3 DEF Elements
<1>5. Pruned(n) = left1 \o rest
  BY DEF Pruned
<1> HIDE DEF walked, rest, left1
<1>6. Elements(left1 \o rest) = Elements(left1) \cup Elements(rest)
  <2>1. /\ Len(left1) \in Nat /\ Len(rest) \in Nat
        /\ Len(left1 \o rest) = Len(left1) + Len(rest)
        /\ \A i \in 1..Len(left1) : (left1 \o rest)[i] = left1[i]
        /\ \A i \in 1..Len(rest) : (left1 \o rest)[Len(left1) + i] = rest[i]
    BY <1>2, <1>3
  <2>2. Elements(left1 \o rest) \subseteq Elements(left1) \cup Elements(rest)
    <3>1. ASSUME NEW i \in 1..Len(left1 \o rest)
          PROVE  \/ i \in 1..Len(left1)
                 \/ i - Len(left1) \in 1..Len(rest) /\ i = Len(left1) + (i - Len(left1))
      BY <2>1
    <3>2. QED
      BY <2>1, <3>1 DEF Elements
  <2>3. Elements(left1) \subseteq Elements(left1 \o rest)
    BY <2>1 DEF Elements
  <2>4. Elements(rest) \subseteq Elements(left1 \o rest)
    <3>1. \A i \in 1..Len(rest) : Len(left1) + i \in 1..Len(left1 \o rest)
      BY <2>1
    <3>2. QED
      BY <2>1, <3>1 DEF Elements
  <2>5. QED
    BY <2>2, <2>3, <2>4
<1>7. QED
  BY <1>1, <1>2, <1>3, <1>4, <1>5, <1>6

(* The entry _tick takes: the first of the stack that can be sent, the      *)
(* first of the queue that waits.                                           *)
LEMMA FirstSendableIs ==
  ASSUME stack \in Seq(File), CanSend
  PROVE  FirstSendable \in 1..Len(stack) /\ Sendable(stack[FirstSendable])
<1> DEFINE T == {i \in 1..Len(stack) : Sendable(stack[i])}
<1>1. T \subseteq Nat /\ T # {}
  BY DEF CanSend
<1>2. PICK x \in T : \A y \in T : x <= y
  BY <1>1, Least
<1>3. \A j \in 1..x - 1 : ~Sendable(stack[j])
  <2>1. \A j \in 1..x - 1 : j \in 1..Len(stack) /\ ~(x <= j)
    OBVIOUS
  <2>2. QED
    BY <1>2, <2>1
<1>4. \E i \in 1..Len(stack) :
        Sendable(stack[i]) /\ \A j \in 1..i - 1 : ~Sendable(stack[j])
  BY <1>2, <1>3
<1>5. QED
  BY <1>4 DEF FirstSendable

LEMMA FirstQueuedIs ==
  ASSUME queue \in Seq(File), CanFetch
  PROVE  FirstQueued \in 1..Len(queue) /\ status[queue[FirstQueued]] = "queued"
<1> DEFINE T == {i \in 1..Len(queue) : status[queue[i]] = "queued"}
<1>1. T \subseteq Nat /\ T # {}
  BY DEF CanFetch
<1>2. PICK x \in T : \A y \in T : x <= y
  BY <1>1, Least
<1>3. \A j \in 1..x - 1 : status[queue[j]] # "queued"
  <2>1. \A j \in 1..x - 1 : j \in 1..Len(queue) /\ ~(x <= j)
    OBVIOUS
  <2>2. QED
    BY <1>2, <2>1
<1>4. \E i \in 1..Len(queue) :
        status[queue[i]] = "queued" /\ \A j \in 1..i - 1 : status[queue[j]] # "queued"
  BY <1>2, <1>3
<1>5. QED
  BY <1>4 DEF FirstQueued


(* _startSend for a block that is not under way, when a slot is free. *)
LEMMA SlotTaken ==
  ASSUME UploadInv, NEW f \in File, NEW k \in 1..Chunks[f],
         <<f, k>> \notin pool, Cardinality(pool) < Threads,
         status[f] = "progress", StartSend(f, k)
  PROVE  /\ pool' = pool \cup {<<f, k>>} /\ sending' = sending \cup {<<f, k>>}
         /\ transport' = transport /\ finishing' = finishing
         /\ pool' \subseteq Block /\ sending' \subseteq Block
         /\ remaning' \in Nat
         /\ pool' = sending' \cup transport' /\ sending' \cap transport' = {}
         /\ IsFiniteSet(pool') /\ Cardinality(pool') <= Threads
         /\ remaning' = Cardinality(pool')
         /\ Cardinality(Of(f, pool')) = Cardinality(Of(f, pool)) + 1
         /\ \A g : g # f => Of(g, pool') = Of(g, pool)
<1>1. /\ pool' = pool \cup {<<f, k>>} /\ sending' = sending \cup {<<f, k>>}
      /\ transport' = transport /\ finishing' = finishing
      /\ remaning' = remaning + 1
  BY DEF StartSend
<1>2. <<f, k>> \in Block
  BY BlockOf
<1>3. pool' \subseteq Block /\ sending' \subseteq Block
  BY <1>1, <1>2 DEF UploadInv, TypeOK
<1>4. pool' = sending' \cup transport' /\ sending' \cap transport' = {}
  BY <1>1 DEF UploadInv, SlotsHeld
<1>5. IsFiniteSet(pool) /\ remaning = Cardinality(pool) /\ Threads \in Nat
  BY UploaderAssumption DEF UploadInv, Counted
<1>6. IsFiniteSet(pool') /\ Cardinality(pool') = Cardinality(pool) + 1
  BY <1>1, <1>5, FS_AddElement
<1>7. Cardinality(pool) \in Nat
  BY <1>5, FS_CardinalityType
<1>8. /\ Cardinality(pool') <= Threads /\ remaning' = Cardinality(pool')
      /\ remaning' \in Nat
  BY <1>1, <1>5, <1>6, <1>7
<1>9. Of(f, pool') = Of(f, pool) \cup {<<f, k>>} /\ <<f, k>> \notin Of(f, pool)
  BY <1>1 DEF Of
<1>10. Cardinality(Of(f, pool')) = Cardinality(Of(f, pool)) + 1
  <2>1. IsFiniteSet(Of(f, pool))
    BY <1>5, FS_Subset, OfParts
  <2>2. QED
    BY <1>9, <2>1, FS_AddElement
<1>11. \A g : g # f => Of(g, pool') = Of(g, pool)
  BY <1>1 DEF Of
<1>12. QED
  BY <1>1, <1>3, <1>4, <1>6, <1>8, <1>10, <1>11

LEMMA TickSendKeeps == ASSUME UploadInv, TickSend PROVE UploadInv'
<1> USE DEF UploadInv
<1>0. PICK f \in File : /\ f \in Elements(stack) /\ Sendable(f)
                        /\ stack' = Pruned(FirstSendable)
                        /\ cursor' = [cursor EXCEPT ![f] = @ + 1]
                        /\ StartSend(f, cursor[f])
                        /\ FirstSendable \in 0..Len(stack)
  <2>1. stack \in Seq(File) /\ CanSend
    BY DEF TypeOK, TickSend
  <2>2. FirstSendable \in 1..Len(stack) /\ Sendable(stack[FirstSendable])
    BY <2>1, FirstSendableIs
  <2> DEFINE f == stack[FirstSendable]
  <2>3. /\ stack' = Pruned(FirstSendable)
        /\ cursor' = [cursor EXCEPT ![f] = @ + 1]
        /\ StartSend(f, cursor[f])
    BY DEF TickSend
  <2>4. f \in File /\ f \in Elements(stack) /\ FirstSendable \in 0..Len(stack)
    BY <2>1, <2>2 DEF Elements
  <2>5. QED
    BY <2>2, <2>3, <2>4
<1>1. /\ promise = None /\ Cardinality(pool) < Threads
      /\ trigged' = FALSE /\ ticks' = ticks - 1 + 1 /\ ticks > 0
      /\ UNCHANGED <<status, queue, promise, skipping, left, retried, runing,
                     progress, finished, clicks, dequeued, answered>>
  BY DEF TickSend, Ticking, HasSlot, logVars
<1> DEFINE k == cursor[f]
<1>2. /\ status[f] = "progress" /\ k \in 1..Chunks[f] /\ k \in Nat
      /\ Chunks[f] \in Nat
  <2>1. Chunks[f] \in Nat
    BY UploaderAssumption
  <2>2. k \in 1..Chunks[f] + 1 /\ k <= Chunks[f] /\ status[f] = "progress"
    BY <1>0 DEF Sendable, Has, TypeOK
  <2> HIDE DEF k
  <2>3. QED
    BY <2>1, <2>2
<1>3. <<f, k>> \notin pool
  <2>1. f \in Elements(stack) /\ status[f] \in Live
    BY <1>0, <1>2 DEF Live
  <2>2. <<f, k>> \in pool => k < cursor[f]
    BY <1>2, <2>1 DEF Ahead
  <2>3. QED
    BY <1>2, <2>2
<1>4. /\ pool' = pool \cup {<<f, k>>} /\ sending' = sending \cup {<<f, k>>}
      /\ transport' = transport /\ finishing' = finishing
      /\ pool' \subseteq Block /\ sending' \subseteq Block
      /\ remaning' \in Nat
      /\ pool' = sending' \cup transport' /\ sending' \cap transport' = {}
      /\ IsFiniteSet(pool') /\ Cardinality(pool') <= Threads
      /\ remaning' = Cardinality(pool')
      /\ Cardinality(Of(f, pool')) = Cardinality(Of(f, pool)) + 1
      /\ \A g : g # f => Of(g, pool') = Of(g, pool)
  BY <1>0, <1>1, <1>2, <1>3, SlotTaken
<1>5. stack' \in Seq(File) /\ Elements(stack') \subseteq Elements(stack)
  BY <1>0, PrunedStack DEF TypeOK
<1>6. /\ cursor'[f] = k + 1
      /\ \A g \in File : g # f => cursor'[g] = cursor[g]
  BY <1>0 DEF TypeOK
<1> HIDE DEF k
<1>7. TypeOK'
  <2>1. cursor' \in [File -> Nat]
    BY <1>0, <1>2 DEF TypeOK, k
  <2>2. ASSUME NEW g \in File PROVE cursor'[g] \in 1..Chunks[g] + 1
    <3>1. CASE f = g
      <4>1. k + 1 \in 1..Chunks[f] + 1
        BY <1>2
      <4>2. QED
        BY <1>6, <3>1, <4>1
    <3>2. CASE f # g
      BY <1>6, <3>2 DEF TypeOK
    <3>3. QED
      BY <3>1, <3>2
  <2>3. ticks' \in Nat
    <3>1. ticks \in Nat
      BY DEF TypeOK
    <3>2. QED
      BY <1>1, <3>1
  <2>4. trigged' \in BOOLEAN
    BY <1>1
  <2>5. QED
    BY <1>1, <1>4, <1>5, <2>1, <2>2, <2>3, <2>4 DEF TypeOK
<1>8. SlotsHeld' /\ Counted' /\ SkipsPromise'
  BY <1>1, <1>4 DEF SlotsHeld, Counted, SkipsPromise
<1>9. OnWireRuns' /\ Preparing'
  BY <1>1, <1>4 DEF OnWireRuns, Preparing
<1>10. Waiting'
  BY <1>1, <1>2, <1>4 DEF Waiting
<1>11. Ahead'
  <2>1. SUFFICES ASSUME NEW g \in Elements(stack), status[g] \in Live,
                        NEW j \in 1..Chunks[g], <<g, j>> \in pool'
                 PROVE  j < cursor'[g]
    BY <1>1, <1>5 DEF Ahead
  <2>2. g \in File
    BY DEF TypeOK, Elements
  <2>3. <<g, j>> \in pool => j < cursor[g]
    BY <2>1 DEF Ahead
  <2>4. CASE g = f
    <3>1. j \in Nat
      BY <1>2, <2>4
    <3>2. j < k \/ j = k
      BY <1>4, <2>1, <2>3, <2>4 DEF k
    <3>3. QED
      BY <1>2, <1>6, <2>4, <3>1, <3>2
  <2>5. CASE g # f
    BY <1>4, <1>6, <2>1, <2>2, <2>3, <2>5
  <2>6. QED
    BY <2>4, <2>5
<1>12. Accounted'
  <2>1. SUFFICES ASSUME NEW g \in File, status[g] \in Live
                 PROVE  /\ left[g] = Chunks[g] + 1 - cursor'[g]
                                     + Cardinality(Of(g, pool'))
                        /\ \A j \in 1..Chunks[g] : j < cursor'[g] =>
                             <<g, j>> \in pool' \cup answered
    BY <1>1 DEF Accounted
  <2>2. /\ left[g] = Chunks[g] + 1 - cursor[g] + Cardinality(Of(g, pool))
        /\ \A j \in 1..Chunks[g] : j < cursor[g] => <<g, j>> \in pool \cup answered
    <3>1. g # promise
      BY <1>1, UploaderAssumption
    <3>2. QED
      BY <2>1, <3>1 DEF Accounted
  <2>3. CASE g = f
    <3>1. Cardinality(Of(f, pool)) \in Nat
      BY FS_Subset, FS_CardinalityType, OfParts DEF Counted
    <3>2. left[f] = Chunks[f] + 1 - k + Cardinality(Of(f, pool))
      BY <2>2, <2>3 DEF k
    <3>3. left[f] = Chunks[f] + 1 - cursor'[f] + Cardinality(Of(f, pool'))
      <4> DEFINE n == Cardinality(Of(f, pool))  c == Chunks[f]
      <4>1. n \in Nat /\ k \in Nat /\ c \in Nat
        BY <1>2, <3>1
      <4>2. left[f] = c + 1 - k + n
        BY <3>2
      <4> HIDE DEF n, c
      <4>3. left[f] = c + 1 - (k + 1) + (n + 1)
        BY <4>1, <4>2
      <4>4. QED
        BY <1>4, <1>6, <4>3 DEF n, c
    <3>4. ASSUME NEW j \in 1..Chunks[f], j < cursor'[f]
          PROVE  <<f, j>> \in pool' \cup answered
      <4>1. j < k \/ j = k
        BY <1>2, <1>6, <3>4
      <4>2. j < k => <<f, j>> \in pool \cup answered
        BY <2>2, <2>3 DEF k
      <4>3. QED
        BY <1>4, <4>1, <4>2
    <3>5. QED
      BY <2>3, <3>3, <3>4
  <2>4. CASE g # f
    BY <1>4, <1>6, <2>2, <2>4
  <2>5. QED
    BY <2>3, <2>4
<1>13. Finishing' /\ Removed' /\ CompleteMeansAnswered'
  BY <1>1, <1>4 DEF Finishing, AllAnswered, Removed, CompleteMeansAnswered,
                    WithStatus
<1>14. QED
  BY <1>7, <1>8, <1>9, <1>10, <1>11, <1>12, <1>13


LEMMA TickFetchKeeps == ASSUME UploadInv, TickFetch PROVE UploadInv'
<1> USE DEF UploadInv
<1> DEFINE f == queue[FirstQueued]
<1>0. f \in File /\ status[f] = "queued"
  <2>1. queue \in Seq(File) /\ CanFetch
    BY DEF TypeOK, TickFetch
  <2>2. FirstQueued \in 1..Len(queue) /\ status[queue[FirstQueued]] = "queued"
    BY <2>1, FirstQueuedIs
  <2>3. QED
    BY <2>1, <2>2
<1>1. /\ promise = None /\ Cardinality(pool) < Threads /\ ticks > 0
      /\ stack' = Pruned(Len(stack)) /\ promise' = f
      /\ status' = [status EXCEPT ![f] = "progress"]
      /\ trigged' = FALSE /\ ticks' = ticks - 1
      /\ UNCHANGED <<queue, skipping, cursor, pool, remaning, sending, transport,
                     left, retried, finishing, runing, progress, finished, clicks,
                     dequeued, answered>>
  BY DEF TickFetch, Ticking, HasSlot, netVars, logVars
<1> HIDE DEF f
<1>2. /\ status \in [File -> Status] /\ status'[f] = "progress"
      /\ \A g \in File : g # f => status'[g] = status[g]
  BY <1>0, <1>1 DEF TypeOK
<1>3. Of(f, pool) = {} /\ Of(f, transport) = {}
  BY <1>0, NoneUnderWay DEF Waiting
<1>4. /\ stack' \in Seq(File) /\ Elements(stack') \subseteq Elements(stack)
      /\ f \notin Elements(stack')
  <2>1. stack \in Seq(File) /\ Len(stack) \in 0..Len(stack)
    BY DEF TypeOK
  <2>2. /\ Pruned(Len(stack)) \in Seq(File)
        /\ Elements(Pruned(Len(stack))) \subseteq Elements(stack)
        /\ \A g \in Elements(Pruned(Len(stack))) : Kept(g)
    BY <2>1, PrunedStack
  <2>3. ~Kept(f)
    BY <1>0 DEF Kept
  <2>4. QED
    BY <1>1, <2>2, <2>3
<1>5. TypeOK'
  <2>1. status' \in [File -> Status]
    BY <1>1, <1>2 DEF Status
  <2>2. ticks' \in Nat
    <3>1. ticks \in Nat
      BY DEF TypeOK
    <3>2. QED
      BY <1>1, <3>1
  <2>3. trigged' \in BOOLEAN /\ promise' \in File \cup {None}
    BY <1>0, <1>1
  <2>4. QED
    BY <1>1, <1>4, <2>1, <2>2, <2>3 DEF TypeOK
<1>6. SlotsHeld' /\ Counted'
  BY <1>1 DEF SlotsHeld, Counted
<1>7. SkipsPromise'
  BY <1>0, <1>1, UploaderAssumption DEF SkipsPromise
<1>8. OnWireRuns'
  <2>1. \A w \in transport : w[1] \in File
    BY BlockParts DEF TypeOK
  <2>2. QED
    BY <1>1, <1>2, <2>1 DEF OnWireRuns
<1>9. Waiting'
  BY <1>1, <1>2 DEF Waiting
<1>10. Preparing'
  <2>1. f \notin finishing
    BY <1>0 DEF Finishing
  <2>2. ~skipping
    BY <1>1 DEF SkipsPromise
  <2>3. QED
    BY <1>1, <1>2, <1>3, <1>4, <2>1, <2>2 DEF Preparing, Live
<1>11. Ahead'
  <2>1. Elements(stack) \subseteq File
    BY DEF TypeOK, Elements
  <2>2. QED
    BY <1>1, <1>2, <1>4, <2>1 DEF Ahead
<1>12. Accounted'
  <2>1. None \notin File
    BY UploaderAssumption
  <2>2. QED
    BY <1>1, <1>2, <2>1 DEF Accounted
<1>13. Finishing'
  <2>1. finishing \subseteq File
    BY DEF TypeOK
  <2>2. QED
    BY <1>0, <1>1, <1>2, <2>1 DEF Finishing, AllAnswered
<1>14. Removed' /\ CompleteMeansAnswered'
  BY <1>1, <1>2 DEF Removed, CompleteMeansAnswered, WithStatus
<1>15. QED
  BY <1>5, <1>6, <1>7, <1>8, <1>9, <1>10, <1>11, <1>12, <1>13, <1>14

LEMMA TickIdleKeeps == ASSUME UploadInv, TickIdle PROVE UploadInv'
<1> USE DEF UploadInv
<1>1. UNCHANGED <<status, queue, promise, skipping, cursor, pool, remaning,
                  sending, transport, left, retried, finishing, progress, clicks,
                  dequeued, answered>>
  BY DEF TickIdle, netVars, logVars
<1>2. stack' \in Seq(File) /\ Elements(stack') \subseteq Elements(stack)
  <2>1. stack \in Seq(File) /\ Len(stack) \in 0..Len(stack)
    BY DEF TypeOK
  <2>2. stack' = Pruned(Len(stack)) \/ stack' = stack
    BY DEF TickIdle
  <2>3. QED
    BY <2>1, <2>2, PrunedStack
<1>3. TypeOK'
  <2>1. ticks' \in Nat
    <3>1. ticks \in Nat /\ ticks > 0 /\ ticks' = ticks - 1
      BY DEF TypeOK, TickIdle, Ticking
    <3>2. QED
      BY <3>1
  <2>2. runing' \in BOOLEAN /\ trigged' \in BOOLEAN /\ finished' \in Nat
    <3>1. runing \in BOOLEAN /\ trigged \in BOOLEAN /\ finished \in Nat
      BY DEF TypeOK
    <3>2. finished + 1 \in Nat
      BY <3>1
    <3>3. \/ runing' = FALSE /\ trigged' = TRUE
             /\ (finished' = finished \/ finished' = finished + 1)
          \/ UNCHANGED <<runing, trigged, finished>>
      BY DEF TickIdle
    <3>4. QED
      BY <3>1, <3>2, <3>3
  <2>3. QED
    BY <1>1, <1>2, <2>1, <2>2 DEF TypeOK
<1>4. SlotsHeld' /\ Counted' /\ SkipsPromise' /\ OnWireRuns' /\ Waiting'
  BY <1>1 DEF SlotsHeld, Counted, SkipsPromise, OnWireRuns, Waiting
<1>5. Preparing' /\ Ahead'
  BY <1>1, <1>2 DEF Preparing, Ahead
<1>6. Accounted' /\ Finishing' /\ Removed' /\ CompleteMeansAnswered'
  BY <1>1 DEF Accounted, Finishing, AllAnswered, Removed, CompleteMeansAnswered,
              WithStatus
<1>7. QED
  BY <1>3, <1>4, <1>5, <1>6

(* What the invariant is about apart from its types. *)
bodyVars == <<status, queue, pool, remaning, sending, transport, left, finishing,
              promise, skipping, stack, cursor, dequeued, answered>>

LEMMA BodyKept ==
  ASSUME UploadInv, UNCHANGED bodyVars, TypeOK'
  PROVE  UploadInv'
<1> USE DEF UploadInv, bodyVars
<1>1. SlotsHeld' /\ Counted' /\ SkipsPromise' /\ OnWireRuns' /\ Waiting'
  BY DEF SlotsHeld, Counted, SkipsPromise, OnWireRuns, Waiting
<1>2. Preparing' /\ Ahead' /\ Accounted'
  BY DEF Preparing, Ahead, Accounted
<1>3. Finishing' /\ Removed' /\ CompleteMeansAnswered'
  BY DEF Finishing, AllAnswered, Removed, CompleteMeansAnswered, WithStatus
<1>4. QED
  BY <1>1, <1>2, <1>3

LEMMA UploadFinishedKeeps == ASSUME UploadInv, UploadFinished PROVE UploadInv'
<1>1. TypeOK /\ UNCHANGED bodyVars /\ UNCHANGED <<runing, trigged, ticks, retried, clicks>>
  BY DEF UploadInv, UploadFinished, bodyVars, netVars, cutVars, logVars
<1>2. progress' \in BOOLEAN /\ finished' \in Nat
  <2>1. finished > 0 /\ finished' = finished - 1 /\ progress' = FALSE /\ finished \in Nat
    BY <1>1 DEF TypeOK, UploadFinished
  <2>2. finished' \in Nat
    BY <2>1
  <2>3. QED
    BY <2>1, <2>2
<1>3. TypeOK'
  BY <1>1, <1>2 DEF TypeOK, bodyVars
<1>4. QED
  BY <1>1, <1>3, BodyKept

LEMMA ResendKeeps ==
  ASSUME UploadInv, NEW f \in File, NEW k \in 1..Chunks[f], Resend(f, k)
  PROVE  UploadInv'
<1>1. /\ TypeOK /\ UNCHANGED bodyVars
      /\ UNCHANGED <<runing, progress, trigged, ticks, finished, clicks>>
      /\ retried[f][k] < ChunkRetry /\ retried' = [retried EXCEPT ![f][k] = @ + 1]
  BY DEF UploadInv, Resend, bodyVars, cutVars, flagVars, dueVars, logVars
<1>2. ASSUME NEW g \in File PROVE retried'[g] \in [1..Chunks[g] -> 0..ChunkRetry]
  <2>1. DOMAIN retried = File /\ retried[g] \in [1..Chunks[g] -> 0..ChunkRetry]
    BY <1>1 DEF TypeOK
  <2>2. CASE g = f
    <3>1. retried'[f] = [retried[f] EXCEPT ![k] = retried[f][k] + 1]
      BY <1>1, <2>1
    <3>2. retried[f][k] + 1 \in 0..ChunkRetry
      <4>1. retried[f][k] \in 0..ChunkRetry
        BY <2>1, <2>2
      <4>2. QED
        BY <1>1, <4>1, UploaderAssumption
    <3>3. QED
      BY <2>1, <2>2, <3>1, <3>2
  <2>3. CASE g # f
    BY <1>1, <2>1, <2>3
  <2>4. QED
    BY <2>2, <2>3
<1>3. DOMAIN retried' = File
  BY <1>1 DEF TypeOK
<1>4. TypeOK'
  BY <1>1, <1>2, <1>3 DEF TypeOK, bodyVars
<1>5. QED
  BY <1>1, <1>4, BodyKept


--------------------------------------------------------------------------------
(* Preparing a file keeps the invariant.                                    *)

(* A file that is neither under way nor interrupted any more was removed,   *)
(* and is finished as if it had been skipped.                               *)
LEMMA PreparedSkips ==
  ASSUME UploadInv, NEW f \in File, Prepared(f),
         status[f] \notin {"progress", "interrupt"}
  PROVE  UploadInv'
<1> USE DEF UploadInv
<1>1. /\ promise = f /\ skipping' = TRUE
      /\ UNCHANGED <<status, queue, promise, stack, cursor, pool, remaning,
                     sending, transport, left, retried, finishing, ticks, runing,
                     progress, trigged, finished, clicks, dequeued, answered>>
  BY DEF Prepared, netVars, flagVars, logVars
<1>2. promise # None /\ promise \in dequeued
  BY <1>1, UploaderAssumption DEF Preparing, Live
<1>3. TypeOK'
  BY <1>1 DEF TypeOK
<1>4. SlotsHeld' /\ Counted' /\ SkipsPromise' /\ OnWireRuns' /\ Waiting'
  BY <1>1, <1>2 DEF SlotsHeld, Counted, SkipsPromise, OnWireRuns, Waiting
<1>5. Preparing' /\ Ahead' /\ Accounted'
  BY <1>1, <1>2 DEF Preparing, Ahead, Accounted
<1>6. Finishing' /\ Removed' /\ CompleteMeansAnswered'
  BY <1>1 DEF Finishing, AllAnswered, Removed, CompleteMeansAnswered, WithStatus
<1>7. QED
  BY <1>3, <1>4, <1>5, <1>6

(* The file is cut.  Its first block takes the slot that was free when it   *)
(* was fetched; an interrupted file starts with no block.                   *)
LEMMA PreparedCuts ==
  ASSUME UploadInv, NEW f \in File, Prepared(f),
         status[f] \in {"progress", "interrupt"}
  PROVE  UploadInv'
<1> USE DEF UploadInv
<1>1. /\ promise = f /\ promise' = None /\ ~skipping
      /\ stack' = Append(stack, f)
      /\ cursor' = [cursor EXCEPT ![f] = IF status[f] = "interrupt" THEN 1 ELSE 2]
      /\ left' = [left EXCEPT ![f] = Chunks[f]]
      /\ retried' = [retried EXCEPT ![f] = [k \in 1..Chunks[f] |-> 0]]
      /\ StartSend(f, 1) /\ ticks' = ticks + 1
      /\ UNCHANGED <<status, queue, skipping, runing, progress, trigged, finished,
                     clicks, dequeued, answered>>
  BY DEF Prepared, flagVars, logVars
<1>2. /\ promise # None /\ f \notin Elements(stack) /\ f \notin finishing
      /\ Of(f, pool) = {} /\ Cardinality(pool) < Threads
  BY <1>1, UploaderAssumption DEF Preparing
<1>3. /\ Chunks[f] \in Nat /\ 1 \in 1..Chunks[f] /\ <<f, 1>> \notin pool
      /\ Cardinality(Of(f, pool)) = 0
  <2>1. Chunks[f] \in Nat \ {0}
    BY UploaderAssumption
  <2>2. 1 \in 1..Chunks[f]
    BY <2>1
  <2>3. <<f, 1>> \notin pool
    BY <1>2 DEF Of
  <2>4. QED
    BY <1>2, <2>1, <2>2, <2>3, FS_EmptySet
<1>4. /\ transport' = transport /\ finishing' = finishing
      /\ pool' \subseteq Block /\ sending' \subseteq Block
      /\ remaning' \in Nat
      /\ pool' = sending' \cup transport' /\ sending' \cap transport' = {}
      /\ IsFiniteSet(pool') /\ Cardinality(pool') <= Threads
      /\ remaning' = Cardinality(pool')
      /\ \A g : g # f => Of(g, pool') = Of(g, pool)
      /\ \A g : g # f => \A k : <<g, k>> \in pool' <=> <<g, k>> \in pool
  <2>1. CASE status[f] = "progress"
    <3>1. pool' = pool \cup {<<f, 1>>}
      BY <1>1, <1>2, <1>3, <2>1, SlotTaken
    <3>2. \A g : g # f => \A k : <<g, k>> \in pool' <=> <<g, k>> \in pool
      BY <3>1
    <3>3. QED
      BY <1>1, <1>2, <1>3, <2>1, <3>2, SlotTaken
  <2>2. CASE status[f] = "interrupt"
    <3>1. UNCHANGED <<pool, remaning, sending, transport, finishing>>
      BY <1>1, <2>2 DEF StartSend
    <3>2. QED
      BY <3>1 DEF TypeOK, SlotsHeld, Counted
  <2>3. QED
    BY <2>1, <2>2
<1>5. \/ /\ status[f] = "progress" /\ cursor'[f] = 2
         /\ pool' = pool \cup {<<f, 1>>} /\ Cardinality(Of(f, pool')) = 1
      \/ /\ status[f] = "interrupt" /\ cursor'[f] = 1
         /\ pool' = pool /\ Cardinality(Of(f, pool')) = 0
  <2>1. CASE status[f] = "progress"
    <3>1. /\ pool' = pool \cup {<<f, 1>>}
          /\ Cardinality(Of(f, pool')) = Cardinality(Of(f, pool)) + 1
      BY <1>1, <1>2, <1>3, <2>1, SlotTaken
    <3>2. QED
      BY <1>1, <1>3, <2>1, <3>1 DEF TypeOK
  <2>2. CASE status[f] = "interrupt"
    <3>1. pool' = pool
      BY <1>1, <2>2 DEF StartSend
    <3>2. QED
      BY <1>1, <1>3, <2>2, <3>1 DEF TypeOK
  <2>3. QED
    BY <2>1, <2>2
<1>6. /\ left'[f] = Chunks[f]
      /\ \A g \in File : g # f => cursor'[g] = cursor[g] /\ left'[g] = left[g]
  BY <1>1 DEF TypeOK
<1>7. stack' \in Seq(File) /\ Elements(stack') = Elements(stack) \cup {f}
  <2>1. stack \in Seq(File)
    BY DEF TypeOK
  <2>2. QED
    BY <1>1, <2>1 DEF Elements
<1>8. TypeOK'
  <2>1. cursor' \in [File -> Nat] /\ \A g \in File : cursor'[g] \in 1..Chunks[g] + 1
    <3>1. cursor' \in [File -> Nat]
      BY <1>1 DEF TypeOK
    <3>2. cursor'[f] \in 1..Chunks[f] + 1
      BY <1>3, <1>5
    <3>3. QED
      BY <1>6, <3>1, <3>2 DEF TypeOK
  <2>2. left' \in [File -> Nat]
    BY <1>1, <1>3 DEF TypeOK
  <2>3. DOMAIN retried' = File /\ \A g \in File : retried'[g] \in [1..Chunks[g] -> 0..ChunkRetry]
    <3>1. [k \in 1..Chunks[f] |-> 0] \in [1..Chunks[f] -> 0..ChunkRetry]
      BY UploaderAssumption
    <3>2. DOMAIN retried = File
      BY DEF TypeOK
    <3>3. ASSUME NEW g \in File PROVE retried'[g] \in [1..Chunks[g] -> 0..ChunkRetry]
      <4>1. retried[g] \in [1..Chunks[g] -> 0..ChunkRetry]
        BY DEF TypeOK
      <4>2. QED
        BY <1>1, <3>1, <3>2, <4>1
    <3>4. QED
      BY <1>1, <3>2, <3>3
  <2>4. ticks' \in Nat
    <3>1. ticks \in Nat
      BY DEF TypeOK
    <3>2. QED
      BY <1>1, <3>1
  <2>5. promise' \in File \cup {None} /\ transport' \subseteq Block /\ finishing' \subseteq File
    BY <1>1, <1>4 DEF TypeOK
  <2>6. QED
    BY <1>1, <1>4, <1>7, <2>1, <2>2, <2>3, <2>4, <2>5 DEF TypeOK
<1>9. SlotsHeld' /\ Counted' /\ SkipsPromise' /\ Preparing'
  BY <1>1, <1>4 DEF SlotsHeld, Counted, SkipsPromise, Preparing
<1>10. OnWireRuns'
  BY <1>1, <1>4 DEF OnWireRuns
<1>11. Waiting'
  BY <1>1, <1>2, <1>4, <1>5 DEF Waiting
<1>12. Ahead'
  <2>1. SUFFICES ASSUME NEW g \in Elements(stack'), status[g] \in Live,
                        NEW j \in 1..Chunks[g], <<g, j>> \in pool'
                 PROVE  j < cursor'[g]
    BY <1>1 DEF Ahead
  <2>2. g \in File
    BY <1>7 DEF TypeOK, Elements
  <2>3. CASE g = f
    <3>1. <<f, j>> \notin pool
      BY <1>2 DEF Of
    <3>2. cursor'[f] = 2 /\ j = 1
      BY <1>5, <2>1, <2>3, <3>1
    <3>3. QED
      BY <2>3, <3>2
  <2>4. CASE g # f
    BY <1>4, <1>6, <1>7, <2>1, <2>2, <2>4 DEF Ahead
  <2>5. QED
    BY <2>3, <2>4
<1>13. Accounted'
  <2>1. SUFFICES ASSUME NEW g \in File, status[g] \in Live
                 PROVE  /\ left'[g] = Chunks[g] + 1 - cursor'[g]
                                      + Cardinality(Of(g, pool'))
                        /\ \A j \in 1..Chunks[g] : j < cursor'[g] =>
                             <<g, j>> \in pool' \cup answered
    BY <1>1 DEF Accounted
  <2>2. CASE g = f
    <3>1. left'[f] = Chunks[f] + 1 - cursor'[f] + Cardinality(Of(f, pool'))
      <4>1. CASE cursor'[f] = 2 /\ Cardinality(Of(f, pool')) = 1
        BY <1>3, <1>6, <4>1
      <4>2. CASE cursor'[f] = 1 /\ Cardinality(Of(f, pool')) = 0
        BY <1>3, <1>6, <4>2
      <4>3. QED
        BY <1>5, <4>1, <4>2
    <3>2. ASSUME NEW j \in 1..Chunks[f], j < cursor'[f]
          PROVE  <<f, j>> \in pool'
      <4>1. CASE cursor'[f] = 2 /\ pool' = pool \cup {<<f, 1>>}
        <5>1. j = 1
          BY <3>2, <4>1
        <5>2. QED
          BY <4>1, <5>1
      <4>2. CASE cursor'[f] = 1
        BY <3>2, <4>2
      <4>3. QED
        BY <1>5, <4>1, <4>2
    <3>3. QED
      BY <2>2, <3>1, <3>2
  <2>3. CASE g # f
    <3>1. /\ left[g] = Chunks[g] + 1 - cursor[g] + Cardinality(Of(g, pool))
          /\ \A j \in 1..Chunks[g] : j < cursor[g] => <<g, j>> \in pool \cup answered
      BY <1>1, <2>1, <2>3 DEF Accounted
    <3>2. QED
      BY <1>4, <1>6, <2>3, <3>1
  <2>4. QED
    BY <2>2, <2>3
<1>14. Finishing' /\ Removed' /\ CompleteMeansAnswered'
  BY <1>1, <1>4 DEF Finishing, AllAnswered, Removed, CompleteMeansAnswered,
                    WithStatus
<1>15. QED
  BY <1>8, <1>9, <1>10, <1>11, <1>12, <1>13, <1>14


--------------------------------------------------------------------------------
(* A file that fails or is finished keeps the invariant.                    *)

(* The uploadComplete handler gives up what is on the wire for the file;    *)
(* preparation ends with it if it is the file being prepared.               *)
LEMMA EndKeeps ==
  ASSUME UploadInv, NEW f \in File, NEW s \in {"error", "complete"},
         NEW more \in Nat, UploadComplete(f, more),
         status' = [status EXCEPT ![f] = s],
         s = "complete" => f \in dequeued \/ AllAnswered(f),
         finishing' \subseteq finishing \ {f},
         \/ promise \in {f, None} /\ promise' = None /\ skipping' = FALSE
         \/ promise # f /\ promise' = promise /\ skipping' = skipping,
         UNCHANGED <<queue, sending, retried, stack, cursor, runing, progress,
                     trigged, finished, clicks, dequeued, answered>>
  PROVE  UploadInv'
<1> USE DEF UploadInv
<1> DEFINE gone == Of(f, transport)
<1>0. /\ status \in [File -> Status] /\ left \in [File -> Nat]
      /\ transport' = transport \ gone /\ left' = [left EXCEPT ![f] = 0]
  BY DEF TypeOK, UploadComplete, DestroyTransports
<1>1. /\ status'[f] = s
      /\ \A g \in File : g # f => status'[g] = status[g] /\ left'[g] = left[g]
  BY <1>0
<1>2. Pop(gone, more) /\ gone \subseteq pool
  BY DEF UploadComplete, DestroyTransports, SlotsHeld, Of
<1>3. /\ pool' = pool \ gone /\ IsFiniteSet(pool')
      /\ Cardinality(pool') <= Cardinality(pool)
      /\ remaning' = Cardinality(pool') /\ remaning' \in Nat
      /\ Cardinality(gone) \in Nat
      /\ ticks' = ticks + Cardinality(gone) + more
  BY <1>2, PopFrees
<1>4. /\ gone \subseteq transport /\ \A b \in gone : b[1] = f
      /\ \A g \in File : g # f => Of(g, pool') = Of(g, pool)
      /\ \A g : Of(g, pool') \subseteq Of(g, pool)
  BY <1>3 DEF Of
<1> HIDE DEF gone
<1>5. TypeOK'
  <2>1. status' \in [File -> Status]
    BY <1>0 DEF Status
  <2>2. left' \in [File -> Nat]
    BY <1>0
  <2>3. ticks' \in Nat
    <3>1. ticks \in Nat
      BY DEF TypeOK
    <3>2. QED
      BY <1>3, <3>1
  <2>4. pool' \subseteq Block /\ transport' \subseteq Block /\ finishing' \subseteq File
    BY <1>0, <1>3 DEF TypeOK
  <2>5. promise' \in File \cup {None} /\ skipping' \in BOOLEAN
    BY DEF TypeOK
  <2>6. QED
    BY <1>0, <1>3, <2>1, <2>2, <2>3, <2>4, <2>5 DEF TypeOK
<1>6. SlotsHeld'
  BY <1>0, <1>3, <1>4 DEF SlotsHeld
<1>7. Counted'
  <2>1. Cardinality(pool) \in Nat /\ Cardinality(pool') \in Nat /\ Threads \in Nat
    BY <1>3, FS_CardinalityType, UploaderAssumption DEF Counted
  <2>2. QED
    BY <1>0, <1>3, <2>1 DEF Counted
<1>8. OnWireRuns'
  <2>1. \A w \in transport' : w \in transport /\ w[1] \in File /\ w[1] # f
    BY <1>0, BlockParts DEF TypeOK, Of, gone
  <2>2. QED
    BY <1>1, <2>1 DEF OnWireRuns
<1>9. Waiting'
  BY <1>1, <1>4 DEF Waiting
<1>10. Preparing' /\ SkipsPromise'
  <2>1. CASE promise' = None /\ skipping' = FALSE
    BY <2>1 DEF Preparing, SkipsPromise
  <2>2. CASE promise # f /\ promise' = promise /\ skipping' = skipping
    <3>1. SkipsPromise'
      BY <2>2 DEF SkipsPromise
    <3>2. promise # None => Cardinality(pool') < Threads
      <4>1. Cardinality(pool) \in Nat /\ Cardinality(pool') \in Nat /\ Threads \in Nat
        BY <1>3, FS_CardinalityType, UploaderAssumption DEF Counted
      <4>2. QED
        BY <1>3, <4>1 DEF Preparing
    <3>3. promise # None => Of(promise, pool') = {}
      BY <1>4 DEF Preparing
    <3>4. promise # None => status'[promise] = status[promise]
      BY <1>1, <2>2 DEF TypeOK
    <3>5. Preparing'
      BY <2>2, <3>2, <3>3, <3>4 DEF Preparing
    <3>6. QED
      BY <3>1, <3>5
  <2>3. QED
    BY <2>1, <2>2
<1>11. Ahead'
  <2>1. Elements(stack) \subseteq File
    BY DEF TypeOK, Elements
  <2>2. QED
    BY <1>0, <1>1, <1>3, <2>1 DEF Ahead, Live
<1>12. Accounted'
  <2>1. SUFFICES ASSUME NEW g \in File, status'[g] \in Live, g # promise'
                 PROVE  /\ left[g] = Chunks[g] + 1 - cursor[g] + Cardinality(Of(g, pool))
                        /\ \A k \in 1..Chunks[g] :
                             k < cursor[g] => <<g, k>> \in pool' \cup answered
    <3>1. \A g \in File : status'[g] \in Live => g # f
      BY <1>1 DEF Live
    <3>2. QED
      BY <1>1, <1>4, <2>1, <3>1 DEF Accounted
  <2>2. g # f /\ status[g] \in Live
    BY <1>1, <2>1 DEF Live
  <2>3. \A k : <<g, k>> \in pool => <<g, k>> \in pool'
    BY <1>3, <1>4, <2>2
  <2>4. g # promise
    <3>1. CASE promise \in {f, None}
      BY <2>1, <2>2, <3>1, UploaderAssumption
    <3>2. CASE promise' = promise
      BY <2>1, <3>2
    <3>3. QED
      BY <3>1, <3>2
  <2>5. QED
    BY <2>2, <2>3, <2>4 DEF Accounted
<1>13. Finishing'
  <2>1. finishing \subseteq File
    BY DEF TypeOK
  <2>2. QED
    BY <1>1, <2>1 DEF Finishing, AllAnswered
<1>14. Removed'
  BY <1>1 DEF Removed
<1>15. CompleteMeansAnswered'
  BY <1>1 DEF CompleteMeansAnswered, WithStatus, AllAnswered
<1>16. QED
  BY <1>5, <1>6, <1>7, <1>8, <1>9, <1>10, <1>11, <1>12, <1>13, <1>14, <1>15


LEMMA PrepareFailsKeeps ==
  ASSUME UploadInv, NEW f \in File, PrepareFails(f)
  PROVE  UploadInv'
<1>1. /\ promise = f /\ ~skipping /\ promise' = None
      /\ status' = [status EXCEPT ![f] = "error"]
      /\ UploadComplete(f, 1)
      /\ UNCHANGED <<queue, sending, retried, finishing, skipping, stack, cursor,
                     runing, progress, trigged, finished, clicks, dequeued,
                     answered>>
  BY DEF PrepareFails, flagVars, logVars
<1>2. f \notin finishing /\ skipping' = FALSE
  BY <1>1, UploaderAssumption DEF UploadInv, Preparing, TypeOK
<1>3. finishing' \subseteq finishing \ {f}
  BY <1>1, <1>2
<1>4. QED
  BY <1>1, <1>2, <1>3, EndKeeps

LEMMA FinishSkippedKeeps ==
  ASSUME UploadInv, NEW f \in File, FinishSkipped(f)
  PROVE  UploadInv'
<1>1. /\ promise = f /\ skipping /\ promise' = None /\ skipping' = FALSE
      /\ status' = [status EXCEPT ![f] = "complete"]
      /\ UploadComplete(f, 1)
      /\ UNCHANGED <<queue, sending, retried, finishing, stack, cursor,
                     runing, progress, trigged, finished, clicks, dequeued,
                     answered>>
  BY DEF FinishSkipped, flagVars, logVars
<1>2. f \notin finishing /\ f \in dequeued
  BY <1>1, UploaderAssumption DEF UploadInv, Preparing
<1>3. finishing' \subseteq finishing \ {f}
  BY <1>1, <1>2
<1>4. QED
  BY <1>1, <1>2, <1>3, EndKeeps

LEMMA FailKeeps ==
  ASSUME UploadInv, NEW f \in File, NEW k \in 1..Chunks[f], Fail(f, k)
  PROVE  UploadInv'
<1>1. /\ <<f, k>> \in transport /\ f \notin finishing
      /\ status' = [status EXCEPT ![f] = "error"]
      /\ UploadComplete(f, 0)
      /\ UNCHANGED <<queue, sending, retried, finishing, promise, skipping, stack,
                     cursor, runing, progress, trigged, finished, clicks, dequeued,
                     answered>>
  BY DEF Fail, OnWire, cutVars, flagVars, logVars
<1>2. promise # f
  BY <1>1, UploaderAssumption DEF UploadInv, Preparing, SlotsHeld, Of
<1>3. finishing' \subseteq finishing \ {f}
  BY <1>1
<1>4. QED
  BY <1>1, <1>2, <1>3, EndKeeps

(* after-send-file comes only after the last block of the file is answered, *)
(* unless the file was removed.                                             *)
LEMMA FinishFileKeeps ==
  ASSUME UploadInv, NEW f \in File, FinishFile(f)
  PROVE  UploadInv'
<1>1. /\ f \in finishing /\ finishing' = finishing \ {f}
      /\ status' = [status EXCEPT ![f] = "complete"]
      /\ UploadComplete(f, 0)
      /\ UNCHANGED <<queue, sending, retried, promise, skipping, stack, cursor,
                     runing, progress, trigged, finished, clicks, dequeued,
                     answered>>
  BY DEF FinishFile, cutVars, flagVars, logVars
<1>2. promise # f /\ (f \in dequeued \/ AllAnswered(f))
  BY <1>1, UploaderAssumption DEF UploadInv, Preparing, Finishing
<1>3. finishing' \subseteq finishing \ {f}
  BY <1>1
<1>4. QED
  BY <1>1, <1>2, <1>3, EndKeeps


--------------------------------------------------------------------------------
(* Blocks under way keep the invariant.                                     *)

(* A block that gives its slot back: its file has one block less in the     *)
(* pool, every other file as many as before.                                *)
LEMMA SlotFreed ==
  ASSUME UploadInv, NEW f \in File, NEW k \in 1..Chunks[f], <<f, k>> \in pool,
         Pop({<<f, k>>}, 0)
  PROVE  /\ pool' = pool \ {<<f, k>>} /\ IsFiniteSet(pool') /\ pool' \subseteq Block
         /\ remaning' = Cardinality(pool') /\ remaning' \in Nat
         /\ Cardinality(pool') <= Cardinality(pool)
         /\ Cardinality(pool') <= Threads
         /\ ticks' \in Nat
         /\ Cardinality(Of(f, pool)) \in Nat \ {0}
         /\ Cardinality(Of(f, pool')) = Cardinality(Of(f, pool)) - 1
         /\ \A g : g # f => Of(g, pool') = Of(g, pool)
         /\ \A g : Of(g, pool') \subseteq Of(g, pool)
<1>1. {<<f, k>>} \in SUBSET pool
  OBVIOUS
<1>2. /\ pool' = pool \ {<<f, k>>} /\ IsFiniteSet(pool')
      /\ remaning' = Cardinality(pool') /\ remaning' \in Nat
      /\ Cardinality(pool') <= Cardinality(pool)
      /\ ticks' = ticks + Cardinality({<<f, k>>}) + 0
      /\ Cardinality({<<f, k>>}) \in Nat
  BY <1>1, PopFrees
<1>3. ticks' \in Nat
  <2>1. ticks \in Nat
    BY DEF UploadInv, TypeOK
  <2>2. QED
    BY <1>2, <2>1
<1>4. Cardinality(pool') <= Threads
  <2>1. /\ Cardinality(pool) \in Nat /\ Cardinality(pool') \in Nat /\ Threads \in Nat
        /\ Cardinality(pool) <= Threads
    BY <1>2, FS_CardinalityType, UploaderAssumption DEF UploadInv, Counted
  <2>2. QED
    BY <1>2, <2>1
<1>5. /\ Of(f, pool') = Of(f, pool) \ {<<f, k>>} /\ <<f, k>> \in Of(f, pool)
      /\ \A g : g # f => Of(g, pool') = Of(g, pool)
      /\ \A g : Of(g, pool') \subseteq Of(g, pool)
  BY <1>2 DEF Of
<1>6. IsFiniteSet(Of(f, pool))
  BY FS_Subset, OfParts DEF UploadInv, Counted
<1>7. Cardinality(Of(f, pool')) = Cardinality(Of(f, pool)) - 1
  BY <1>5, <1>6, FS_RemoveElement
<1>8. Cardinality(Of(f, pool)) \in Nat /\ Cardinality(Of(f, pool)) # 0
  BY <1>5, <1>6, FS_EmptySet, FS_CardinalityType
<1>9. pool' \subseteq Block
  BY <1>2 DEF UploadInv, TypeOK
<1>10. QED
  BY <1>2, <1>3, <1>4, <1>5, <1>7, <1>8, <1>9

(* before-send lets the block go: it moves onto the wire. *)
LEMMA BeforeSendSends ==
  ASSUME UploadInv, NEW f \in File, NEW k \in 1..Chunks[f], BeforeSend(f, k),
         status[f] = "progress"
  PROVE  UploadInv'
<1> USE DEF UploadInv
<1>1. /\ <<f, k>> \in sending /\ sending' = sending \ {<<f, k>>}
      /\ transport' = transport \cup {<<f, k>>}
      /\ UNCHANGED <<status, queue, pool, remaning, left, ticks, retried, finishing,
                     promise, skipping, stack, cursor, runing, progress, trigged,
                     finished, clicks, dequeued, answered>>
  BY DEF BeforeSend, cutVars, flagVars, logVars
<1>2. TypeOK'
  <2>1. sending' \subseteq Block /\ transport' \subseteq Block
    BY <1>1 DEF TypeOK
  <2>2. QED
    BY <1>1, <2>1 DEF TypeOK
<1>3. SlotsHeld'
  BY <1>1 DEF SlotsHeld
<1>4. OnWireRuns'
  BY <1>1 DEF OnWireRuns
<1>5. Counted' /\ SkipsPromise' /\ Waiting' /\ Preparing' /\ Ahead' /\ Accounted'
  BY <1>1 DEF Counted, SkipsPromise, Waiting, Preparing, Ahead, Accounted
<1>6. Finishing' /\ Removed' /\ CompleteMeansAnswered'
  BY <1>1 DEF Finishing, AllAnswered, Removed, CompleteMeansAnswered, WithStatus
<1>7. QED
  BY <1>2, <1>3, <1>4, <1>5, <1>6

(* Its file is no longer under way: the block gives its slot back.  The     *)
(* file is not interrupted either, for then it would have no block.         *)
LEMMA BeforeSendGivesUp ==
  ASSUME UploadInv, NEW f \in File, NEW k \in 1..Chunks[f], BeforeSend(f, k),
         status[f] # "progress"
  PROVE  UploadInv'
<1> USE DEF UploadInv
<1>1. /\ <<f, k>> \in sending /\ sending' = sending \ {<<f, k>>}
      /\ Pop({<<f, k>>}, 0)
      /\ left' = [left EXCEPT ![f] = Minus(@, 1)]
      /\ UNCHANGED <<status, queue, transport, retried, finishing,
                     promise, skipping, stack, cursor, runing, progress, trigged,
                     finished, clicks, dequeued, answered>>
  BY DEF BeforeSend, cutVars, flagVars, logVars
<1>2. <<f, k>> \in pool /\ <<f, k>> \notin transport /\ <<f, k>> \in Of(f, pool)
  BY <1>1 DEF SlotsHeld, Of
<1>3. /\ pool' = pool \ {<<f, k>>} /\ IsFiniteSet(pool') /\ pool' \subseteq Block
      /\ remaning' = Cardinality(pool') /\ remaning' \in Nat
      /\ Cardinality(pool') <= Cardinality(pool)
      /\ Cardinality(pool') <= Threads
      /\ ticks' \in Nat
      /\ \A g : g # f => Of(g, pool') = Of(g, pool)
      /\ \A g : Of(g, pool') \subseteq Of(g, pool)
  BY <1>1, <1>2, SlotFreed
<1>4. status[f] \notin Live /\ promise # f
  BY <1>2, UploaderAssumption DEF Waiting, Preparing, Live
<1>5. left' \in [File -> Nat] /\ \A g \in File : g # f => left'[g] = left[g]
  <2>1. left \in [File -> Nat]
    BY DEF TypeOK
  <2>2. Minus(left[f], 1) \in Nat
    BY <2>1 DEF Minus
  <2>3. QED
    BY <1>1, <2>1, <2>2
<1>6. TypeOK'
  <2>1. sending' \subseteq Block
    BY <1>1 DEF TypeOK
  <2>2. QED
    BY <1>1, <1>3, <1>5, <2>1 DEF TypeOK
<1>7. SlotsHeld' /\ Counted' /\ SkipsPromise' /\ OnWireRuns'
  BY <1>1, <1>2, <1>3 DEF SlotsHeld, Counted, SkipsPromise, OnWireRuns
<1>8. Waiting'
  BY <1>1, <1>3 DEF Waiting
<1>9. Preparing'
  <2>1. promise # None => Cardinality(pool') < Threads
    <3>1. Cardinality(pool) \in Nat /\ Cardinality(pool') \in Nat /\ Threads \in Nat
      BY <1>3, FS_CardinalityType, UploaderAssumption DEF Counted
    <3>2. QED
      BY <1>3, <3>1 DEF Preparing
  <2>2. promise # None => Of(promise, pool') = {}
    BY <1>3 DEF Preparing
  <2>3. QED
    BY <1>1, <2>1, <2>2 DEF Preparing
<1>10. Ahead'
  BY <1>1, <1>3 DEF Ahead
<1>11. Accounted'
  <2>1. \A g \in File : g # f => \A j : <<g, j>> \in pool => <<g, j>> \in pool'
    BY <1>3
  <2>2. QED
    BY <1>1, <1>3, <1>4, <1>5, <2>1 DEF Accounted
<1>12. Finishing' /\ Removed' /\ CompleteMeansAnswered'
  BY <1>1 DEF Finishing, AllAnswered, Removed, CompleteMeansAnswered, WithStatus
<1>13. QED
  BY <1>6, <1>7, <1>8, <1>9, <1>10, <1>11, <1>12


(* The answer to the last block left of the file: no block of it is before  *)
(* the cursor or in the pool but this one, so that all are answered.        *)
LEMMA LoadFinishes ==
  ASSUME UploadInv, NEW f \in File, NEW k \in 1..Chunks[f], Load(f, k), left[f] = 1
  PROVE  UploadInv'
<1> USE DEF UploadInv
<1>1. /\ <<f, k>> \in transport /\ f \notin finishing
      /\ answered' = answered \cup {<<f, k>>}
      /\ finishing' = finishing \cup {f}
      /\ UNCHANGED <<pool, remaning, transport, left, ticks, status, queue, sending,
                     retried, promise, skipping, stack, cursor, runing, progress,
                     trigged, finished, clicks, dequeued>>
  BY DEF Load, OnWire, cutVars, flagVars
<1>2. /\ status[f] \in {"progress", "complete"}
      /\ <<f, k>> \in Of(f, pool) /\ promise # f
  <2>1. <<f, k>> \in Of(f, pool)
    BY <1>1 DEF SlotsHeld, Of
  <2>2. promise # f
    BY <2>1, UploaderAssumption DEF Preparing
  <2>3. <<f, k>>[1] = f
    OBVIOUS
  <2>4. QED
    BY <1>1, <2>1, <2>2, <2>3 DEF OnWireRuns
<1>3. f \notin dequeued => AllAnswered(f)'
  <2>0. ASSUME f \notin dequeued, status[f] = "complete" PROVE AllAnswered(f)'
    BY <1>1, <2>0 DEF CompleteMeansAnswered, WithStatus, AllAnswered
  <2>1. SUFFICES ASSUME f \notin dequeued, status[f] = "progress",
                        NEW j \in 1..Chunks[f]
                 PROVE  <<f, j>> \in answered'
    BY <1>2, <2>0 DEF AllAnswered
  <2>2. /\ left[f] = Chunks[f] + 1 - cursor[f] + Cardinality(Of(f, pool))
        /\ j < cursor[f] => <<f, j>> \in pool \cup answered
    BY <1>2, <2>1 DEF Accounted, Live
  <2> DEFINE n == Cardinality(Of(f, pool))
  <2>3. IsFiniteSet(Of(f, pool)) /\ n \in Nat /\ n # 0
    <3>1. IsFiniteSet(Of(f, pool))
      BY FS_Subset, OfParts DEF Counted
    <3>2. QED
      BY <1>2, <3>1, FS_CardinalityType, FS_EmptySet
  <2>4. cursor[f] \in 1..Chunks[f] + 1 /\ Chunks[f] \in Nat
    BY UploaderAssumption DEF TypeOK
  <2>5. n = 1 /\ j < cursor[f]
    <3> HIDE DEF n
    <3>1. Chunks[f] + 1 - cursor[f] + n = 1
      BY <2>2 DEF n
    <3>2. QED
      BY <2>3, <2>4, <3>1
  <2>6. Of(f, pool) = {<<f, k>>}
    BY <1>2, <2>3, <2>5, FS_Singleton
  <2>7. <<f, j>> \in pool => <<f, j>> = <<f, k>>
    BY <2>6 DEF Of
  <2>8. QED
    BY <1>1, <2>2, <2>5, <2>7
<1>4. TypeOK'
  <2>1. answered' \subseteq Block /\ finishing' \subseteq File
    BY <1>1, BlockOf DEF TypeOK
  <2>2. QED
    BY <1>1, <2>1 DEF TypeOK
<1>5. SlotsHeld' /\ Counted' /\ SkipsPromise' /\ OnWireRuns' /\ Waiting' /\ Ahead'
  BY <1>1 DEF SlotsHeld, Counted, SkipsPromise, OnWireRuns, Waiting, Ahead
<1>6. Preparing'
  BY <1>1, <1>2 DEF Preparing
<1>7. Accounted'
  BY <1>1 DEF Accounted
<1>8. Finishing'
  BY <1>1, <1>2, <1>3 DEF Finishing, AllAnswered
<1>9. Removed' /\ CompleteMeansAnswered'
  BY <1>1 DEF Removed, CompleteMeansAnswered, WithStatus
<1>10. QED
  BY <1>4, <1>5, <1>6, <1>7, <1>8, <1>9

(* The answer to any other block. *)
LEMMA LoadGoesOn ==
  ASSUME UploadInv, NEW f \in File, NEW k \in 1..Chunks[f], Load(f, k), left[f] # 1
  PROVE  UploadInv'
<1> USE DEF UploadInv
<1>1. /\ <<f, k>> \in transport /\ f \notin finishing
      /\ answered' = answered \cup {<<f, k>>}
      /\ transport' = transport \ {<<f, k>>}
      /\ Pop({<<f, k>>}, 0)
      /\ left' = [left EXCEPT ![f] = Minus(@, 1)]
      /\ UNCHANGED <<finishing, status, queue, sending, retried, promise, skipping,
                     stack, cursor, runing, progress, trigged, finished, clicks,
                     dequeued>>
  BY DEF Load, OnWire, cutVars, flagVars
<1>2. <<f, k>> \in pool /\ <<f, k>> \notin sending
  BY <1>1 DEF SlotsHeld
<1>3. /\ pool' = pool \ {<<f, k>>} /\ IsFiniteSet(pool') /\ pool' \subseteq Block
      /\ remaning' = Cardinality(pool') /\ remaning' \in Nat
      /\ Cardinality(pool') <= Cardinality(pool)
      /\ Cardinality(pool') <= Threads
      /\ ticks' \in Nat
      /\ Cardinality(Of(f, pool)) \in Nat \ {0}
      /\ Cardinality(Of(f, pool')) = Cardinality(Of(f, pool)) - 1
      /\ \A g : g # f => Of(g, pool') = Of(g, pool)
      /\ \A g : Of(g, pool') \subseteq Of(g, pool)
  BY <1>1, <1>2, SlotFreed
<1>4. /\ left \in [File -> Nat] /\ left'[f] = Minus(left[f], 1)
      /\ left' \in [File -> Nat]
      /\ \A g \in File : g # f => left'[g] = left[g]
  <2>1. left \in [File -> Nat]
    BY DEF TypeOK
  <2>2. Minus(left[f], 1) \in Nat
    BY <2>1 DEF Minus
  <2>3. QED
    BY <1>1, <2>1, <2>2
<1>5. TypeOK'
  <2>1. answered' \subseteq Block /\ transport' \subseteq Block
    BY <1>1, BlockOf DEF TypeOK
  <2>2. QED
    BY <1>1, <1>3, <1>4, <2>1 DEF TypeOK
<1>6. SlotsHeld' /\ Counted' /\ SkipsPromise' /\ OnWireRuns'
  BY <1>1, <1>2, <1>3 DEF SlotsHeld, Counted, SkipsPromise, OnWireRuns
<1>7. Waiting'
  BY <1>1, <1>3 DEF Waiting
<1>8. Preparing'
  <2>1. promise # None => Cardinality(pool') < Threads
    <3>1. Cardinality(pool) \in Nat /\ Cardinality(pool') \in Nat /\ Threads \in Nat
      BY <1>3, FS_CardinalityType, UploaderAssumption DEF Counted
    <3>2. QED
      BY <1>3, <3>1 DEF Preparing
  <2>2. promise # None => Of(promise, pool') = {}
    BY <1>3 DEF Preparing
  <2>3. QED
    BY <1>1, <2>1, <2>2 DEF Preparing
<1>9. Ahead'
  BY <1>1, <1>3 DEF Ahead
<1>10. Accounted'
  <2>1. SUFFICES ASSUME NEW g \in File, status[g] \in Live, g # promise
                 PROVE  /\ left'[g] = Chunks[g] + 1 - cursor[g]
                                      + Cardinality(Of(g, pool'))
                        /\ \A j \in 1..Chunks[g] : j < cursor[g] =>
                             <<g, j>> \in pool' \cup answered'
    BY <1>1 DEF Accounted
  <2>2. /\ left[g] = Chunks[g] + 1 - cursor[g] + Cardinality(Of(g, pool))
        /\ \A j \in 1..Chunks[g] : j < cursor[g] => <<g, j>> \in pool \cup answered
    BY <2>1 DEF Accounted
  <2>3. \A j \in 1..Chunks[g] : j < cursor[g] => <<g, j>> \in pool' \cup answered'
    BY <1>1, <1>3, <2>2
  <2>4. CASE g = f
    <3> DEFINE n == Cardinality(Of(f, pool))  c == Chunks[f]  u == cursor[f]
    <3>1. c \in Nat /\ u \in 1..c + 1 /\ n \in Nat \ {0} /\ left[f] \in Nat
      BY <1>3, <1>4, UploaderAssumption DEF TypeOK
    <3>2. left[f] = c + 1 - u + n /\ left[f] # 1
      BY <2>2, <2>4
    <3> HIDE DEF n, c, u
    <3>3. left[f] > 1
      BY <3>1, <3>2
    <3>4. left'[f] = left[f] - 1
      BY <1>4, <3>3 DEF Minus
    <3>5. left'[f] = c + 1 - u + (n - 1)
      BY <3>1, <3>2, <3>4
    <3>6. QED
      BY <1>3, <2>3, <2>4, <3>5 DEF n, c, u
  <2>5. CASE g # f
    BY <1>3, <1>4, <2>2, <2>3, <2>5
  <2>6. QED
    BY <2>4, <2>5
<1>11. Finishing' /\ Removed' /\ CompleteMeansAnswered'
  BY <1>1 DEF Finishing, AllAnswered, Removed, CompleteMeansAnswered, WithStatus
<1>12. QED
  BY <1>5, <1>6, <1>7, <1>8, <1>9, <1>10, <1>11


--------------------------------------------------------------------------------
(* The engine by itself.                                                    *)

LEMMA InitGives == ASSUME Init PROVE UploadInv
<1> USE DEF Init
<1>1. TypeOK
  <2>1. <<>> \in Seq(File)
    OBVIOUS
  <2>2. \A f \in File : 1 \in 1..Chunks[f] + 1
    BY UploaderAssumption
  <2>3. retried = [f \in File |-> [k \in 1..Chunks[f] |-> 0]]
    OBVIOUS
  <2>4. \A f \in File : retried[f] \in [1..Chunks[f] -> 0..ChunkRetry]
    BY <2>3, UploaderAssumption
  <2>5. status \in [File -> Status] /\ left \in [File -> Nat]
    BY DEF Status
  <2>6. cursor \in [File -> Nat] /\ \A f \in File : cursor[f] \in 1..Chunks[f] + 1
    BY <2>2
  <2>7. runing \in BOOLEAN /\ progress \in BOOLEAN /\ trigged \in BOOLEAN
        /\ skipping \in BOOLEAN
    OBVIOUS
  <2>8. {remaning, ticks, finished, clicks} \subseteq Nat
    OBVIOUS
  <2>9. DOMAIN retried = File
    BY <2>3
  <2>10. QED
    BY <2>1, <2>4, <2>5, <2>6, <2>7, <2>8, <2>9 DEF TypeOK
<1>2. Counted
  BY FS_EmptySet, UploaderAssumption DEF Counted
<1>3. Elements(stack) = {}
  BY DEF Elements
<1>4. /\ SlotsHeld /\ OnWireRuns /\ Waiting /\ Preparing /\ SkipsPromise /\ Ahead
      /\ Finishing
  BY <1>3 DEF SlotsHeld, OnWireRuns, Waiting, Preparing, SkipsPromise, Ahead,
              Finishing, Of
<1>5. Accounted /\ Removed /\ CompleteMeansAnswered
  BY DEF Accounted, Removed, CompleteMeansAnswered, WithStatus, Live
<1>6. QED
  BY <1>1, <1>2, <1>4, <1>5 DEF UploadInv

LEMMA UnchangedKeeps == ASSUME UploadInv, UNCHANGED vars PROVE UploadInv'
<1>1. UNCHANGED bodyVars /\ TypeOK'
  BY DEF UploadInv, vars, bodyVars, TypeOK, netVars, cutVars, flagVars, dueVars,
         logVars
<1>2. QED
  BY <1>1, BodyKept

(* The callbacks of one file, whoever drives the engine. *)
LEMMA CallbackKeeps ==
  ASSUME UploadInv, NEW f \in File,
         \/ Prepared(f) \/ PrepareFails(f) \/ FinishSkipped(f) \/ FinishFile(f)
         \/ \E k \in 1..Chunks[f] :
              BeforeSend(f, k) \/ Load(f, k) \/ Resend(f, k) \/ Fail(f, k)
  PROVE  UploadInv'
<1>1. ASSUME Prepared(f) PROVE UploadInv'
  BY <1>1, PreparedCuts, PreparedSkips
<1>2. ASSUME NEW k \in 1..Chunks[f], BeforeSend(f, k) PROVE UploadInv'
  BY <1>2, BeforeSendSends, BeforeSendGivesUp
<1>3. ASSUME NEW k \in 1..Chunks[f], Load(f, k) PROVE UploadInv'
  BY <1>3, LoadFinishes, LoadGoesOn
<1>4. QED
  BY <1>1, <1>2, <1>3, PrepareFailsKeeps, FinishSkippedKeeps, FinishFileKeeps,
     ResendKeeps, FailKeeps

LEMMA NextKeeps == ASSUME UploadInv, [Next]_vars PROVE UploadInv'
<1>1. CASE UNCHANGED vars
  BY <1>1, UnchangedKeeps
<1>2. CASE User
  <2>1. ASSUME NEW f \in File, AddFile(f) \/ RemoveFile(f) PROVE UploadInv'
    BY <2>1, AddFileKeeps, RemoveFileKeeps
  <2>2. QED
    BY <1>2, <2>1, UploadKeeps, StopKeeps, RetryKeeps DEF User
<1>3. CASE Timer
  BY <1>3, TickSendKeeps, TickFetchKeeps, TickIdleKeeps, UploadFinishedKeeps,
     CallbackKeeps DEF Timer
<1>4. CASE Outside
  BY <1>4, CallbackKeeps DEF Outside
<1>5. QED
  BY <1>1, <1>2, <1>3, <1>4 DEF Next

(* The engine keeps its inductive invariant. *)
THEOREM Inductive == Spec => []UploadInv
<1>1. Init => UploadInv
  BY InitGives
<1>2. UploadInv /\ [Next]_vars => UploadInv'
  BY NextKeeps
<1>3. QED
  BY <1>1, <1>2, PTL DEF Spec

(* Every variable of the engine has its type. *)
THEOREM TypeCorrect == Spec => []TypeOK
<1>1. UploadInv => TypeOK
  BY DEF UploadInv
<1>2. QED
  BY <1>1, Inductive, PTL

(* At most Threads blocks are under way, whatever the number of files and   *)
(* chunks, and the engine's count of them is right (_tick, _popBlock).      *)
THEOREM SlotsAreCounted == Spec => []SlotLimit
<1>1. UploadInv => SlotLimit
  BY DEF UploadInv, Counted, SlotLimit
<1>2. QED
  BY <1>1, Inductive, PTL

(* Each slot is held by one block that a callback will release: none leaks. *)
THEOREM SlotsDoNotLeak == Spec => []SlotsHeld
<1>1. UploadInv => SlotsHeld
  BY DEF UploadInv
<1>2. QED
  BY <1>1, Inductive, PTL

(* A file shown as uploaded and not removed has every chunk answered, for   *)
(* files of any number of chunks: file.remaning is right whenever it is 1.  *)
THEOREM CompleteIsAnswered == Spec => []CompleteMeansAnswered
<1>1. UploadInv => CompleteMeansAnswered
  BY DEF UploadInv
<1>2. QED
  BY <1>1, Inductive, PTL

(* No block of an earlier attempt is under way when a file is cut. *)
THEOREM CutsAreFresh == Spec => []CutFresh
<1>1. UploadInv => CutFresh
  BY DEF UploadInv, Preparing, CutFresh
<1>2. QED
  BY <1>1, Inductive, PTL

(* A failed file has no transport, is not being prepared and not finishing: *)
(* only retry() and removeFile() change its status.                         *)
LEMMA ErrorStep ==
  ASSUME UploadInv, [Next]_vars, NEW f \in WithStatus("error")
  PROVE  status'[f] \in {"error", "queued", "cancelled"}
<1>1. /\ f \in File /\ status[f] = "error" /\ status \in [File -> Status]
      /\ f # promise /\ f \notin finishing
      /\ \A k : <<f, k>> \notin transport
  <2>1. f \in File /\ status[f] = "error" /\ status \in [File -> Status]
    BY DEF WithStatus, UploadInv, TypeOK
  <2>2. f # promise
    BY <2>1, UploaderAssumption DEF UploadInv, Preparing, Live
  <2>3. f \notin finishing
    BY <2>1 DEF UploadInv, Finishing
  <2>4. \A k : <<f, k>> \notin transport
    BY <2>1 DEF UploadInv, OnWireRuns
  <2>5. QED
    BY <2>1, <2>2, <2>3, <2>4
<1>2. CASE UNCHANGED vars
  BY <1>1, <1>2 DEF vars
<1>3. CASE User
  <2>1. ASSUME NEW g \in File, AddFile(g) \/ RemoveFile(g)
        PROVE  status'[f] \in {"error", "cancelled"}
    BY <1>1, <2>1 DEF AddFile, RemoveFile
  <2>2. ASSUME Upload PROVE status'[f] = "error"
    BY <1>1, <2>2 DEF Upload, StartUpload
  <2>3. ASSUME Retry PROVE status'[f] = "queued"
    BY <1>1, <2>3 DEF Retry, StartUpload
  <2>4. ASSUME Stop PROVE status'[f] = "error"
    BY <1>1, <2>4 DEF Stop
  <2>5. QED
    BY <1>3, <2>1, <2>2, <2>3, <2>4 DEF User
<1>4. CASE Timer
  <2>1. ASSUME TickFetch PROVE status'[f] = "error"
    <3>1. queue \in Seq(File) /\ CanFetch
      BY <2>1 DEF UploadInv, TypeOK, TickFetch
    <3>2. FirstQueued \in 1..Len(queue) /\ status[queue[FirstQueued]] = "queued"
      BY <3>1, FirstQueuedIs
    <3>3. QED
      BY <1>1, <2>1, <3>2 DEF TickFetch
  <2>2. ASSUME TickSend \/ TickIdle \/ UploadFinished PROVE status'[f] = "error"
    BY <1>1, <2>2 DEF TickSend, TickIdle, UploadFinished
  <2>3. ASSUME NEW g \in File, Prepared(g) \/ FinishSkipped(g) \/ FinishFile(g)
        PROVE  status'[f] = "error"
    BY <1>1, <2>3 DEF Prepared, FinishSkipped, FinishFile
  <2>4. ASSUME NEW g \in File, NEW k \in 1..Chunks[g], BeforeSend(g, k)
        PROVE  status'[f] = "error"
    BY <1>1, <2>4 DEF BeforeSend
  <2>5. QED
    BY <1>4, <2>1, <2>2, <2>3, <2>4 DEF Timer
<1>5. CASE Outside
  <2>1. ASSUME NEW g \in File, PrepareFails(g) PROVE status'[f] = "error"
    BY <1>1, <2>1 DEF PrepareFails
  <2>2. ASSUME NEW g \in File, NEW k \in 1..Chunks[g],
               Load(g, k) \/ Resend(g, k) \/ Fail(g, k)
        PROVE  status'[f] = "error"
    BY <1>1, <2>2 DEF Load, Resend, Fail, OnWire
  <2>3. QED
    BY <1>5, <2>1, <2>2 DEF Outside
<1>6. QED
  BY <1>2, <1>3, <1>4, <1>5 DEF Next

(* The file being prepared is not shown as uploaded.  (In the dialog it may *)
(* be: SuccessThrows.)                                                      *)
PromiseOpen == promise # None => status[promise] # "complete"

LEMMA PromiseStaysOpen ==
  ASSUME UploadInv, PromiseOpen, [Next]_vars
  PROVE  PromiseOpen'
<1>1. /\ status \in [File -> Status] /\ promise \in File \cup {None} /\ None \notin File
      /\ promise \notin finishing
  BY UploaderAssumption DEF UploadInv, TypeOK, Preparing
<1>2. CASE UNCHANGED vars
  BY <1>2 DEF vars, cutVars, PromiseOpen
<1>3. CASE User
  <2>1. ASSUME NEW g \in File, AddFile(g) \/ RemoveFile(g) PROVE PromiseOpen'
    BY <1>1, <2>1 DEF AddFile, RemoveFile, cutVars, PromiseOpen
  <2>2. ASSUME Upload PROVE PromiseOpen'
    BY <1>1, <2>2 DEF Upload, StartUpload, cutVars, PromiseOpen
  <2>3. ASSUME Retry PROVE PromiseOpen'
    BY <1>1, <2>3 DEF Retry, StartUpload, cutVars, PromiseOpen
  <2>4. ASSUME Stop PROVE PromiseOpen'
    BY <1>1, <2>4 DEF Stop, cutVars, PromiseOpen
  <2>5. QED
    BY <1>3, <2>1, <2>2, <2>3, <2>4 DEF User
<1>4. CASE Timer
  <2>1. ASSUME TickFetch PROVE PromiseOpen'
    <3>1. queue \in Seq(File) /\ CanFetch
      BY <2>1 DEF UploadInv, TypeOK, TickFetch
    <3>2. queue[FirstQueued] \in File
      BY <3>1, FirstQueuedIs
    <3>3. QED
      BY <1>1, <2>1, <3>2 DEF TickFetch, PromiseOpen
  <2>2. ASSUME TickSend \/ TickIdle \/ UploadFinished PROVE PromiseOpen'
    BY <2>2 DEF TickSend, TickIdle, UploadFinished, cutVars, PromiseOpen
  <2>3. ASSUME NEW g \in File, Prepared(g) PROVE PromiseOpen'
    BY <2>3 DEF Prepared, PromiseOpen
  <2>4. ASSUME NEW g \in File, FinishSkipped(g) PROVE PromiseOpen'
    BY <2>4 DEF FinishSkipped, PromiseOpen
  <2>5. ASSUME NEW g \in File, FinishFile(g) PROVE PromiseOpen'
    BY <1>1, <2>5 DEF FinishFile, cutVars, PromiseOpen
  <2>6. ASSUME NEW g \in File, NEW k \in 1..Chunks[g], BeforeSend(g, k) PROVE PromiseOpen'
    BY <2>6 DEF BeforeSend, cutVars, PromiseOpen
  <2>7. QED
    BY <1>4, <2>1, <2>2, <2>3, <2>4, <2>5, <2>6 DEF Timer
<1>5. CASE Outside
  <2>1. ASSUME NEW g \in File, PrepareFails(g) PROVE PromiseOpen'
    BY <2>1 DEF PrepareFails, PromiseOpen
  <2>2. ASSUME NEW g \in File, NEW k \in 1..Chunks[g],
               Load(g, k) \/ Resend(g, k) \/ Fail(g, k)
        PROVE  PromiseOpen'
    BY <1>1, <2>2 DEF Load, Resend, Fail, cutVars, PromiseOpen
  <2>3. QED
    BY <1>5, <2>1, <2>2 DEF Outside
<1>6. QED
  BY <1>2, <1>3, <1>4, <1>5 DEF Next

(* The engine alone gives up every block of a file it completes.  (In the   *)
(* dialog it may not: AnswerThrows.)                                        *)
WireOpen == \A w \in transport : status[w[1]] # "complete"

LEMMA WireStaysOpen ==
  ASSUME UploadInv, WireOpen, [Next]_vars
  PROVE  WireOpen'
<1>1. /\ status \in [File -> Status]
      /\ \A w \in transport : w[1] \in File /\ status[w[1]] # "complete"
  BY BlockParts DEF UploadInv, TypeOK, WireOpen
<1> DEFINE Stays == transport' \subseteq transport
           Opens(g) == status'[g] = "complete" => status[g] = "complete"
<1>2. ASSUME Stays, \A g \in File : Opens(g) PROVE WireOpen'
  BY <1>1, <1>2 DEF WireOpen
<1>3. ASSUME NEW g \in File, DestroyTransports(g, 0) \/ DestroyTransports(g, 1),
             NEW s \in Status, status' = [status EXCEPT ![g] = s]
      PROVE  WireOpen'
  <2>1. \A w \in transport' : w \in transport /\ w[1] # g
    BY <1>3 DEF DestroyTransports, Of
  <2>2. QED
    BY <1>1, <1>3, <2>1 DEF WireOpen
<1>4. CASE UNCHANGED vars
  BY <1>2, <1>4 DEF vars, netVars
<1>5. CASE User
  <2>1. ASSUME NEW g \in File, AddFile(g) PROVE WireOpen'
    BY <1>1, <1>2, <2>1 DEF AddFile, netVars
  <2>2. ASSUME NEW g \in File, RemoveFile(g) PROVE WireOpen'
    BY <1>3, <2>2 DEF RemoveFile, Status
  <2>3. ASSUME Upload \/ Retry PROVE WireOpen'
    BY <1>1, <1>2, <2>3 DEF Upload, Retry, StartUpload, netVars
  <2>4. ASSUME Stop PROVE WireOpen'
    BY <1>1, <1>2, <2>4 DEF Stop, netVars
  <2>5. QED
    BY <1>5, <2>1, <2>2, <2>3, <2>4 DEF User
<1>6. CASE Timer
  <2>1. ASSUME TickFetch PROVE WireOpen'
    BY <1>1, <1>2, <2>1 DEF TickFetch, netVars
  <2>2. ASSUME TickSend \/ TickIdle \/ UploadFinished PROVE WireOpen'
    BY <1>2, <2>2 DEF TickSend, StartSend, TickIdle, UploadFinished, netVars
  <2>3. ASSUME NEW g \in File, Prepared(g) PROVE WireOpen'
    BY <1>2, <2>3 DEF Prepared, StartSend, netVars
  <2>4. ASSUME NEW g \in File, FinishSkipped(g) \/ FinishFile(g) PROVE WireOpen'
    BY <1>3, <2>4 DEF FinishSkipped, FinishFile, UploadComplete, Status
  <2>5. ASSUME NEW g \in File, NEW k \in 1..Chunks[g], BeforeSend(g, k) PROVE WireOpen'
    <3>1. status' = status
      BY <2>5 DEF BeforeSend
    <3>2. \A w \in transport' : w \in transport \/ (w[1] = g /\ status[g] = "progress")
      BY <2>5 DEF BeforeSend
    <3>3. QED
      BY <1>1, <3>1, <3>2 DEF WireOpen
  <2>6. QED
    BY <1>6, <2>1, <2>2, <2>3, <2>4, <2>5 DEF Timer
<1>7. CASE Outside
  <2>1. ASSUME NEW g \in File, PrepareFails(g) PROVE WireOpen'
    BY <1>3, <2>1 DEF PrepareFails, UploadComplete, Status
  <2>2. ASSUME NEW g \in File, NEW k \in 1..Chunks[g], Fail(g, k) PROVE WireOpen'
    BY <1>3, <2>2 DEF Fail, UploadComplete, Status
  <2>3. ASSUME NEW g \in File, NEW k \in 1..Chunks[g], Load(g, k) \/ Resend(g, k)
        PROVE  WireOpen'
    BY <1>2, <2>3 DEF Load, Resend
  <2>4. QED
    BY <1>7, <2>1, <2>2, <2>3 DEF Outside
<1>8. QED
  BY <1>4, <1>5, <1>6, <1>7 DEF Next

LEMMA CompleteStep ==
  ASSUME UploadInv, PromiseOpen, WireOpen, [Next]_vars, NEW f \in WithStatus("complete")
  PROVE  status'[f] \in {"complete", "cancelled"}
<1>1. /\ f \in File /\ status[f] = "complete" /\ status \in [File -> Status]
      /\ f # promise /\ \A k : <<f, k>> \notin transport
  <2>1. f \in File /\ status[f] = "complete" /\ status \in [File -> Status]
    BY DEF WithStatus, UploadInv, TypeOK
  <2>2. f # promise
    BY <2>1, UploaderAssumption DEF PromiseOpen
  <2>3. \A k : <<f, k>> \notin transport
    BY <2>1 DEF WireOpen
  <2>4. QED
    BY <2>1, <2>2, <2>3
<1>2. CASE UNCHANGED vars
  BY <1>1, <1>2 DEF vars
<1>3. CASE User
  <2>1. ASSUME NEW g \in File, AddFile(g) \/ RemoveFile(g)
        PROVE  status'[f] \in {"complete", "cancelled"}
    BY <1>1, <2>1 DEF AddFile, RemoveFile
  <2>2. ASSUME Upload \/ Retry PROVE status'[f] = "complete"
    BY <1>1, <2>2 DEF Upload, Retry, StartUpload
  <2>3. ASSUME Stop PROVE status'[f] = "complete"
    BY <1>1, <2>3 DEF Stop
  <2>4. QED
    BY <1>3, <2>1, <2>2, <2>3 DEF User
<1>4. CASE Timer
  <2>1. ASSUME TickFetch PROVE status'[f] = "complete"
    <3>1. queue \in Seq(File) /\ CanFetch
      BY <2>1 DEF UploadInv, TypeOK, TickFetch
    <3>2. FirstQueued \in 1..Len(queue) /\ status[queue[FirstQueued]] = "queued"
      BY <3>1, FirstQueuedIs
    <3>3. QED
      BY <1>1, <2>1, <3>2 DEF TickFetch
  <2>2. ASSUME TickSend \/ TickIdle \/ UploadFinished PROVE status'[f] = "complete"
    BY <1>1, <2>2 DEF TickSend, TickIdle, UploadFinished
  <2>3. ASSUME NEW g \in File, Prepared(g) \/ FinishSkipped(g) \/ FinishFile(g)
        PROVE  status'[f] = "complete"
    BY <1>1, <2>3 DEF Prepared, FinishSkipped, FinishFile
  <2>4. ASSUME NEW g \in File, NEW k \in 1..Chunks[g], BeforeSend(g, k)
        PROVE  status'[f] = "complete"
    BY <1>1, <2>4 DEF BeforeSend
  <2>5. QED
    BY <1>4, <2>1, <2>2, <2>3, <2>4 DEF Timer
<1>5. CASE Outside
  <2>1. ASSUME NEW g \in File, PrepareFails(g) PROVE status'[f] = "complete"
    BY <1>1, <2>1 DEF PrepareFails
  <2>2. ASSUME NEW g \in File, NEW k \in 1..Chunks[g],
               Load(g, k) \/ Resend(g, k) \/ Fail(g, k)
        PROVE  status'[f] = "complete"
    BY <1>1, <2>2 DEF Load, Resend, Fail, OnWire
  <2>3. QED
    BY <1>5, <2>1, <2>2 DEF Outside
<1>6. QED
  BY <1>2, <1>3, <1>4, <1>5 DEF Next

(* Late answers and timers touch neither a failed file nor an uploaded one. *)
THEOREM OutcomesKept == Spec => OutcomesStay
<1>1. Init => PromiseOpen /\ WireOpen
  BY DEF Init, PromiseOpen, WireOpen
<1>2. UploadInv /\ PromiseOpen /\ WireOpen /\ [Next]_vars => (PromiseOpen /\ WireOpen)'
  BY PromiseStaysOpen, WireStaysOpen
<1>3. UploadInv /\ PromiseOpen /\ WireOpen /\ [Next]_vars =>
        [/\ \A f \in WithStatus("error") :
              status'[f] \in {"error", "queued", "cancelled"}
         /\ \A f \in WithStatus("complete") :
              status'[f] \in {"complete", "cancelled"}]_vars
  BY ErrorStep, CompleteStep
<1>4. QED
  BY <1>1, <1>2, <1>3, Inductive, PTL DEF Spec, OutcomesStay

--------------------------------------------------------------------------------
(* Nothing is left hanging.  Liveness itself is beyond this prover; what    *)
(* can be stated of every state is that an engine with work left has        *)
(* something due: the fairness of Fairness then makes it go on.             *)

(* A tick is due, or will be asked for when the preparation is over or a    *)
(* block gives its slot back.                                               *)
Due == ticks > 0 \/ promise # None \/ pool # {}

Queued == \A f \in File : status[f] # "absent" => f \in Elements(queue)

NoneInterrupted == runing => WithStatus("interrupt") = {}

Served == runing => Due

Sends == CanSend => Due

(* A file under way has blocks left, and is on the stack while there are    *)
(* chunks that were never sent.                                             *)
Left ==
  \A f \in File : status[f] \in Live /\ f # promise =>
    /\ left[f] > 0
    /\ Has(f) => f \in Elements(stack)

RestInv == Queued /\ NoneInterrupted /\ Served /\ Sends /\ Left

LEMMA RestUnchanged ==
  ASSUME RestInv,
         UNCHANGED <<status, queue, runing, promise, pool, ticks, left, cursor, stack>>
  PROVE  RestInv'
BY DEF RestInv, Queued, NoneInterrupted, Served, Sends, Left, Due, CanSend, Sendable,
       Has, WithStatus

(* Whoever gives blocks back asks for a tick. *)
LEMMA PopIsDue ==
  ASSUME UploadInv, NEW blocks \in SUBSET pool, NEW more \in Nat, Pop(blocks, more)
  PROVE  \/ ticks' > 0
         \/ pool' = pool /\ ticks' = ticks /\ more = 0
<1>1. /\ IsFiniteSet(blocks) /\ pool' = pool \ blocks /\ Cardinality(blocks) \in Nat
      /\ ticks' = ticks + Cardinality(blocks) + more /\ ticks \in Nat
  BY PopFrees, FS_Subset DEF UploadInv, TypeOK, Counted
<1>2. CASE blocks = {}
  <2>1. Cardinality(blocks) = 0
    BY <1>2, FS_EmptySet
  <2>2. pool' = pool
    BY <1>1, <1>2
  <2>3. QED
    BY <1>1, <2>1, <2>2
<1>3. CASE blocks # {}
  <2>1. Cardinality(blocks) # 0
    BY <1>1, <1>3, FS_EmptySet
  <2>2. QED
    BY <1>1, <2>1
<1>4. QED
  BY <1>2, <1>3

(* A file that fails, is finished or is removed. *)
LEMMA EndRests ==
  ASSUME UploadInv, RestInv, NEW f \in File, status[f] # "absent",
         NEW s \in {"error", "complete", "cancelled"},
         status' = [status EXCEPT ![f] = s],
         NEW blocks \in SUBSET pool, NEW more \in Nat, Pop(blocks, more),
         \A g \in File : g # f => left'[g] = left[g],
         promise' = promise \/ (promise = f /\ more > 0),
         UNCHANGED <<queue, stack, cursor, runing>>
  PROVE  RestInv'
<1>1. /\ status'[f] = s /\ s \notin Live
      /\ \A g \in File : g # f => status'[g] = status[g]
  BY DEF UploadInv, TypeOK, Live
<1>2. Due => Due'
  BY PopIsDue DEF Due
<1>3. Queued' /\ NoneInterrupted' /\ Served'
  BY <1>1, <1>2 DEF RestInv, Queued, NoneInterrupted, Served, WithStatus, Live
<1>4. Elements(stack) \subseteq File
  BY DEF UploadInv, TypeOK, Elements
<1>5. Sends'
  <2>1. ASSUME NEW i \in 1..Len(stack), Sendable(stack[i])' PROVE Sendable(stack[i])
    <3>1. stack[i] \in File
      BY <1>4 DEF Elements
    <3>2. QED
      BY <1>1, <2>1, <3>1 DEF Sendable, Has, Live
  <2>2. CanSend' => CanSend
    BY <2>1 DEF CanSend
  <2>3. QED
    BY <1>2, <2>2 DEF RestInv, Sends
<1>6. Left'
  <2>1. ASSUME NEW g \in File, status'[g] \in Live, g # promise'
        PROVE  status[g] \in Live /\ g # promise /\ g # f
    BY <1>1, <2>1
  <2>2. QED
    BY <2>1 DEF RestInv, Left, Has
<1>7. QED
  BY <1>3, <1>5, <1>6 DEF RestInv

LEMMA AddFileRests ==
  ASSUME UploadInv, RestInv, NEW f \in File, AddFile(f)
  PROVE  RestInv'
<1>1. /\ status' = [status EXCEPT ![f] = "inited"] /\ status \in [File -> Status]
      /\ status[f] = "absent" /\ queue \in Seq(File) /\ queue' = Append(queue, f)
      /\ UNCHANGED <<runing, promise, pool, ticks, left, cursor, stack>>
  BY DEF AddFile, UploadInv, TypeOK, netVars, cutVars, flagVars, dueVars
<1>2. /\ status'[f] = "inited"
      /\ \A g \in File : g # f => status'[g] = status[g]
  BY <1>1
<1>3. Elements(queue') = Elements(queue) \cup {f}
  BY <1>1 DEF Elements
<1>4. Queued'
  BY <1>2, <1>3 DEF RestInv, Queued
<1>5. NoneInterrupted' /\ Served'
  BY <1>1, <1>2 DEF RestInv, NoneInterrupted, Served, WithStatus, Due
<1>6. Sends'
  <2>1. ASSUME NEW i \in 1..Len(stack), Sendable(stack[i])' PROVE Sendable(stack[i])
    <3>1. stack[i] \in File
      BY DEF UploadInv, TypeOK
    <3>2. QED
      BY <1>1, <1>2, <2>1, <3>1 DEF Sendable, Has
  <2>2. CanSend' => CanSend
    BY <1>1, <2>1 DEF CanSend
  <2>3. QED
    BY <1>1, <2>2 DEF RestInv, Sends, Due
<1>7. Left'
  BY <1>1, <1>2 DEF RestInv, Left, Has, Live
<1>8. QED
  BY <1>4, <1>5, <1>6, <1>7 DEF RestInv

(* startUpload() asks for a tick unless the engine runs, and then one is    *)
(* due already.                                                             *)
LEMMA StartRests ==
  ASSUME UploadInv, RestInv, NEW before \in [File -> Status], StartUpload(before),
         \A f \in File : \/ before[f] = status[f]
                         \/ status[f] = "error" /\ before[f] = "queued"
  PROVE  RestInv'
<1>1. /\ status \in [File -> Status] /\ ticks \in Nat /\ runing' = TRUE
      /\ runing \in BOOLEAN
      /\ status' = [f \in File |->
           IF before[f] = "inited" THEN "queued"
           ELSE IF before[f] = "interrupt" /\ ~runing THEN "progress"
           ELSE before[f]]
      /\ ticks' = ticks \/ ticks' = ticks + 1
      /\ ~runing => ticks' = ticks + 1
      /\ UNCHANGED <<queue, promise, pool, left, cursor, stack>>
  BY DEF StartUpload, UploadInv, TypeOK, netVars, cutVars
<1>2. ASSUME NEW f \in File
      PROVE  /\ status'[f] \in Live => status[f] \in Live
             /\ status'[f] # "absent" => status[f] # "absent"
             /\ status'[f] = "interrupt" => runing /\ status[f] = "interrupt"
  BY <1>1 DEF Live
<1>3. Due'
  <2>1. CASE runing
    BY <1>1, <2>1 DEF RestInv, Served, Due
  <2>2. CASE ~runing
    BY <1>1, <2>2 DEF Due
  <2>3. QED
    BY <2>1, <2>2
<1>4. Queued' /\ NoneInterrupted' /\ Served' /\ Sends'
  BY <1>1, <1>2, <1>3 DEF RestInv, Queued, NoneInterrupted, Served, Sends, WithStatus
<1>5. Left'
  BY <1>1, <1>2 DEF RestInv, Left, Has
<1>6. QED
  BY <1>4, <1>5 DEF RestInv

LEMMA ButtonsRest ==
  ASSUME UploadInv, RestInv, Upload \/ Stop \/ Retry
  PROVE  RestInv'
<1>1. status \in [File -> Status]
  BY DEF UploadInv, TypeOK
<1>2. CASE Upload
  BY <1>1, <1>2, StartRests DEF Upload
<1>3. CASE Retry
  <2> DEFINE before == [f \in File |-> IF status[f] = "error" THEN "queued" ELSE status[f]]
  <2>1. StartUpload(before) /\ before \in [File -> Status]
    BY <1>1, <1>3 DEF Retry, Status
  <2>2. \A f \in File : \/ before[f] = status[f]
                        \/ status[f] = "error" /\ before[f] = "queued"
    OBVIOUS
  <2> HIDE DEF before
  <2>3. QED
    BY <2>1, <2>2, StartRests
<1>4. CASE Stop
  <2>1. /\ runing' = FALSE
        /\ status' = [f \in File |-> IF f = promise THEN "interrupt" ELSE status[f]]
        /\ UNCHANGED <<queue, promise, pool, ticks, left, cursor, stack>>
    BY <1>4 DEF Stop, netVars, cutVars, dueVars
  <2>2. /\ \A f \in File : f # promise => status'[f] = status[f]
        /\ promise # None => promise \in File /\ status'[promise] = "interrupt"
    BY <2>1 DEF UploadInv, TypeOK
  <2>3. Queued'
    <3>1. promise # None => status[promise] # "absent"
      BY DEF UploadInv, Preparing, Live
    <3>2. QED
      BY <2>1, <2>2, <3>1, UploaderAssumption DEF RestInv, Queued
  <2>4. Sends'
    <3>1. ASSUME NEW i \in 1..Len(stack), Sendable(stack[i])' PROVE Sendable(stack[i])
      <4>1. stack[i] \in File
        BY DEF UploadInv, TypeOK
      <4>2. QED
        BY <2>1, <2>2, <3>1, <4>1 DEF Sendable, Has
    <3>2. CanSend' => CanSend
      BY <2>1, <3>1 DEF CanSend
    <3>3. QED
      BY <2>1, <3>2 DEF RestInv, Sends, Due
  <2>5. NoneInterrupted' /\ Served' /\ Left'
    BY <2>1, <2>2 DEF RestInv, NoneInterrupted, Served, Left, Has
  <2>6. QED
    BY <2>3, <2>4, <2>5 DEF RestInv
<1>5. QED
  BY <1>2, <1>3, <1>4

LEMMA RemoveFileRests ==
  ASSUME UploadInv, RestInv, NEW f \in File, RemoveFile(f)
  PROVE  RestInv'
<1>1. /\ status[f] # "absent" /\ status' = [status EXCEPT ![f] = "cancelled"]
      /\ Pop(Of(f, transport), 0)
      /\ left' = [left EXCEPT ![f] = Minus(@, Cardinality(Of(f, transport)))]
      /\ UNCHANGED <<queue, stack, cursor, runing, promise>>
  BY DEF RemoveFile, DestroyTransports, cutVars, flagVars
<1>2. Of(f, transport) \in SUBSET pool
  BY DEF UploadInv, SlotsHeld, Of
<1>3. \A g \in File : g # f => left'[g] = left[g]
  BY <1>1 DEF UploadInv, TypeOK
<1>4. QED
  BY <1>1, <1>2, <1>3, EndRests

LEMMA TickSendRests == ASSUME UploadInv, RestInv, TickSend PROVE RestInv'
<1> DEFINE f == stack[FirstSendable]
<1>1. /\ stack \in Seq(File) /\ cursor \in [File -> Nat] /\ ticks \in Nat /\ ticks > 0
      /\ CanSend /\ ticks' = ticks - 1 + 1 /\ stack' = Pruned(FirstSendable)
      /\ cursor' = [cursor EXCEPT ![f] = @ + 1]
      /\ UNCHANGED <<status, queue, runing, promise, left>>
  BY DEF UploadInv, TypeOK, TickSend, Ticking
<1>2. FirstSendable \in 0..Len(stack) /\ f \in File
  BY <1>1, FirstSendableIs
<1>3. Due'
  BY <1>1 DEF Due
<1>4. Queued' /\ NoneInterrupted' /\ Served' /\ Sends'
  BY <1>1, <1>3 DEF RestInv, Queued, NoneInterrupted, Served, Sends, WithStatus
<1>5. ASSUME NEW g \in File, status[g] \in Live, g # promise, Has(g)'
      PROVE  g \in Elements(stack')
  <2>1. Has(g)
    <3>1. Chunks[g] \in Nat /\ cursor[g] \in Nat /\ cursor'[g] <= Chunks[g]
      BY <1>5, UploaderAssumption, <1>1 DEF Has
    <3>2. cursor'[g] = cursor[g] \/ cursor'[g] = cursor[g] + 1
      BY <1>1
    <3>3. QED
      BY <3>1, <3>2 DEF Has
  <2>2. g \in Elements(stack) /\ Kept(g)
    BY <1>5, <2>1 DEF RestInv, Left, Kept, Live
  <2>3. QED
    BY <1>1, <1>2, <2>2, PrunedStack
<1>6. Left'
  BY <1>1, <1>5 DEF RestInv, Left
<1>7. QED
  BY <1>4, <1>6 DEF RestInv

LEMMA TickFetchRests == ASSUME UploadInv, RestInv, TickFetch PROVE RestInv'
<1> DEFINE f == queue[FirstQueued]
<1>1. /\ queue \in Seq(File) /\ stack \in Seq(File) /\ status \in [File -> Status]
      /\ CanFetch /\ ~CanSend /\ promise = None /\ promise' = f
      /\ status' = [status EXCEPT ![f] = "progress"] /\ stack' = Pruned(Len(stack))
      /\ UNCHANGED <<queue, runing, left, cursor>>
  BY DEF UploadInv, TypeOK, TickFetch, Ticking, netVars
<1>2. f \in File /\ status[f] = "queued"
  BY <1>1, FirstQueuedIs
<1>3. Due'
  BY <1>1, <1>2, UploaderAssumption DEF Due
<1>4. /\ status'[f] = "progress"
      /\ \A g \in File : g # f => status'[g] = status[g]
  BY <1>1, <1>2
<1>5. Queued' /\ NoneInterrupted' /\ Served' /\ Sends'
  BY <1>1, <1>2, <1>3, <1>4
     DEF RestInv, Queued, NoneInterrupted, Served, Sends, WithStatus
<1>6. Left'
  <2>1. ASSUME NEW g \in File, status'[g] \in Live, g # promise'
        PROVE  left[g] > 0 /\ (Has(g)' => g \in Elements(stack'))
    <3>1. g # f /\ status[g] \in Live /\ g # promise
      BY <1>1, <1>4, <2>1, UploaderAssumption
    <3>2. left[g] > 0 /\ (Has(g) => g \in Elements(stack) /\ Kept(g))
      BY <3>1 DEF RestInv, Left, Kept, Live
    <3>3. Has(g)' => Has(g)
      BY <1>1 DEF Has
    <3>4. QED
      BY <1>1, <3>2, <3>3, PrunedStack
  <2>2. QED
    BY <1>1, <2>1 DEF Left
<1>7. QED
  BY <1>5, <1>6 DEF RestInv

(* A tick that finds nothing to do leaves the uploader running only if a    *)
(* block holds a slot, which will ask for another tick.                     *)
LEMMA TickIdleRests == ASSUME UploadInv, RestInv, TickIdle PROVE RestInv'
<1>1. /\ stack \in Seq(File) /\ promise = None
      /\ ~(HasSlot /\ (CanSend \/ CanFetch))
      /\ stack' = IF HasSlot THEN Pruned(Len(stack)) ELSE stack
      /\ UNCHANGED <<status, queue, promise, pool, left, cursor>>
  BY DEF UploadInv, TypeOK, TickIdle, Ticking, netVars
<1>2. /\ remaning = Cardinality(pool) /\ Cardinality(pool) \in Nat /\ Cardinality({}) = 0
      /\ Threads \in Nat /\ Threads # 0
  BY FS_CardinalityType, FS_EmptySet, UploaderAssumption DEF UploadInv, Counted
<1>3. ~HasSlot => pool # {}
  BY <1>2 DEF HasSlot
<1>4. Elements(stack') \subseteq Elements(stack)
      /\ \A g \in Elements(stack) : Kept(g) => g \in Elements(stack')
  BY <1>1, PrunedStack
<1>5. CanSend' => CanSend
  <2>1. ASSUME NEW i \in 1..Len(stack'), Sendable(stack[i])' PROVE CanSend
    <3>1. stack'[i] \in Elements(stack)
      BY <1>4 DEF Elements
    <3>2. Sendable(stack'[i])
      BY <1>1, <2>1 DEF Sendable, Has
    <3>3. QED
      BY <3>1, <3>2 DEF CanSend, Elements
  <2>2. QED
    BY <2>1 DEF CanSend
<1>6. Sends'
  BY <1>1, <1>3, <1>5 DEF Sends, Due
<1>7. runing' => runing /\ pool # {}
  <2>1. CASE remaning = 0 /\ WithStatus("queued") = {} /\ WithStatus("interrupt") = {}
    BY <2>1 DEF TickIdle
  <2>2. CASE remaning # 0
    BY <1>2, <2>2 DEF TickIdle
  <2>3. ASSUME runing, NEW f \in WithStatus("queued") PROVE pool # {}
    <3>1. f \in Elements(queue) /\ status[f] = "queued"
      BY DEF RestInv, Queued, WithStatus
    <3>2. CanFetch
      BY <2>3, <3>1 DEF CanFetch, Elements
    <3>3. QED
      BY <1>1, <1>3, <3>2
  <2>4. runing => WithStatus("interrupt") = {}
    BY DEF RestInv, NoneInterrupted
  <2>5. QED
    BY <2>1, <2>2, <2>3, <2>4 DEF TickIdle
<1>8. Queued' /\ NoneInterrupted' /\ Served'
  BY <1>1, <1>7 DEF RestInv, Queued, NoneInterrupted, Served, Due, WithStatus
<1>9. Left'
  <2>1. ASSUME NEW g \in File, status[g] \in Live, g # promise
        PROVE  left[g] > 0 /\ (Has(g) => g \in Elements(stack'))
    BY <1>4, <2>1 DEF RestInv, Left, Kept, Live
  <2>2. QED
    BY <1>1, <2>1 DEF Left, Has
<1>10. QED
  BY <1>6, <1>8, <1>9 DEF RestInv

(* The file is cut: its chunks are left and it is on the stack. *)
LEMMA PreparedRests ==
  ASSUME UploadInv, RestInv, NEW f \in File, Prepared(f)
  PROVE  RestInv'
<1>1. CASE status[f] \notin Live
  <2>1. UNCHANGED <<status, queue, runing, promise, pool, ticks, left, cursor, stack>>
    BY <1>1 DEF Prepared, Live, netVars, flagVars
  <2>2. QED
    BY <2>1, RestUnchanged
<1>2. CASE status[f] \in Live
  <2>1. /\ promise = f /\ promise' = None /\ stack' = Append(stack, f)
        /\ stack \in Seq(File) /\ left \in [File -> Nat] /\ cursor \in [File -> Nat]
        /\ left' = [left EXCEPT ![f] = Chunks[f]]
        /\ \A g \in File : g # f => cursor'[g] = cursor[g]
        /\ ticks \in Nat /\ ticks' = ticks + 1
        /\ UNCHANGED <<status, queue, runing>>
    BY <1>2 DEF Prepared, Live, UploadInv, TypeOK, flagVars
  <2>2. Due'
    BY <2>1 DEF Due
  <2>3. Queued' /\ NoneInterrupted' /\ Served' /\ Sends'
    BY <2>1, <2>2 DEF RestInv, Queued, NoneInterrupted, Served, Sends, WithStatus
  <2>4. Elements(stack') = Elements(stack) \cup {f}
    BY <2>1 DEF Elements
  <2>5. ASSUME NEW g \in File, status[g] \in Live
        PROVE  left'[g] > 0 /\ (Has(g)' => g \in Elements(stack'))
    <3>1. CASE g = f
      <4>1. Chunks[f] \in Nat /\ Chunks[f] # 0 /\ left'[f] = Chunks[f]
        BY <2>1, UploaderAssumption
      <4>2. QED
        BY <2>4, <3>1, <4>1
    <3>2. CASE g # f
      BY <2>1, <2>4, <2>5, <3>2 DEF RestInv, Left, Has
    <3>3. QED
      BY <3>1, <3>2
  <2>6. Left'
    BY <2>1, <2>5 DEF Left
  <2>7. QED
    BY <2>3, <2>6 DEF RestInv
<1>3. QED
  BY <1>1, <1>2

(* A file whose preparation fails, or that had been removed meanwhile. *)
LEMMA PrepareFailsRests ==
  ASSUME UploadInv, RestInv, NEW f \in File, PrepareFails(f) \/ FinishSkipped(f)
  PROVE  RestInv'
<1>1. /\ promise = f /\ UploadComplete(f, 1)
      /\ \E s \in {"error", "complete", "cancelled"} : status' = [status EXCEPT ![f] = s]
      /\ UNCHANGED <<queue, stack, cursor, runing>>
      /\ 1 \in Nat /\ 1 > 0
  BY DEF PrepareFails, FinishSkipped, flagVars
<1>2. /\ status[f] # "absent"
      /\ Of(f, transport) \in SUBSET pool
  BY <1>1, UploaderAssumption DEF UploadInv, Preparing, Live, SlotsHeld, Of
<1>3. Pop(Of(f, transport), 1) /\ \A g \in File : g # f => left'[g] = left[g]
  BY <1>1 DEF UploadComplete, DestroyTransports, UploadInv, TypeOK
<1>4. QED
  BY <1>1, <1>2, <1>3, EndRests

LEMMA FailRests ==
  ASSUME UploadInv, RestInv, NEW f \in File,
         FinishFile(f) \/ \E k \in 1..Chunks[f] : Fail(f, k)
  PROVE  RestInv'
<1>1. /\ UploadComplete(f, 0)
      /\ \E s \in {"error", "complete", "cancelled"} : status' = [status EXCEPT ![f] = s]
      /\ UNCHANGED <<queue, stack, cursor, runing, promise>>
  BY DEF FinishFile, Fail, cutVars, flagVars
<1>2. status[f] # "absent"
  BY DEF FinishFile, Fail, OnWire, UploadInv, Finishing, OnWireRuns
<1>3. /\ Pop(Of(f, transport), 0) /\ Of(f, transport) \in SUBSET pool
      /\ \A g \in File : g # f => left'[g] = left[g]
  BY <1>1 DEF UploadComplete, DestroyTransports, UploadInv, TypeOK, SlotsHeld, Of
<1>4. QED
  BY <1>1, <1>2, <1>3, EndRests

(* A block of a file that is not under way gives its slot back. *)
LEMMA BeforeSendRests ==
  ASSUME UploadInv, RestInv, NEW f \in File, NEW k \in 1..Chunks[f], BeforeSend(f, k)
  PROVE  RestInv'
<1>1. UNCHANGED <<status, queue, runing, promise, cursor, stack>>
  BY DEF BeforeSend, cutVars, flagVars
<1>2. CASE status[f] = "progress"
  <2>1. UNCHANGED <<pool, ticks, left>>
    BY <1>2 DEF BeforeSend
  <2>2. QED
    BY <1>1, <2>1, RestUnchanged
<1>3. CASE status[f] # "progress"
  <2>1. Pop({<<f, k>>}, 0) /\ {<<f, k>>} \in SUBSET pool
        /\ left' = [left EXCEPT ![f] = Minus(@, 1)]
    BY <1>3 DEF BeforeSend, UploadInv, SlotsHeld
  <2>2. status[f] \notin Live
    BY <1>3, <2>1 DEF UploadInv, Waiting, Of, Live
  <2>3. Due => Due'
    BY <1>1, <2>1, PopIsDue DEF Due
  <2>4. CanSend' => CanSend
    BY <1>1 DEF CanSend, Sendable, Has
  <2>5. Queued' /\ NoneInterrupted' /\ Served' /\ Sends'
    BY <1>1, <2>3, <2>4 DEF RestInv, Queued, NoneInterrupted, Served, Sends, WithStatus
  <2>6. Left'
    BY <1>1, <2>1, <2>2 DEF RestInv, Left, Has, UploadInv, TypeOK
  <2>7. QED
    BY <2>5, <2>6 DEF RestInv
<1>4. QED
  BY <1>2, <1>3

(* An answer: the file's last block keeps its slot, any other one is        *)
(* followed by blocks that are still left.                                  *)
LEMMA LoadRests ==
  ASSUME UploadInv, RestInv, NEW f \in File, NEW k \in 1..Chunks[f], Load(f, k)
  PROVE  RestInv'
<1>1. UNCHANGED <<status, queue, runing, promise, cursor, stack>>
  BY DEF Load, cutVars, flagVars
<1>2. CASE left[f] = 1
  <2>1. UNCHANGED <<pool, ticks, left>>
    BY <1>2 DEF Load
  <2>2. QED
    BY <1>1, <2>1, RestUnchanged
<1>3. CASE left[f] # 1
  <2>1. Pop({<<f, k>>}, 0) /\ {<<f, k>>} \in SUBSET pool
        /\ left' = [left EXCEPT ![f] = Minus(@, 1)] /\ left \in [File -> Nat]
    BY <1>3 DEF Load, OnWire, UploadInv, SlotsHeld, TypeOK
  <2>2. left[f] > 0 => left'[f] > 0
    BY <1>3, <2>1 DEF Minus
  <2>3. Due => Due'
    BY <1>1, <2>1, PopIsDue DEF Due
  <2>4. CanSend' => CanSend
    BY <1>1 DEF CanSend, Sendable, Has
  <2>5. Queued' /\ NoneInterrupted' /\ Served' /\ Sends'
    BY <1>1, <2>3, <2>4 DEF RestInv, Queued, NoneInterrupted, Served, Sends, WithStatus
  <2>6. Left'
    <3>1. \A g \in File : left[g] > 0 => left'[g] > 0
      BY <2>1, <2>2
    <3>2. QED
      BY <1>1, <3>1 DEF RestInv, Left, Has
  <2>7. QED
    BY <2>5, <2>6 DEF RestInv
<1>4. QED
  BY <1>2, <1>3

LEMMA StillRests ==
  ASSUME UploadInv, RestInv,
         \/ UploadFinished
         \/ \E f \in File : \E k \in 1..Chunks[f] : Resend(f, k)
         \/ UNCHANGED vars
  PROVE  RestInv'
<1>1. UNCHANGED <<status, queue, runing, promise, pool, ticks, left, cursor, stack>>
  BY DEF UploadFinished, Resend, netVars, cutVars, flagVars, dueVars, vars
<1>2. QED
  BY <1>1, RestUnchanged

LEMMA NextRests == ASSUME UploadInv, RestInv, [Next]_vars PROVE RestInv'
<1>1. CASE User
  BY <1>1, AddFileRests, RemoveFileRests, ButtonsRest DEF User
<1>2. CASE Timer
  BY <1>2, TickSendRests, TickFetchRests, TickIdleRests, StillRests, PreparedRests,
     PrepareFailsRests, FailRests, BeforeSendRests DEF Timer
<1>3. CASE Outside
  BY <1>3, PrepareFailsRests, FailRests, LoadRests, StillRests DEF Outside
<1>4. QED
  BY <1>1, <1>2, <1>3, StillRests DEF Next

LEMMA InitRests == ASSUME Init PROVE RestInv
BY UploaderAssumption
   DEF Init, RestInv, Queued, NoneInterrupted, Served, Sends, Left, CanSend, WithStatus, Live

(* What RestInv says of an engine with nothing due.                         *)
LEMMA RestGives == ASSUME UploadInv, RestInv PROVE RestIsDone
<1>1. SUFFICES ASSUME AtRest PROVE ~runing /\ WithStatus("progress") = {}
  BY DEF RestIsDone
<1>2. ~Due
  BY <1>1 DEF AtRest, Due, UploadInv, SlotsHeld
<1>3. ASSUME NEW f \in WithStatus("progress") PROVE FALSE
  <2>1. f \in File /\ status[f] = "progress" /\ f # promise
    BY <1>1, UploaderAssumption DEF WithStatus, AtRest
  <2>2. Of(f, pool) = {} /\ Cardinality({}) = 0
    BY <1>2, FS_EmptySet DEF Due, Of
  <2>3. /\ left[f] = Chunks[f] + 1 - cursor[f] + 0
        /\ left[f] > 0 /\ (Has(f) => f \in Elements(stack))
    BY <2>1, <2>2 DEF RestInv, Left, UploadInv, Accounted, Live
  <2>4. Chunks[f] \in Nat /\ cursor[f] \in Nat
    BY <2>1, UploaderAssumption DEF UploadInv, TypeOK
  <2>5. Has(f)
    BY <2>3, <2>4 DEF Has
  <2>6. CanSend
    BY <2>1, <2>3, <2>5 DEF CanSend, Sendable, Elements
  <2>7. QED
    BY <1>2, <2>6 DEF RestInv, Sends
<1>4. QED
  BY <1>2, <1>3 DEF RestInv, Served

(* An engine that runs, or has a file under way, always has a timer, a      *)
(* preparation, a request or a callback due, whatever was stopped, removed, *)
(* retried or failed before: no tick is lost, and nothing is left hanging.  *)
THEOREM NothingHangs == Spec => []RestIsDone
<1>1. Init => UploadInv /\ RestInv
  BY InitGives, InitRests
<1>2. UploadInv /\ RestInv /\ [Next]_vars => (UploadInv /\ RestInv)'
  BY NextKeeps, NextRests
<1>3. UploadInv /\ RestInv => RestIsDone
  BY RestGives
<1>4. QED
  BY <1>1, <1>2, <1>3, PTL DEF Spec

--------------------------------------------------------------------------------
(* The attachment dialog.  Its count never exceeds the files it lists less  *)
(* those whose deletion is under way: each click counts one file too many   *)
(* down, and no answer brings it back.                                      *)

CountInv ==
  /\ IsFiniteSet(listed) /\ listed \subseteq File \cup Existing
  /\ deleting \subseteq listed /\ count \in Int
  /\ count + Cardinality(deleting) <= Cardinality(listed)
  /\ \A f \in listed \cap File : status[f] # "absent"

PageInv == UploadInv /\ CountInv

(* uploadSuccess throws: the file is complete and keeps what it holds. *)
LEMMA HandlerThrowsKeeps ==
  ASSUME UploadInv, NEW f \in File, HandlerThrows(f), finishing' = finishing \ {f},
         f \in dequeued \/ AllAnswered(f), promise = f => f \in dequeued
  PROVE  UploadInv'
<1> USE DEF UploadInv
<1>1. /\ status' = [status EXCEPT ![f] = "complete"] /\ status \in [File -> Status]
      /\ UNCHANGED <<queue, pool, remaning, sending, transport, left, retried,
                     promise, skipping, stack, cursor, runing, progress,
                     trigged, ticks, finished, clicks, dequeued, answered>>
  BY DEF TypeOK, HandlerThrows, cutVars, flagVars, dueVars, logVars
<1>2. /\ status'[f] = "complete"
      /\ \A g \in File : g # f => status'[g] = status[g]
  BY <1>1
<1>3. TypeOK'
  <2>1. status' \in [File -> Status] /\ finishing' \subseteq File
    BY <1>1 DEF Status, TypeOK
  <2>2. QED
    BY <1>1, <2>1 DEF TypeOK
<1>4. SlotsHeld' /\ Counted' /\ SkipsPromise'
  BY <1>1 DEF SlotsHeld, Counted, SkipsPromise
<1>5. OnWireRuns'
  <2>1. \A w \in transport : w[1] \in File
    BY BlockParts DEF TypeOK
  <2>2. QED
    BY <1>1, <1>2, <2>1 DEF OnWireRuns
<1>6. Waiting'
  BY <1>1, <1>2 DEF Waiting
<1>7. Preparing'
  <2>1. promise # None => promise \in File
    BY DEF TypeOK
  <2>2. QED
    BY <1>1, <1>2, <2>1 DEF Preparing
<1>8. Ahead'
  <2>1. Elements(stack) \subseteq File /\ "complete" \notin Live
    BY DEF TypeOK, Elements, Live
  <2>2. QED
    BY <1>1, <1>2, <2>1 DEF Ahead
<1>9. Accounted'
  <2>1. "complete" \notin Live
    BY DEF Live
  <2>2. QED
    BY <1>1, <1>2, <2>1 DEF Accounted
<1>10. Finishing'
  <2>1. finishing \subseteq File
    BY DEF TypeOK
  <2>2. QED
    BY <1>1, <1>2, <2>1 DEF Finishing, AllAnswered
<1>11. Removed' /\ CompleteMeansAnswered'
  BY <1>1, <1>2 DEF Removed, CompleteMeansAnswered, AllAnswered, WithStatus
<1>12. QED
  BY <1>3, <1>4, <1>5, <1>6, <1>7, <1>8, <1>9, <1>10, <1>11

(* The file was removed while it was prepared, or its only block was        *)
(* answered.                                                                *)
LEMMA ThrowsKeeps ==
  ASSUME UploadInv, NEW f \in File, SuccessThrows(f) \/ AnswerThrows(f)
  PROVE  UploadInv' /\ HandlerThrows(f) /\ status[f] # "absent"
<1>1. f # None
  BY UploaderAssumption
<1>2. CASE SuccessThrows(f)
  <2>1. /\ f \in dequeued /\ f \notin finishing /\ status[f] # "absent"
        /\ finishing' = finishing /\ HandlerThrows(f)
    BY <1>1, <1>2 DEF SuccessThrows, UploadInv, Preparing, Live
  <2>2. finishing' = finishing \ {f}
    BY <2>1
  <2>3. QED
    BY <2>1, <2>2, HandlerThrowsKeeps
<1>3. CASE AnswerThrows(f)
  <2>1. /\ f \in dequeued \/ AllAnswered(f)
        /\ status[f] # "absent" /\ promise # f
        /\ finishing' = finishing \ {f} /\ HandlerThrows(f)
    BY <1>1, <1>3 DEF AnswerThrows, UploadInv, Finishing, Preparing
  <2>2. QED
    BY <2>1, HandlerThrowsKeeps
<1>4. QED
  BY <1>2, <1>3

LEMMA AutoStartKeeps == ASSUME UploadInv, AutoStart PROVE UploadInv'
<1>1. /\ status \in [File -> Status] /\ StartUpload(status)
      /\ clicks \in Nat /\ clicks' = clicks
  BY DEF UploadInv, TypeOK, AutoStart
<1>2. QED
  BY <1>1, StartKeeps

LEMMA EngineKeeps == ASSUME UploadInv, Engine PROVE UploadInv'
BY TickSendKeeps, TickFetchKeeps, TickIdleKeeps, UploadFinishedKeeps, CallbackKeeps
   DEF Engine

(* No callback of the engine takes a file out of its queue. *)
LEMMA EngineForgetsNone ==
  ASSUME UploadInv, Engine, NEW f \in File, status[f] # "absent"
  PROVE  status'[f] # "absent"
<1>1. status \in [File -> Status]
  BY DEF UploadInv, TypeOK
<1>2. ASSUME TickFetch PROVE status'[f] # "absent"
  BY <1>1, <1>2 DEF TickFetch
<1>3. ASSUME TickSend \/ TickIdle \/ UploadFinished PROVE status'[f] # "absent"
  BY <1>1, <1>3 DEF TickSend, TickIdle, UploadFinished
<1>4. ASSUME NEW g \in File, Prepared(g) \/ PrepareFails(g) \/ FinishFile(g)
      PROVE  status'[f] # "absent"
  BY <1>1, <1>4 DEF Prepared, PrepareFails, FinishFile
<1>5. ASSUME NEW g \in File, NEW k \in 1..Chunks[g],
             BeforeSend(g, k) \/ Load(g, k) \/ Fail(g, k)
      PROVE  status'[f] # "absent"
  BY <1>1, <1>5 DEF BeforeSend, Load, Fail
<1>6. QED
  BY <1>2, <1>3, <1>4, <1>5 DEF Engine

LEMMA PageInitGives == ASSUME PageInit PROVE PageInv
<1>1. UploadInv
  BY InitGives DEF PageInit
<1>2. Cardinality(Existing) \in Nat /\ IsFiniteSet(Existing)
  BY PageAssumption, FS_CardinalityType
<1>3. CountInv
  <2>1. listed = Existing /\ deleting = {} /\ count = Cardinality(Existing)
    BY DEF PageInit
  <2>2. Cardinality(deleting) = 0
    BY <2>1, FS_EmptySet
  <2>3. count + Cardinality(deleting) <= Cardinality(listed)
    BY <1>2, <2>1, <2>2
  <2>4. listed \cap File = {}
    BY <2>1, PageAssumption
  <2>5. QED
    BY <1>2, <2>1, <2>3, <2>4 DEF CountInv
<1>4. QED
  BY <1>1, <1>3 DEF PageInv

(* beforeFileQueued and fileQueued: a file is listed once, when it is new. *)
LEMMA ChooseFileKeeps ==
  ASSUME PageInv, NEW f \in File, ChooseFile(f)
  PROVE  PageInv'
<1> USE DEF PageInv, CountInv
<1>1. UploadInv'
  BY AddFileKeeps DEF ChooseFile
<1>2. /\ status[f] = "absent" /\ status' = [status EXCEPT ![f] = "inited"]
      /\ count' = count + 1 /\ listed' = listed \cup {f} /\ deleting' = deleting
      /\ status \in [File -> Status]
  BY DEF ChooseFile, AddFile, UploadInv, TypeOK
<1>3. f \notin listed
  BY <1>2
<1>4. IsFiniteSet(listed') /\ Cardinality(listed') = Cardinality(listed) + 1
  BY <1>2, <1>3, FS_AddElement
<1>5. Cardinality(listed) \in Nat /\ Cardinality(deleting) \in Nat
  BY FS_Subset, FS_CardinalityType
<1>6. count' \in Int /\ count' + Cardinality(deleting') <= Cardinality(listed')
  BY <1>2, <1>4, <1>5
<1>7. \A g \in listed' \cap File : status'[g] # "absent"
  BY <1>2
<1>8. QED
  BY <1>1, <1>2, <1>4, <1>6, <1>7

(* The remove link counts down, once or twice, whatever it removes. *)
LEMMA ClickRemoveKeeps ==
  ASSUME PageInv, NEW f \in File \cup Existing, ClickRemove(f)
  PROVE  PageInv'
<1> USE DEF PageInv, CountInv
<1>1. /\ f \in listed /\ f \notin deleting
      /\ Cardinality(listed) \in Nat /\ Cardinality(deleting) \in Nat
      /\ IsFiniteSet(deleting)
  BY FS_Subset, FS_CardinalityType DEF ClickRemove
<1>2. CASE HasId(f)
  <2>1. /\ deleting' = deleting \cup {f} /\ count' = count - 1
        /\ listed' = listed /\ UNCHANGED vars
    BY <1>2 DEF ClickRemove
  <2>2. UploadInv' /\ status' = status
    BY <2>1, UnchangedKeeps DEF vars
  <2>3. Cardinality(deleting') = Cardinality(deleting) + 1
    BY <1>1, <2>1, FS_AddElement
  <2>4. count' \in Int /\ count' + Cardinality(deleting') <= Cardinality(listed')
    BY <1>1, <2>1, <2>3
  <2>5. deleting' \subseteq listed'
    BY <1>1, <2>1
  <2>6. QED
    BY <2>1, <2>2, <2>4, <2>5
<1>3. CASE ~HasId(f)
  <2>1. /\ f \in File /\ RemoveFile(f) /\ listed' = listed \ {f}
        /\ count' = count - 2 /\ deleting' = deleting
    BY <1>3 DEF ClickRemove, HasId
  <2>2. UploadInv' /\ status' = [status EXCEPT ![f] = "cancelled"]
    BY <2>1, RemoveFileKeeps DEF RemoveFile
  <2>3. IsFiniteSet(listed') /\ Cardinality(listed') = Cardinality(listed) - 1
    BY <1>1, <2>1, FS_RemoveElement
  <2>4. count' \in Int /\ count' + Cardinality(deleting') <= Cardinality(listed')
    BY <1>1, <2>1, <2>3
  <2>5. \A g \in listed' \cap File : status'[g] # "absent"
    BY <2>1, <2>2 DEF UploadInv, TypeOK
  <2>6. deleting' \subseteq listed' /\ listed' \subseteq File \cup Existing
    BY <1>1, <2>1
  <2>7. QED
    BY <2>2, <2>3, <2>4, <2>5, <2>6
<1>4. QED
  BY <1>2, <1>3

(* The answer to a deletion. *)
LEMMA DeletedKeeps ==
  ASSUME PageInv, NEW f \in File \cup Existing, Deleted(f)
  PROVE  PageInv'
<1> USE DEF PageInv, CountInv
<1>1. /\ f \in deleting /\ f \in listed
      /\ Cardinality(listed) \in Nat /\ Cardinality(deleting) \in Nat
      /\ IsFiniteSet(deleting)
      /\ deleting' = deleting \ {f} /\ listed' = listed \ {f}
  BY FS_Subset, FS_CardinalityType DEF Deleted
<1>2. /\ IsFiniteSet(listed') /\ Cardinality(listed') = Cardinality(listed) - 1
      /\ Cardinality(deleting') = Cardinality(deleting) - 1
  BY <1>1, FS_RemoveElement
<1>3. deleting' \subseteq listed' /\ listed' \subseteq File \cup Existing
  BY <1>1
<1>4. /\ UploadInv' /\ (count' = count \/ count' = count - 1)
      /\ \A g \in File : status[g] # "absent" => status'[g] # "absent"
  <2>1. CASE f \in File
    <3>1. RemoveFile(f) /\ count' = count - 1
      BY <2>1 DEF Deleted
    <3>2. UploadInv' /\ status' = [status EXCEPT ![f] = "cancelled"]
      BY <2>1, <3>1, RemoveFileKeeps DEF RemoveFile
    <3>3. QED
      BY <3>1, <3>2 DEF UploadInv, TypeOK
  <2>2. CASE f \notin File
    <3>1. UNCHANGED vars /\ count' = count
      BY <2>2 DEF Deleted
    <3>2. UploadInv' /\ status' = status
      BY <3>1, UnchangedKeeps DEF vars
    <3>3. QED
      BY <3>1, <3>2
  <2>3. QED
    BY <2>1, <2>2
<1>5. count' \in Int /\ count' + Cardinality(deleting') <= Cardinality(listed')
  BY <1>1, <1>2, <1>4
<1>6. \A g \in listed' \cap File : status'[g] # "absent"
  BY <1>1, <1>4
<1>7. QED
  BY <1>2, <1>3, <1>4, <1>5, <1>6

LEMMA DeleteFailsKeeps ==
  ASSUME PageInv, NEW f \in File \cup Existing, DeleteFails(f)
  PROVE  PageInv'
<1> USE DEF PageInv, CountInv
<1>1. /\ UNCHANGED vars /\ count' = count /\ listed' = listed
      /\ f \in deleting /\ deleting' = deleting \ {f}
      /\ Cardinality(listed) \in Nat /\ Cardinality(deleting) \in Nat
      /\ IsFiniteSet(deleting)
  BY FS_Subset, FS_CardinalityType DEF DeleteFails
<1>2. UploadInv' /\ status' = status
  BY <1>1, UnchangedKeeps DEF vars
<1>3. Cardinality(deleting') = Cardinality(deleting) - 1
  BY <1>1, FS_RemoveElement
<1>4. count' \in Int /\ count' + Cardinality(deleting') <= Cardinality(listed')
  BY <1>1, <1>3
<1>5. QED
  BY <1>1, <1>2, <1>4

LEMMA PageNextKeeps == ASSUME PageInv, [PageNext]_allVars PROVE PageInv'
<1>1. CASE UNCHANGED allVars
  <2>1. UNCHANGED vars /\ UNCHANGED <<count, listed, deleting, status>>
    BY <1>1 DEF allVars, pageVars, listVars, vars
  <2>2. QED
    BY <2>1, UnchangedKeeps DEF PageInv, CountInv
<1>2. ASSUME NEW f \in File, SuccessThrows(f) \/ AnswerThrows(f) PROVE PageInv'
  <2>1. UploadInv' /\ status \in [File -> Status] /\ HandlerThrows(f)
    BY <1>2, ThrowsKeeps DEF PageInv, UploadInv, TypeOK
  <2>2. UNCHANGED <<count, listed, deleting>> /\ status' = [status EXCEPT ![f] = "complete"]
    BY <2>1 DEF HandlerThrows
  <2>3. QED
    BY <2>1, <2>2 DEF PageInv, CountInv
<1>3. ASSUME AutoStart PROVE PageInv'
  <2>1. /\ UNCHANGED <<count, listed, deleting>> /\ StartUpload(status)
        /\ status \in [File -> Status]
    BY <1>3 DEF AutoStart, listVars, PageInv, UploadInv, TypeOK
  <2>2. \A f \in File : status[f] # "absent" => status'[f] # "absent"
    BY <2>1 DEF StartUpload
  <2>3. UploadInv'
    BY <1>3, AutoStartKeeps DEF PageInv
  <2>4. QED
    BY <2>1, <2>2, <2>3 DEF PageInv, CountInv
<1>4. ASSUME Engine, UNCHANGED pageVars PROVE PageInv'
  <2>1. UNCHANGED <<count, listed, deleting>>
    BY <1>4 DEF pageVars, listVars
  <2>2. \A f \in File : status[f] # "absent" => status'[f] # "absent"
    BY <1>4, EngineForgetsNone DEF PageInv
  <2>3. UploadInv'
    BY <1>4, EngineKeeps DEF PageInv
  <2>4. QED
    BY <2>1, <2>2, <2>3 DEF PageInv, CountInv
<1>5. QED
  BY <1>1, <1>2, <1>3, <1>4, ChooseFileKeeps, ClickRemoveKeeps, DeletedKeeps,
     DeleteFailsKeeps DEF PageNext

THEOREM PageInductive == PageSpec => []PageInv
<1>1. PageInit => PageInv
  BY PageInitGives
<1>2. PageInv /\ [PageNext]_allVars => PageInv'
  BY PageNextKeeps
<1>3. QED
  BY <1>1, <1>2, PTL DEF PageSpec

(* What the page knows of the files that hold slots: a file with a request  *)
(* is listed, not being deleted, and complete only if its handler has       *)
(* thrown; so is a file that may still get one.                             *)
Open == {"inited", "queued", "progress", "interrupt"}

SlotInv ==
  /\ \A w \in transport :
       /\ w[1] \in listed \ deleting
       /\ status[w[1]] = "complete" => w[1] \in thrown
  /\ \A f \in File : status[f] \in Open => f \in listed \ deleting
  /\ \A f \in dequeued : f \notin listed /\ status[f] # "absent"

(* The engine's callbacks send only files under way, complete only files    *)
(* whose requests they destroy, and remove none.                            *)
LEMMA EngineSends ==
  ASSUME UploadInv, Engine
  PROVE  /\ dequeued' = dequeued
         /\ \A g \in File : status'[g] \in Open => status[g] \in Open
         /\ \A w \in transport' :
              /\ w[1] \in File
              /\ w \in transport \/ status[w[1]] = "progress"
              /\ status'[w[1]] = "complete" =>
                   w \in transport /\ status[w[1]] = "complete"
<1>1. /\ status \in [File -> Status] /\ \A w \in transport : w[1] \in File
  BY BlockParts DEF UploadInv, TypeOK
<1> DEFINE Sends1 ==
      /\ dequeued' = dequeued
      /\ \A g \in File : status'[g] \in Open => status[g] \in Open
      /\ \A w \in transport' :
           /\ w[1] \in File
           /\ w \in transport \/ status[w[1]] = "progress"
           /\ status'[w[1]] = "complete" =>
                w \in transport /\ status[w[1]] = "complete"
<1>2. ASSUME dequeued' = dequeued, transport' = transport, status' = status PROVE Sends1
  BY <1>1, <1>2
<1>3. ASSUME NEW g \in File, dequeued' = dequeued, NEW s \in {"error", "complete"},
             status' = [status EXCEPT ![g] = s],
             DestroyTransports(g, 0) \/ DestroyTransports(g, 1)
      PROVE  Sends1
  <2>1. \A w \in transport' : w \in transport /\ w[1] \in File /\ w[1] # g
    BY <1>1, <1>3 DEF DestroyTransports, Of
  <2>2. \A h \in File : h # g => status'[h] = status[h]
    BY <1>1, <1>3
  <2>3. status'[g] = s /\ s \notin Open
    BY <1>1, <1>3 DEF Open
  <2>4. QED
    BY <1>3, <2>1, <2>2, <2>3
<1>4. ASSUME TickFetch PROVE Sends1
  <2>1. queue \in Seq(File) /\ CanFetch
    BY <1>4 DEF UploadInv, TypeOK, TickFetch
  <2>2. FirstQueued \in 1..Len(queue) /\ status[queue[FirstQueued]] = "queued"
    BY <2>1, FirstQueuedIs
  <2> DEFINE q == queue[FirstQueued]
  <2>3. q \in File /\ status[q] \in Open
    BY <2>1, <2>2 DEF Open
  <2>4. status' = [status EXCEPT ![q] = "progress"] /\ UNCHANGED <<transport, dequeued>>
    BY <1>4 DEF TickFetch, netVars, logVars
  <2> HIDE DEF q
  <2>5. /\ status'[q] = "progress"
        /\ \A h \in File : h # q => status'[h] = status[h]
    BY <1>1, <2>3, <2>4
  <2>6. QED
    BY <1>1, <2>3, <2>4, <2>5
<1>5. ASSUME TickSend \/ TickIdle \/ UploadFinished PROVE Sends1
  BY <1>2, <1>5 DEF TickSend, StartSend, TickIdle, UploadFinished, netVars, logVars
<1>6. ASSUME NEW g \in File, Prepared(g) PROVE Sends1
  BY <1>2, <1>6 DEF Prepared, StartSend, netVars, logVars
<1>7. ASSUME NEW g \in File, PrepareFails(g) \/ FinishFile(g) PROVE Sends1
  BY <1>3, <1>7 DEF PrepareFails, FinishFile, UploadComplete, logVars
<1>8. ASSUME NEW g \in File, NEW k \in 1..Chunks[g], Fail(g, k) PROVE Sends1
  BY <1>3, <1>8 DEF Fail, UploadComplete, logVars
<1>9. ASSUME NEW g \in File, NEW k \in 1..Chunks[g], BeforeSend(g, k) \/ Load(g, k)
      PROVE  Sends1
  <2>1. dequeued' = dequeued /\ status' = status
    BY <1>9 DEF BeforeSend, Load, logVars
  <2>2. \A w \in transport' :
          w \in transport \/ (w[1] = g /\ status[w[1]] = "progress")
    BY <1>9 DEF BeforeSend, Load
  <2>3. QED
    BY <1>1, <2>1, <2>2
<1>10. QED
  BY <1>4, <1>5, <1>6, <1>7, <1>8, <1>9 DEF Engine

LEMMA RemoveKeepsSlotInv ==
  ASSUME PageInv, SlotInv, NEW f \in File, RemoveFile(f), listed' = listed \ {f},
         deleting' \in {deleting, deleting \ {f}}, thrown' = thrown
  PROVE  SlotInv'
<1>1. /\ status \in [File -> Status] /\ \A w \in transport : w[1] \in File
      /\ dequeued \subseteq File
  BY BlockParts DEF PageInv, UploadInv, TypeOK
<1>2. /\ status' = [status EXCEPT ![f] = "cancelled"] /\ dequeued' = dequeued \cup {f}
      /\ \A w \in transport' : w \in transport /\ w[1] # f
  BY DEF RemoveFile, DestroyTransports, Of
<1>3. /\ status'[f] = "cancelled" /\ "cancelled" \notin Open
      /\ \A g \in File : g # f => status'[g] = status[g]
  BY <1>1, <1>2 DEF Open
<1>4. QED
  BY <1>1, <1>2, <1>3 DEF SlotInv

LEMMA SlotInvKept == ASSUME PageInv, SlotInv, [PageNext]_allVars PROVE SlotInv'
<1>1. /\ status \in [File -> Status] /\ \A w \in transport : w[1] \in File
      /\ dequeued \subseteq File /\ deleting \subseteq listed
      /\ \A g \in listed \cap File : status[g] # "absent"
      /\ Existing \cap File = {}
  BY BlockParts, PageAssumption DEF PageInv, CountInv, UploadInv, TypeOK
<1>2. ASSUME UNCHANGED <<status, transport, dequeued, listed, thrown>>,
             deleting' \subseteq deleting
      PROVE  SlotInv'
  BY <1>2 DEF SlotInv
<1>3. CASE UNCHANGED allVars
  BY <1>2, <1>3 DEF allVars, vars, netVars, logVars, pageVars, listVars
<1>4. ASSUME NEW f \in File, ChooseFile(f) PROVE SlotInv'
  <2>1. /\ status[f] = "absent" /\ status' = [status EXCEPT ![f] = "inited"]
        /\ listed' = listed \cup {f}
        /\ UNCHANGED <<transport, dequeued, deleting, thrown>>
    BY <1>4 DEF ChooseFile, AddFile, netVars, logVars
  <2>2. f \notin listed /\ f \notin dequeued /\ f \notin deleting
    BY <1>1, <2>1 DEF SlotInv
  <2>3. \A g \in File : g # f => status'[g] = status[g]
    BY <1>1, <2>1
  <2>4. \A w \in transport : w[1] # f
    BY <2>2 DEF SlotInv
  <2>5. status'[f] = "inited"
    BY <1>1, <2>1
  <2>6. \A w \in transport' : /\ w[1] \in listed' \ deleting'
                              /\ status'[w[1]] = "complete" => w[1] \in thrown'
    BY <1>1, <2>1, <2>3, <2>4 DEF SlotInv
  <2>7. \A g \in File : status'[g] \in Open => g \in listed' \ deleting'
    BY <2>1, <2>2, <2>3 DEF SlotInv
  <2>8. \A g \in dequeued' : g \notin listed' /\ status'[g] # "absent"
    BY <1>1, <2>1, <2>2, <2>3 DEF SlotInv
  <2>9. QED
    BY <2>6, <2>7, <2>8 DEF SlotInv
<1>5. ASSUME NEW f \in File \cup Existing, ClickRemove(f) PROVE SlotInv'
  <2>1. CASE HasId(f)
    <3>1. /\ UNCHANGED <<status, transport, dequeued, listed, thrown>>
          /\ deleting' = deleting \cup {f}
      BY <1>5, <2>1 DEF ClickRemove, vars, netVars, logVars
    <3>2. f \in File => status[f] = "complete" /\ f \notin thrown
      BY <1>1, <2>1 DEF HasId
    <3>3. \A w \in transport : w[1] # f
      BY <1>1, <3>2 DEF SlotInv
    <3>4. \A g \in File : status[g] \in Open => g # f
      BY <3>2 DEF Open
    <3>5. QED
      BY <3>1, <3>3, <3>4 DEF SlotInv
  <2>2. CASE ~HasId(f)
    <3>1. /\ f \in File /\ RemoveFile(f) /\ listed' = listed \ {f}
          /\ deleting' = deleting /\ thrown' = thrown
      BY <1>5, <2>2 DEF ClickRemove, HasId
    <3>2. QED
      BY <3>1, RemoveKeepsSlotInv
  <2>3. QED
    BY <2>1, <2>2
<1>6. ASSUME NEW f \in File \cup Existing, Deleted(f) PROVE SlotInv'
  <2>1. deleting' = deleting \ {f} /\ listed' = listed \ {f} /\ thrown' = thrown
    BY <1>6 DEF Deleted
  <2>2. CASE f \in File
    BY <1>6, <2>1, <2>2, RemoveKeepsSlotInv DEF Deleted
  <2>3. CASE f \notin File
    <3>1. UNCHANGED <<status, transport, dequeued>>
      BY <1>6, <2>3 DEF Deleted, vars, netVars, logVars
    <3>2. QED
      BY <1>1, <2>1, <2>3, <3>1 DEF SlotInv
  <2>4. QED
    BY <2>2, <2>3
<1>7. ASSUME NEW f \in File \cup Existing, DeleteFails(f) PROVE SlotInv'
  BY <1>2, <1>7 DEF DeleteFails, vars, netVars, logVars
<1>8. ASSUME NEW f \in File, SuccessThrows(f) \/ AnswerThrows(f) PROVE SlotInv'
  <2>1. HandlerThrows(f)
    BY <1>8 DEF SuccessThrows, AnswerThrows
  <2>2. /\ status' = [status EXCEPT ![f] = "complete"] /\ thrown' = thrown \cup {f}
        /\ UNCHANGED <<transport, dequeued, listed, deleting>>
    BY <2>1 DEF HandlerThrows, logVars
  <2>3. /\ status'[f] = "complete" /\ "complete" \notin Open
        /\ \A g \in File : g # f => status'[g] = status[g]
    BY <1>1, <2>2 DEF Open
  <2>4. QED
    BY <1>1, <2>2, <2>3 DEF SlotInv
<1>9. ASSUME AutoStart PROVE SlotInv'
  <2>1. /\ StartUpload(status)
        /\ UNCHANGED <<transport, dequeued, listed, deleting, thrown>>
    BY <1>9 DEF AutoStart, StartUpload, listVars, netVars
  <2>2. \A g \in File : /\ status'[g] \in Open => status[g] \in Open
                        /\ status'[g] = "complete" => status[g] = "complete"
                        /\ status'[g] = "absent" => status[g] = "absent"
    BY <2>1 DEF StartUpload, Open
  <2>3. QED
    BY <1>1, <2>1, <2>2 DEF SlotInv
<1>10. ASSUME Engine, UNCHANGED pageVars PROVE SlotInv'
  <2>1. UNCHANGED <<listed, deleting, thrown>>
    BY <1>10 DEF pageVars, listVars
  <2>2. \A g \in File : status[g] # "absent" => status'[g] # "absent"
    BY <1>10, EngineForgetsNone DEF PageInv
  <2>3. /\ dequeued' = dequeued
        /\ \A g \in File : status'[g] \in Open => status[g] \in Open
        /\ \A w \in transport' :
             /\ w[1] \in File
             /\ w \in transport \/ status[w[1]] = "progress"
             /\ status'[w[1]] = "complete" =>
                  w \in transport /\ status[w[1]] = "complete"
    BY <1>10, EngineSends DEF PageInv
  <2>4. "progress" \in Open
    BY DEF Open
  <2>5. QED
    BY <1>1, <2>1, <2>2, <2>3, <2>4 DEF SlotInv
<1>11. QED
  BY <1>3, <1>4, <1>5, <1>6, <1>7, <1>8, <1>9, <1>10 DEF PageNext

LEMMA SlotsComeFree == ASSUME PageInv, SlotInv PROVE SlotsReleased
<1>1. SUFFICES ASSUME NEW b \in pool, b \notin sending
               PROVE  \/ b[1] \notin thrown /\ (OnWire(b[1], b[2]) \/ b[1] \in finishing)
                      \/ b[1] \in thrown /\ b \in transport /\ Removable(b[1])
  BY DEF SlotsReleased
<1>2. b \in transport /\ b = <<b[1], b[2]>> /\ b[1] \in File
  BY <1>1, BlockParts DEF PageInv, UploadInv, SlotsHeld, TypeOK
<1>3. CASE b[1] \notin thrown
  BY <1>2, <1>3 DEF OnWire
<1>4. CASE b[1] \in thrown
  <2>1. b[1] \in listed \ (deleting \cup dequeued) /\ b[1] \notin Existing
    BY <1>2, PageAssumption DEF SlotInv
  <2>2. QED
    BY <1>2, <1>4, <2>1 DEF Removable, HasId
<1>5. QED
  BY <1>3, <1>4

THEOREM SlotsInductive == PageSpec => [](PageInv /\ SlotInv)
<1>1. PageInit => SlotInv
  BY DEF PageInit, Init, SlotInv, Open
<1>2. PageInv /\ SlotInv /\ [PageNext]_allVars => SlotInv'
  BY SlotInvKept
<1>3. QED
  BY <1>1, <1>2, PageInductive, PTL DEF PageSpec

(* The dialog drives the engine inside what the engine guarantees.  Its     *)
(* success handler may throw before uploadComplete is triggered: the file   *)
(* then keeps its slot until the user removes it, which he can.             *)
THEOREM PageKeepsSlots == PageSpec => [](SlotLimit /\ SlotsReleased)
<1>1. PageInv /\ SlotInv => SlotLimit /\ SlotsReleased
  BY SlotsComeFree DEF PageInv, UploadInv, Counted, SlotLimit
<1>2. QED
  BY <1>1, SlotsInductive, PTL

(* The dialog's count never exceeds the files it lists, so that it refuses  *)
(* no file while fewer than fileNumLimit are listed.                        *)
THEOREM CountIsCovered == PageSpec => []CountAtMostListed
<1>1. PageInv => CountAtMostListed
  <2>1. SUFFICES ASSUME PageInv PROVE count <= Cardinality(listed)
    BY DEF CountAtMostListed
  <2>2. /\ Cardinality(listed) \in Nat /\ Cardinality(deleting) \in Nat
        /\ count \in Int /\ count + Cardinality(deleting) <= Cardinality(listed)
    BY <2>1, FS_Subset, FS_CardinalityType DEF PageInv, CountInv
  <2>3. QED
    BY <2>2
<1>2. QED
  BY <1>1, PageInductive, PTL

--------------------------------------------------------------------------------
(* The dialog has no stop button and starts uploading by itself: at rest    *)
(* it has served every file that was chosen, or a success handler has       *)
(* thrown.                                                                  *)

(* No upload(), timer, preparation, answer or callback is due; what a       *)
(* handler that threw has left behind may be there.                         *)
PageAtRest ==
  /\ ticks = 0 /\ starts = 0 /\ sending = {} /\ finishing = {}
  /\ promise = None \/ promise \in thrown
  /\ \A w \in transport : w[1] \in thrown

(* At rest every chosen file is uploaded, has failed or was removed, or     *)
(* else the engine waits for a preparation that will not end, or for a file *)
(* with a remove link by which the user gives its slot back.                *)
PageRestIsDone ==
  PageAtRest =>
    \/ promise \in thrown
    \/ \E w \in transport : w[1] \in thrown /\ Removable(w[1])
    \/ \A f \in File : status[f] \in {"absent", "complete", "error", "cancelled"}

PageRestInv ==
  /\ RestInv
  /\ starts \in Nat
  /\ WithStatus("inited") # {} => starts > 0
  /\ WithStatus("queued") # {} => runing
  /\ WithStatus("interrupt") = {}

LEMMA EngineRests == ASSUME UploadInv, RestInv, Engine PROVE RestInv'
BY TickSendRests, TickFetchRests, TickIdleRests, StillRests, PreparedRests,
   PrepareFailsRests, FailRests, BeforeSendRests, LoadRests DEF Engine

(* Callbacks only take files on, and stop the engine when none is queued. *)
LEMMA EngineOnward ==
  ASSUME UploadInv, Engine
  PROVE  /\ \A s \in {"inited", "queued", "interrupt"} :
              WithStatus(s)' \subseteq WithStatus(s)
         /\ runing => runing' \/ WithStatus("queued") = {}
<1>1. status \in [File -> Status]
  BY DEF UploadInv, TypeOK
<1> DEFINE Onward == /\ \A f \in File : \/ status'[f] = status[f]
                                        \/ status'[f] \in {"progress", "complete", "error"}
                     /\ runing => runing' \/ WithStatus("queued") = {}
<1>2. ASSUME TickFetch PROVE Onward
  BY <1>1, <1>2 DEF TickFetch
<1>3. ASSUME TickSend \/ TickIdle \/ UploadFinished PROVE Onward
  BY <1>3 DEF TickSend, TickIdle, UploadFinished
<1>4. ASSUME NEW g \in File, Prepared(g) \/ PrepareFails(g) \/ FinishFile(g) PROVE Onward
  BY <1>1, <1>4 DEF Prepared, PrepareFails, FinishFile, flagVars
<1>5. ASSUME NEW g \in File, NEW k \in 1..Chunks[g],
             BeforeSend(g, k) \/ Load(g, k) \/ Fail(g, k)
      PROVE  Onward
  BY <1>1, <1>5 DEF BeforeSend, Load, Fail, flagVars
<1>6. Onward
  BY <1>2, <1>3, <1>4, <1>5 DEF Engine
<1>7. QED
  BY <1>6 DEF WithStatus

LEMMA ThrowsRests ==
  ASSUME UploadInv, RestInv, NEW f \in File, status[f] # "absent", HandlerThrows(f)
  PROVE  RestInv'
<1>1. /\ status' = [status EXCEPT ![f] = "complete"]
      /\ UNCHANGED <<queue, runing, promise, pool, remaning, ticks, left, cursor, stack>>
  BY DEF HandlerThrows, cutVars, flagVars, dueVars
<1>2. Pop({}, 0)
  <2>1. Cardinality({}) = 0 /\ remaning \in Nat /\ ticks \in Nat
        /\ Cardinality(pool) \in Nat
    BY FS_EmptySet, FS_CardinalityType DEF UploadInv, TypeOK, Counted
  <2>2. pool \in PoolAfter({})
    BY <2>1 DEF PoolAfter
  <2>3. QED
    BY <1>1, <2>1, <2>2 DEF Pop
<1>3. {} \in SUBSET pool /\ 0 \in Nat /\ "complete" \in {"error", "complete", "cancelled"}
  OBVIOUS
<1>4. QED
  BY <1>1, <1>2, <1>3, EndRests

LEMMA PageNextRests ==
  ASSUME UploadInv, PageRestInv, [PageNext]_allVars
  PROVE  PageRestInv'
<1> USE DEF PageRestInv
<1>0. status \in [File -> Status]
  BY DEF UploadInv, TypeOK
<1>1. ASSUME NEW f \in File, ChooseFile(f) PROVE PageRestInv'
  <2>1. /\ RestInv' /\ starts' = starts + 1
        /\ status' = [status EXCEPT ![f] = "inited"] /\ runing' = runing
    BY <1>1, AddFileRests DEF ChooseFile, AddFile, flagVars
  <2>2. QED
    BY <2>1, <1>0 DEF WithStatus
<1>2. ASSUME NEW f \in File, RemoveFile(f), starts' = starts PROVE PageRestInv'
  <2>1. /\ RestInv' /\ status' = [status EXCEPT ![f] = "cancelled"] /\ runing' = runing
    BY <1>2, RemoveFileRests DEF RemoveFile, flagVars
  <2>2. QED
    BY <2>1, <1>0, <1>2 DEF WithStatus
<1>3. ASSUME UNCHANGED vars, starts' = starts PROVE PageRestInv'
  BY <1>3, StillRests DEF vars, flagVars, WithStatus
<1>4. ASSUME NEW f \in File \cup Existing, ClickRemove(f) \/ Deleted(f) \/ DeleteFails(f)
      PROVE  PageRestInv'
  <2>1. starts' = starts /\ (UNCHANGED vars \/ (f \in File /\ RemoveFile(f)))
    BY <1>4 DEF ClickRemove, Deleted, DeleteFails, HasId
  <2>2. QED
    BY <2>1, <1>2, <1>3
<1>5. ASSUME NEW f \in File, SuccessThrows(f) \/ AnswerThrows(f) PROVE PageRestInv'
  <2>0. HandlerThrows(f) /\ status[f] # "absent"
    BY <1>5, ThrowsKeeps
  <2>1. /\ RestInv' /\ status' = [status EXCEPT ![f] = "complete"]
        /\ runing' = runing /\ starts' = starts
    BY <2>0, ThrowsRests DEF HandlerThrows, flagVars
  <2>2. QED
    BY <2>1, <1>0 DEF WithStatus
<1>6. ASSUME AutoStart PROVE PageRestInv'
  <2>1. /\ StartUpload(status) /\ starts' = starts - 1 /\ starts > 0
        /\ \A f \in File : /\ status'[f] # "inited"
                           /\ status'[f] = "interrupt" => status[f] = "interrupt"
        /\ runing' = TRUE
    BY <1>6 DEF AutoStart, StartUpload
  <2>2. RestInv'
    BY <1>0, <2>1, StartRests
  <2>3. QED
    BY <2>1, <2>2 DEF WithStatus
<1>7. ASSUME Engine, UNCHANGED pageVars PROVE PageRestInv'
  <2>1. RestInv' /\ starts' = starts
    BY <1>7, EngineRests DEF pageVars
  <2>2. QED
    BY <1>7, <2>1, EngineOnward
<1>8. CASE UNCHANGED allVars
  BY <1>3, <1>8 DEF allVars, pageVars
<1>9. QED
  BY <1>1, <1>4, <1>5, <1>6, <1>7, <1>8 DEF PageNext

(* The dialog never forgets a file: as long as one is chosen and neither    *)
(* uploaded, failed nor removed, an upload(), a timer, a preparation, a     *)
(* request or a callback is due, whatever was removed before; or a success  *)
(* handler has thrown, and the engine waits for a preparation that does not *)
(* end (SuccessThrows) or for the user to remove a file (AnswerThrows).     *)
THEOREM DialogServesAll == PageSpec => []PageRestIsDone
<1>1. PageInit => UploadInv /\ PageRestInv
  <2>1. ASSUME PageInit PROVE UploadInv /\ PageRestInv
    <3>1. Init /\ starts = 0
      BY <2>1 DEF PageInit
    <3>2. UploadInv /\ RestInv
      BY <3>1, InitGives, InitRests
    <3>3. QED
      BY <3>1, <3>2 DEF PageRestInv, Init, WithStatus
  <2>2. QED
    BY <2>1
<1>2. PageInv /\ PageRestInv /\ [PageNext]_allVars => PageRestInv'
  BY PageNextRests DEF PageInv
<1>3. PageInv /\ SlotInv /\ PageRestInv => PageRestIsDone
  <2>0. ASSUME PageInv, SlotInv, PageAtRest, transport # {}
        PROVE  \E w \in transport : w[1] \in thrown /\ Removable(w[1])
    <3>1. PICK w \in transport : w[1] \in thrown
      BY <2>0 DEF PageAtRest
    <3>2. w \in pool /\ w \notin sending
      BY <2>0 DEF PageAtRest, PageInv, UploadInv, SlotsHeld
    <3>3. QED
      BY <2>0, <3>1, <3>2, SlotsComeFree DEF SlotsReleased
  <2>1. SUFFICES ASSUME PageInv, SlotInv, PageRestInv, PageAtRest,
                        promise \notin thrown, transport = {}, NEW f \in File
                 PROVE  status[f] \in {"absent", "complete", "error", "cancelled"}
    BY <2>0 DEF PageRestIsDone
  <2>2. ~runing /\ WithStatus("progress") = {}
    BY <2>1, RestGives DEF PageInv, PageRestInv, PageAtRest, AtRest, RestIsDone
  <2>3. status[f] \in Status
    BY <2>1 DEF PageInv, UploadInv, TypeOK
  <2>4. status[f] \notin {"inited", "queued", "progress", "interrupt"}
    BY <2>1, <2>2 DEF PageRestInv, PageAtRest, WithStatus
  <2>5. QED
    BY <2>3, <2>4 DEF Status
<1>4. QED
  BY <1>1, <1>2, <1>3, SlotsInductive, PTL DEF PageSpec
================================================================================
