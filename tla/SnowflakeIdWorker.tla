---------------------------- MODULE SnowflakeIdWorker ----------------------------
(***************************************************************************)
(* The id generator of the e-book module (SnowflakeIdWorker): worker       *)
(* objects shared by threads, each id packed from the millisecond clock of *)
(* the host, the worker's number and a sequence that restarts every        *)
(* millisecond.  The clock may be set back.                                *)
(***************************************************************************)
EXTENDS Integers, Sequences

CONSTANTS
  Worker,      (* worker objects                                           *)
  Caller,      (* threads                                                  *)
  NoCaller,    (* the monitor of a worker object is free                   *)
  Number,      (* the (datacenterId, workerId) number of an object         *)
  Numbers,     (* how many such numbers there are (1024 in the code)       *)
  SeqSize,     (* sequence values per millisecond (4096 in the code)       *)
  MaxClock,    (* bound: the largest clock reading                         *)
  MaxIds       (* bound: ids issued in a behaviour                         *)

ASSUME WorkerAssumption ==
  /\ Numbers \in Nat \ {0} /\ SeqSize \in Nat \ {0}
  /\ Number \in [Worker -> 0..Numbers - 1]
  /\ NoCaller \notin Caller
  /\ MaxClock \in Nat /\ MaxIds \in Nat

VARIABLES
  clock,            (* System.currentTimeMillis() of the host              *)
  sequence,         (* worker -> sequence within the millisecond           *)
  lastTimestamp,    (* worker -> clock reading of the last id              *)
  waiting,          (* worker -> thread in tilNextMillis, monitor held     *)
  log               (* history: ids in the order they were returned        *)

vars == <<clock, sequence, lastTimestamp, waiting, log>>

Entry == [worker : Worker, timestamp : Int, seq : Nat]

\* Every variable has its type: the sequence stays within its field (SnowflakeIdWorker).
TypeOK ==
  /\ clock \in Nat
  /\ sequence \in [Worker -> 0..SeqSize - 1]
  /\ lastTimestamp \in [Worker -> Nat \cup {-1}]
  /\ waiting \in [Worker -> Caller \cup {NoCaller}]
  /\ log \in Seq(Entry)

Init ==
  /\ clock \in 0..MaxClock
  /\ sequence = [w \in Worker |-> 0]
  /\ lastTimestamp = [w \in Worker |-> -1]
  /\ waiting = [w \in Worker |-> NoCaller]
  /\ log = <<>>

\* The shifts and ors of the return statement: fields that do not overlap.
PackOverlapping(timestamp, number, seq) == timestamp * Numbers * SeqSize + number + seq
Pack(timestamp, number, seq) == (timestamp * Numbers + number) * SeqSize + seq
Id(e) == Pack(e.timestamp, Number[e.worker], e.seq)

Return(w, timestamp, seq) ==
  log' = Append(log, [worker |-> w, timestamp |-> timestamp, seq |-> seq])

\* The sequence restarts with the millisecond and wraps within it.
NextSeqUnmasked(w) == IF clock = lastTimestamp[w] THEN sequence[w] + 1 ELSE 0
NextSeq(w) == IF clock = lastTimestamp[w] THEN (sequence[w] + 1) % SeqSize ELSE 0

\* nextId from the acquisition of the monitor to its release or to the wait in
\* tilNextMillis.  A clock behind the last timestamp throws: no step.
NextId(c, w) ==
  /\ waiting[w] = NoCaller
  /\ \A v \in Worker : waiting[v] # c
  /\ Len(log) < MaxIds
  /\ clock >= lastTimestamp[w]
  /\ LET seq == NextSeq(w)
     IN  /\ sequence' = [sequence EXCEPT ![w] = seq]
         /\ IF clock = lastTimestamp[w] /\ seq = 0
              THEN /\ waiting' = [waiting EXCEPT ![w] = c]
                   /\ UNCHANGED <<lastTimestamp, log>>
              ELSE /\ lastTimestamp' = [lastTimestamp EXCEPT ![w] = clock]
                   /\ Return(w, clock, seq)
                   /\ UNCHANGED waiting
  /\ UNCHANGED clock

NextMillisEarly(w) ==
  /\ waiting[w] # NoCaller
  /\ clock >= lastTimestamp[w]
  /\ lastTimestamp' = [lastTimestamp EXCEPT ![w] = clock]
  /\ waiting' = [waiting EXCEPT ![w] = NoCaller]
  /\ Return(w, clock, sequence[w])
  /\ UNCHANGED <<clock, sequence>>
\* The loop of tilNextMillis ends once the clock has passed the last timestamp.
NextMillis(w) ==
  /\ waiting[w] # NoCaller
  /\ clock > lastTimestamp[w]
  /\ lastTimestamp' = [lastTimestamp EXCEPT ![w] = clock]
  /\ waiting' = [waiting EXCEPT ![w] = NoCaller]
  /\ Return(w, clock, sequence[w])
  /\ UNCHANGED <<clock, sequence>>

\* The host's clock advances, or is set back.
SetClock ==
  /\ clock' \in 0..MaxClock
  /\ UNCHANGED <<sequence, lastTimestamp, waiting, log>>

Next ==
  \/ \E c \in Caller, w \in Worker : NextId(c, w)
  \/ \E w \in Worker : NextMillis(w)
  \/ SetClock

Spec == Init /\ [][Next]_vars

-----------------------------------------------------------------------------
\* The ids one worker object returns grow, whatever the clock does and however
\* many threads call it (nextId, "thread safe").
Increasing ==
  \A i, j \in DOMAIN log :
    i < j /\ log[i].worker = log[j].worker => Id(log[i]) < Id(log[j])

\* Two objects with different numbers never return the same id.
Disjoint ==
  \A i, j \in DOMAIN log :
    Id(log[i]) = Id(log[j]) => Number[log[i].worker] = Number[log[j].worker]

\* The newest id a worker may have returned: while a thread waits for the next
\* millisecond, the whole sequence of the last one has been handed out.
Newest == [w \in Worker |->
  Pack(lastTimestamp[w], Number[w], IF waiting[w] = NoCaller THEN sequence[w] ELSE SeqSize - 1)]
LogInv ==
  \A i \in DOMAIN log : log[i].seq < SeqSize /\ Id(log[i]) <= Newest[log[i].worker]
WaitInv == \A w \in Worker : waiting[w] # NoCaller => sequence[w] = 0
IInv == TypeOK /\ Increasing /\ LogInv /\ WaitInv
=================================================================================
