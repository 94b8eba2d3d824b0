------------------------------ MODULE WebUploader ------------------------------
(***************************************************************************)
(* The upload engine of the browser pages: WebUploader's queue, upload and *)
(* transport widgets (static/plugin/webuploader-0.1.5/webuploader.js).     *)
(*                                                                         *)
(* JavaScript runs one callback at a time, so a step is one callback: a    *)
(* user's click, a timer or an answer of the server.  What is pending      *)
(* between two steps (ticks, files being prepared, blocks waiting for      *)
(* before-send, requests on the wire, files waiting for after-send-file)   *)
(* is state; timers may fire in any order, for a browser delays nested     *)
(* ones.  A file is cut into chunks that are sent at most Threads at a     *)
(* time.  The calls the pages make are modelled: addFile, upload(),        *)
(* stop(), removeFile(file) and retry().                                   *)
(***************************************************************************)
EXTENDS Naturals, Sequences, FiniteSets, Selection

CONSTANTS
  File,        (* files a user may choose                                  *)
  Chunks,      (* file -> number of chunks it is cut into                  *)
  Threads,     (* options.threads: blocks under way at the same time       *)
  ChunkRetry,  (* options.chunkRetry: automatic retries of one chunk       *)
  None,        (* "no file"                                                *)
  MaxClicks    (* bound: uses of the start, stop and retry buttons         *)

ASSUME UploaderAssumption ==
  /\ Chunks \in [File -> Nat \ {0}]
  /\ Threads \in Nat \ {0}
  /\ ChunkRetry \in Nat
  /\ None \notin File
  /\ MaxClicks \in Nat

VARIABLES
  status,     (* file -> File.Status; "absent" before it is added          *)
  queue,      (* Queue._queue: the files in the order they were added      *)
  runing,     (* uploading has been started and not stopped or finished    *)
  progress,   (* what isInProgress() answers                               *)
  trigged,    (* uploadFinished has been triggered for this round          *)
  promise,    (* file whose preparation the next tick waits for            *)
  skipping,   (* ... and whose preparation ended in _finishFile            *)
  stack,      (* files cut into chunks, in the order they were cut         *)
  cursor,     (* file -> first chunk of its stack entry still to be sent   *)
  pool,       (* blocks that hold one of the Threads slots                 *)
  remaning,   (* the engine's own count of them                            *)
  sending,    (* blocks in the pool whose before-send callback is due      *)
  transport,  (* blocks that have a Transport                              *)
  left,       (* file.remaning: blocks not yet popped; 0 when deleted      *)
  retried,    (* file -> chunk -> automatic retries so far                 *)
  finishing,  (* files whose after-send-file callback is due               *)
  ticks,      (* _tick calls due                                           *)
  finished,   (* uploadFinished triggers due                               *)
  clicks,     (* uses of the buttons so far                                *)
  dequeued,   (* history: files fileDequeued was triggered for             *)
  answered    (* history: blocks the server has answered with success      *)

netVars  == <<pool, remaning, sending, transport, left, retried, finishing>>
cutVars  == <<promise, skipping, stack, cursor>>
flagVars == <<runing, progress, trigged>>
dueVars  == <<ticks, finished>>
logVars  == <<clicks, dequeued, answered>>
vars == <<status, queue, netVars, cutVars, flagVars, dueVars, logVars>>

Block == UNION {{f} \X (1..Chunks[f]) : f \in File}
Status == {"absent", "inited", "queued", "progress", "error", "complete",
           "cancelled", "interrupt"}

Of(f, blocks) == {b \in blocks : b[1] = f}
MinusUnfloored(n, k) == n - k
Minus(n, k) == IF n > k THEN n - k ELSE 0
WithStatus(s) == {f \in File : status[f] = s}

(* _popBlock for each of the blocks given: the pool's entries after it.  A  *)
(* block that is not in the pool has index -1, for which splice removes the *)
(* last entry instead; which one that is, is left open.                     *)
PoolAfter(blocks) ==
  {rest \in SUBSET (pool \ blocks) :
     \/ Cardinality(rest) + Cardinality(blocks) = Cardinality(pool)
     \/ rest = {} /\ Cardinality(blocks) > Cardinality(pool)}

PopWithoutTick(blocks, more) ==
  /\ pool' \in PoolAfter(blocks)
  /\ remaning' = remaning - Cardinality(blocks)
  /\ ticks' = ticks + more
Pop(blocks, more) ==
  /\ pool' \in PoolAfter(blocks)
  /\ remaning' = remaning - Cardinality(blocks)
  /\ ticks' = ticks + Cardinality(blocks) + more

(* Aborts and destroys every transport of the file (cancelFile and the      *)
(* uploadComplete handler): each pops its block and asks for a tick; the    *)
(* caller asks for so many more.                                            *)
DestroyTransports(f, more) ==
  /\ transport' = transport \ Of(f, transport)
  /\ Pop(Of(f, transport), more)

(* uploadComplete: the file's blocks are given up and forgotten. *)
UploadComplete(f, more) ==
  /\ DestroyTransports(f, more)
  /\ left' = [left EXCEPT ![f] = 0]

Init ==
  /\ status = [f \in File |-> "absent"]
  /\ queue = <<>>
  /\ runing = FALSE /\ progress = FALSE /\ trigged = FALSE
  /\ promise = None /\ skipping = FALSE
  /\ stack = <<>> /\ cursor = [f \in File |-> 1]
  /\ pool = {} /\ remaning = 0 /\ sending = {} /\ transport = {}
  /\ left = [f \in File |-> 0] /\ retried = [f \in File |-> [k \in 1..Chunks[f] |-> 0]]
  /\ finishing = {}
  /\ ticks = 0 /\ finished = 0
  /\ clicks = 0 /\ dequeued = {} /\ answered = {}

(* _startSend(<<f, k>>), the file's cursor standing on k when it is called: *)
(* the block takes a slot, or goes back to the stack if the file was        *)
(* interrupted, or is dropped.                                              *)
StartSend(f, k) ==
  /\ IF status[f] = "progress"
     THEN /\ pool' = pool \cup {<<f, k>>}
          /\ remaning' = remaning + 1
          /\ sending' = sending \cup {<<f, k>>}
     ELSE UNCHANGED <<pool, remaning, sending>>
  /\ UNCHANGED <<transport, finishing>>

(***************************************************************************)
(* The user's calls.                                                       *)
(***************************************************************************)

(* addFile of one file; nothing starts it (options.auto is the dialog's). *)
AddFile(f) ==
  /\ status[f] = "absent"
  /\ status' = [status EXCEPT ![f] = "inited"]
  /\ queue' = Append(queue, f)
  /\ UNCHANGED <<netVars, cutVars, flagVars, dueVars, logVars>>

(* startUpload() over the given statuses: inited files are queued; unless   *)
(* it runs already, interrupted files go on and a tick is due.              *)
StartUpload(before) ==
  /\ status' = [f \in File |->
       IF before[f] = "inited" THEN "queued"
       ELSE IF before[f] = "interrupt" /\ ~runing THEN "progress"
       ELSE before[f]]
  /\ runing' = TRUE
  /\ IF runing THEN UNCHANGED <<progress, trigged, ticks>>
     ELSE progress' = TRUE /\ trigged' = FALSE /\ ticks' = ticks + 1
  /\ UNCHANGED <<queue, netVars, cutVars, finished, dequeued, answered>>

Upload ==
  /\ clicks < MaxClicks
  /\ clicks' = clicks + 1
  /\ StartUpload(status)

(* stop(): the files under way go on; the one being prepared is interrupted,*)
(* whatever its status is.                                                  *)
Stop ==
  /\ clicks < MaxClicks
  /\ clicks' = clicks + 1
  /\ runing
  /\ runing' = FALSE
  /\ status' = [f \in File |-> IF f = promise THEN "interrupt" ELSE status[f]]
  /\ UNCHANGED <<queue, netVars, cutVars, progress, trigged, dueVars,
                 dequeued, answered>>

(* retry(): every failed file is queued again, then upload().  A click      *)
(* comes later than a before-send timer of 1 ms that was already due.       *)
Retry ==
  /\ clicks < MaxClicks
  /\ clicks' = clicks + 1
  /\ WithStatus("error") # {}
  /\ \A b \in sending : status[b[1]] # "error"
  /\ StartUpload([f \in File |->
       IF status[f] = "error" THEN "queued" ELSE status[f]])

(* removeFile(file) = cancelFile: requests of the file are aborted, and the *)
(* file is cancelled in whatever status it was.                             *)
RemoveFile(f) ==
  /\ status[f] # "absent" /\ f \notin dequeued
  /\ DestroyTransports(f, 0)
  /\ left' = [left EXCEPT ![f] = Minus(@, Cardinality(Of(f, transport)))]
  /\ status' = [status EXCEPT ![f] = "cancelled"]
  /\ dequeued' = dequeued \cup {f}
  /\ UNCHANGED <<queue, sending, retried, finishing, cutVars, flagVars,
                 finished, clicks, answered>>

(***************************************************************************)
(* _tick: fill a free slot with the next chunk of a file under way; else   *)
(* fetch the next queued file and prepare it; else see whether all is done. *)
(* A tick that meets a file in preparation waits for it.                   *)
(***************************************************************************)
Has(f) == cursor[f] <= Chunks[f]
Sendable(f) == Has(f) /\ status[f] = "progress"
Kept(f) == Has(f) /\ status[f] \in {"progress", "interrupt"}
CanSend == \E i \in 1..Len(stack) : Sendable(stack[i])
CanFetch == runing /\ \E i \in 1..Len(queue) : status[queue[i]] = "queued"

FirstSendable == CHOOSE i \in 1..Len(stack) :
  Sendable(stack[i]) /\ \A j \in 1..i-1 : ~Sendable(stack[j])
FirstQueued == CHOOSE i \in 1..Len(queue) :
  status[queue[i]] = "queued" /\ \A j \in 1..i-1 : status[queue[j]] # "queued"

(* _getStack drops the entries it passes that are used up or whose file is  *)
(* neither under way nor interrupted.                                       *)
Pruned(n) == Selected(SubSeq(stack, 1, n), {f \in File : Kept(f)})
             \o SubSeq(stack, n + 1, Len(stack))

Ticking == ticks > 0 /\ promise = None
HasSlotOver == Cardinality(pool) <= Threads
HasSlot == Cardinality(pool) < Threads

TickSend ==
  /\ Ticking /\ HasSlot /\ CanSend
  /\ LET f == stack[FirstSendable] IN
     /\ stack' = Pruned(FirstSendable)
     /\ cursor' = [cursor EXCEPT ![f] = @ + 1]
     /\ StartSend(f, cursor[f])
  /\ trigged' = FALSE
  /\ ticks' = ticks - 1 + 1
  /\ UNCHANGED <<status, queue, promise, skipping, left, retried, runing,
                 progress, finished, logVars>>

TickFetch ==
  /\ Ticking /\ HasSlot /\ ~CanSend /\ CanFetch
  /\ stack' = Pruned(Len(stack))
  /\ promise' = queue[FirstQueued]
  /\ status' = [status EXCEPT ![queue[FirstQueued]] = "progress"]
  /\ trigged' = FALSE
  /\ ticks' = ticks - 1
  /\ UNCHANGED <<queue, skipping, cursor, netVars, runing, progress, finished,
                 logVars>>

TickIdle ==
  /\ Ticking /\ ~(HasSlot /\ (CanSend \/ CanFetch))
  /\ stack' = IF HasSlot THEN Pruned(Len(stack)) ELSE stack
  /\ ticks' = ticks - 1
  /\ IF remaning = 0 /\ WithStatus("queued") = {} /\ WithStatus("interrupt") = {}
     THEN /\ runing' = FALSE
          /\ trigged' = TRUE
          /\ finished' = IF trigged THEN finished ELSE finished + 1
     ELSE UNCHANGED <<runing, trigged, finished>>
  /\ UNCHANGED <<status, queue, promise, skipping, cursor, netVars, progress,
                 logVars>>

(* The trigger a tick left behind: isInProgress() answers no from here on. *)
UploadFinished ==
  /\ finished > 0
  /\ finished' = finished - 1
  /\ progress' = FALSE
  /\ UNCHANGED <<status, queue, netVars, cutVars, runing, trigged, ticks,
                 logVars>>

(***************************************************************************)
(* Preparing a file (before-send-file) and cutting it.                     *)
(***************************************************************************)

(* Prepared: a file still under way or interrupted is cut and its first     *)
(* chunk started; any other one is finished as if it had been skipped.      *)
Prepared(f) ==
  /\ promise = f /\ ~skipping
  /\ IF status[f] \in {"progress", "interrupt"}
     THEN /\ promise' = None /\ UNCHANGED skipping
          /\ stack' = Append(stack, f)
          /\ cursor' = [cursor EXCEPT ![f] =
                          IF status[f] = "interrupt" THEN 1 ELSE 2]
          /\ left' = [left EXCEPT ![f] = Chunks[f]]
          /\ retried' = [retried EXCEPT ![f] = [k \in 1..Chunks[f] |-> 0]]
          /\ StartSend(f, 1)
          /\ ticks' = ticks + 1
     ELSE /\ skipping' = TRUE
          /\ UNCHANGED <<promise, stack, cursor, netVars, ticks>>
  /\ UNCHANGED <<status, queue, flagVars, finished, logVars>>

(* The picture cannot be read (an image error during compression). *)
PrepareFails(f) ==
  /\ promise = f /\ ~skipping
  /\ promise' = None
  /\ status' = [status EXCEPT ![f] = "error"]
  /\ UploadComplete(f, 1)
  /\ UNCHANGED <<queue, sending, retried, finishing, skipping, stack, cursor,
                 flagVars, finished, logVars>>

(* The after-send-file callback of a file that was not cut. *)
FinishSkipped(f) ==
  /\ promise = f /\ skipping
  /\ promise' = None /\ skipping' = FALSE
  /\ status' = [status EXCEPT ![f] = "complete"]
  /\ UploadComplete(f, 1)
  /\ UNCHANGED <<queue, sending, retried, finishing, stack, cursor, flagVars,
                 finished, logVars>>

(***************************************************************************)
(* Blocks under way.                                                       *)
(***************************************************************************)

(* The before-send callback: the block goes to the server, unless its file  *)
(* is no longer under way; then it gives its slot back.                     *)
BeforeSendDrops(f, k) ==
  /\ <<f, k>> \in sending
  /\ sending' = sending \ {<<f, k>>}
  /\ transport' = IF status[f] = "progress" THEN transport \cup {<<f, k>>}
                  ELSE transport
  /\ UNCHANGED <<status, queue, pool, remaning, left, ticks, retried,
                 finishing, cutVars, flagVars, finished, logVars>>
BeforeSend(f, k) ==
  /\ <<f, k>> \in sending
  /\ sending' = sending \ {<<f, k>>}
  /\ IF status[f] = "progress"
     THEN /\ transport' = transport \cup {<<f, k>>}
          /\ UNCHANGED <<pool, remaning, left, ticks>>
     ELSE /\ Pop({<<f, k>>}, 0)
          /\ left' = [left EXCEPT ![f] = Minus(@, 1)]
          /\ UNCHANGED transport
  /\ UNCHANGED <<status, queue, retried, finishing, cutVars, flagVars,
                 finished, logVars>>

OnWire(f, k) == <<f, k>> \in transport /\ f \notin finishing

(* A 2xx answer: the last block left finishes the file (and keeps its slot  *)
(* until after-send-file is done), any other one gives its slot back.       *)
Load(f, k) ==
  /\ OnWire(f, k)
  /\ answered' = answered \cup {<<f, k>>}
  /\ IF left[f] = 1
     THEN /\ finishing' = finishing \cup {f}
          /\ UNCHANGED <<pool, remaning, transport, left, ticks>>
     ELSE /\ transport' = transport \ {<<f, k>>}
          /\ Pop({<<f, k>>}, 0)
          /\ left' = [left EXCEPT ![f] = Minus(@, 1)]
          /\ UNCHANGED finishing
  /\ UNCHANGED <<status, queue, sending, retried, cutVars, flagVars, finished,
                 clicks, dequeued>>

(* No connection or an HTTP error below 500: one of several chunks is sent  *)
(* again, ChunkRetry times.                                                 *)
Resend(f, k) ==
  /\ OnWire(f, k)
  /\ Chunks[f] > 1 /\ retried[f][k] < ChunkRetry
  /\ retried' = [retried EXCEPT ![f][k] = @ + 1]
  /\ UNCHANGED <<status, queue, pool, remaning, sending, transport, left,
                 finishing, cutVars, flagVars, dueVars, logVars>>

(* The file fails with its block: after the last automatic retry, on a 5xx  *)
(* answer and after the timeout of two minutes (both are never retried).    *)
FailOne(f, k) ==
  /\ OnWire(f, k)
  /\ status' = [status EXCEPT ![f] = "error"]
  /\ transport' = transport \ {<<f, k>>}
  /\ Pop({<<f, k>>}, 0)
  /\ left' = [left EXCEPT ![f] = Minus(@, 1)]
  /\ UNCHANGED <<queue, sending, retried, finishing, cutVars, flagVars,
                 finished, logVars>>
Fail(f, k) ==
  /\ OnWire(f, k)
  /\ status' = [status EXCEPT ![f] = "error"]
  /\ UploadComplete(f, 0)
  /\ UNCHANGED <<queue, sending, retried, finishing, cutVars, flagVars,
                 finished, logVars>>

(* The after-send-file callback: success, whatever happened to the file     *)
(* since the last answer.                                                   *)
FinishFile(f) ==
  /\ f \in finishing
  /\ finishing' = finishing \ {f}
  /\ status' = [status EXCEPT ![f] = "complete"]
  /\ UploadComplete(f, 0)
  /\ UNCHANGED <<queue, sending, retried, cutVars, flagVars, finished,
                 logVars>>

User == \/ \E f \in File : AddFile(f) \/ RemoveFile(f)
        \/ Upload \/ Stop \/ Retry
Timer == \/ TickSend \/ TickFetch \/ TickIdle \/ UploadFinished
         \/ \E f \in File : Prepared(f) \/ FinishSkipped(f) \/ FinishFile(f)
         \/ \E f \in File : \E k \in 1..Chunks[f] : BeforeSend(f, k)
Outside == \/ \E f \in File : PrepareFails(f)
           \/ \E f \in File : \E k \in 1..Chunks[f] :
                Load(f, k) \/ Resend(f, k) \/ Fail(f, k)

Next == User \/ Timer \/ Outside

Spec == Init /\ [][Next]_vars

(* Callbacks that are due are run; before-send-file ends one way or the     *)
(* other, and a request is answered or cut off by the transport's timeout   *)
(* of two minutes.  Nothing is assumed of the user.                         *)
Fairness ==
  /\ WF_vars(TickSend \/ TickFetch \/ TickIdle)
  /\ WF_vars(UploadFinished)
  /\ \A f \in File :
       /\ WF_vars(Prepared(f) \/ PrepareFails(f))
       /\ WF_vars(FinishSkipped(f)) /\ WF_vars(FinishFile(f))
       /\ \A k \in 1..Chunks[f] :
            /\ WF_vars(BeforeSend(f, k))
            /\ WF_vars(Load(f, k) \/ Resend(f, k) \/ Fail(f, k))

FairSpec == Spec /\ Fairness

--------------------------------------------------------------------------------

TypeOK ==
  /\ status \in [File -> Status]
  /\ queue \in Seq(File) /\ stack \in Seq(File)
  /\ runing \in BOOLEAN /\ progress \in BOOLEAN /\ trigged \in BOOLEAN
  /\ promise \in File \cup {None} /\ skipping \in BOOLEAN
  /\ cursor \in [File -> Nat] /\ \A f \in File : cursor[f] \in 1..Chunks[f] + 1
  /\ left \in [File -> Nat]
  /\ pool \subseteq Block /\ sending \subseteq Block /\ transport \subseteq Block
  /\ {remaning, ticks, finished, clicks} \subseteq Nat
  /\ finishing \subseteq File /\ dequeued \subseteq File
  /\ answered \subseteq Block
  /\ DOMAIN retried = File
  /\ \A f \in File : retried[f] \in [1..Chunks[f] -> 0..ChunkRetry]

(* No more than Threads blocks are under way, and the engine's own count of *)
(* them, on which the end of the upload depends, is right (_tick,           *)
(* _popBlock, _startSend).                                                  *)
SlotLimit == Cardinality(pool) <= Threads /\ remaning = Cardinality(pool)

(* Every slot is held by a block that a before-send callback, an answer or  *)
(* an after-send-file callback will still release, and by one of them only: *)
(* no slot leaks, however removals, failures and retries cross.             *)
SlotsHeld ==
  /\ pool = sending \cup transport
  /\ sending \cap transport = {}

(* A file shown as uploaded that was not removed has every chunk answered   *)
(* with success, whatever failed, was retried or stopped before             *)
(* (_finishFile is called on the count file.remaning alone).                *)
CompleteMeansAnswered ==
  \A f \in WithStatus("complete") \ dequeued :
    \A k \in 1..Chunks[f] : <<f, k>> \in answered

(* The file being prepared has no block under way of an earlier attempt:    *)
(* cutting it again could not tell them apart.                              *)
CutFresh == promise # None => Of(promise, pool) = {}

(* What the page shows of a file that is over stays true, whatever answers  *)
(* and timers are still to come: a failed one is only retried or removed,   *)
(* an uploaded one only removed.                                            *)
OutcomesStay ==
  [][/\ \A f \in WithStatus("error") :
          status'[f] \in {"error", "queued", "cancelled"}
     /\ \A f \in WithStatus("complete") :
          status'[f] \in {"complete", "cancelled"}]_vars

(* No timer, preparation, request or callback is due; a trigger of          *)
(* uploadFinished may be.                                                   *)
AtRest ==
  /\ ticks = 0 /\ promise = None
  /\ sending = {} /\ transport = {} /\ finishing = {}

(* An engine that runs, or has a file half uploaded, has a callback to come:*)
(* whatever was stopped, removed, retried or failed in between, no tick is  *)
(* lost (startUpload schedules none while the uploader runs).               *)
RestIsDone == AtRest => ~runing /\ WithStatus("progress") = {}

(* A file that is being uploaded comes to an end, stop() or not: it is      *)
(* complete, failed, removed or interrupted, and never left hanging.        *)
ProgressEnds ==
  \A f \in File : status[f] = "progress" ~> status[f] # "progress"

(* A queued file gets its turn as long as the uploader is not stopped.      *)
QueuedServed ==
  \A f \in File :
    status[f] = "queued" ~> (status[f] # "queued" \/ ~runing)

(* No file waits for ever, neither on the wire nor in the queue.            *)
NoFileHangs == ProgressEnds /\ QueuedServed
================================================================================
