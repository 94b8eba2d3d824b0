------------------------------ MODULE ScheduleJob ------------------------------
(***************************************************************************)
(* The timed jobs of the monitor module: rows of sys_schedule             *)
(* (ScheduleJobService, ScheduleJobController) and the jobs of the Quartz  *)
(* scheduler that are to mirror them.                                      *)
(*                                                                         *)
(* SchedulerFactoryBean is given the application's data source, so what a  *)
(* service method does to Quartz and to its row commits or rolls back as   *)
(* one step.  What a request has read is older: the controller's           *)
(* @ModelAttribute loads the row, and save reads the old name, before that.*)
(***************************************************************************)
EXTENDS Integers

CONSTANTS
  Row,         (* ids of stored rows; an id is a fresh UUID               *)
  Name,        (* Quartz keys: a job name with its group                   *)
  Def,         (* what a job runs and when: class and cron expression      *)
  Admin,       (* request threads                                          *)
  None,        (* no row, no job, no request                               *)
  MaxFaults    (* bound: SchedulerExceptions of a behaviour                *)

ASSUME ScheduleAssumption ==
  /\ None \notin [name : Name, def : Def, running : BOOLEAN]
  /\ None \notin [def : Def, running : BOOLEAN]
  /\ None \notin Row
  /\ MaxFaults \in Nat

VARIABLES
  row,         (* id -> the stored row                                     *)
  born,        (* ids that have been given out                             *)
  quartz,      (* key -> the job Quartz holds under it                     *)
  req,         (* thread -> the request it serves, with what it has read   *)
  faults,      (* number of SchedulerExceptions so far                     *)
  cause        (* history: what may have parted rows and jobs              *)

vars == <<row, born, quartz, req, faults, cause>>

Entity  == [name : Name, def : Def, running : BOOLEAN]
Job     == [def : Def, running : BOOLEAN]
Request == [op : {"save", "delete", "stop", "resume"}, id : Row \cup {None},
            entity : Entity, seen : Entity \cup {None}]
NoReq   == [op |-> "idle"]

\* Every variable has its type, and a stored row has an id that was handed out
\* (ScheduleJobService).
TypeOK ==
  /\ row \in [Row -> Entity \cup {None}]
  /\ born \subseteq Row /\ {r \in Row : row[r] # None} \subseteq born
  /\ quartz \in [Name -> Job \cup {None}]
  /\ req \in [Admin -> Request \cup {NoReq}]
  /\ faults \in Nat
  /\ cause \subseteq {"overlap", "fault", "shared"}

Init ==
  /\ row = [r \in Row |-> None]
  /\ born = {}
  /\ quartz = [n \in Name |-> None]
  /\ req = [a \in Admin |-> NoReq]
  /\ faults = 0
  /\ cause = {}

(***************************************************************************)
(* What a request reads before its transaction changes anything.           *)
(***************************************************************************)

\* The entity of delete, stop and resume is the row as loaded by get(id).
Load(a, o, r) ==
  /\ req[a] = NoReq
  /\ row[r] # None
  /\ req' = [req EXCEPT ![a] = [op |-> o, id |-> r, entity |-> row[r], seen |-> row[r]]]
  /\ UNCHANGED <<row, born, quartz, faults, cause>>

\* The form carries all fields of the entity; save reads the row it replaces.
\* A row that is gone makes t null, and save ends with an exception.
Submit(a, r, e) ==
  /\ req[a] = NoReq
  /\ row[r] # None
  /\ req' = [req EXCEPT ![a] = [op |-> "save", id |-> r, entity |-> e, seen |-> row[r]]]
  /\ UNCHANGED <<row, born, quartz, faults, cause>>

SubmitNew(a, e) ==
  /\ req[a] = NoReq
  /\ req' = [req EXCEPT ![a] = [op |-> "save", id |-> None, entity |-> e, seen |-> None]]
  /\ UNCHANGED <<row, born, quartz, faults, cause>>

(***************************************************************************)
(* The scheduler.                                                          *)
(***************************************************************************)

Unscheduled(q, n) == [q EXCEPT ![n] = None]

\* scheduleJob refuses a key that is taken; the exception is swallowed.
Scheduled(q, e) ==
  IF q[e.name] = None THEN [q EXCEPT ![e.name] = [def |-> e.def, running |-> e.running]] ELSE q

\* pauseJob and resumeJob of a key Quartz does not know do nothing.
Switched(q, n, on) == IF q[n] = None THEN q ELSE [q EXCEPT ![n].running = on]

\* save: deleteJob of the old name unless the entity is new, then add.
Replaced(rq) == IF rq.id = None THEN quartz ELSE Unscheduled(quartz, rq.seen.name)

(***************************************************************************)
(* The transaction of each service method.                                 *)
(***************************************************************************)
Outdated(rq) == rq.id # None /\ row[rq.id] # rq.seen

Finish(a, reasons) ==
  /\ req' = [req EXCEPT ![a] = NoReq]
  /\ cause' = cause \cup reasons \cup (IF Outdated(req[a]) THEN {"overlap"} ELSE {})

StoreSameId(rq, e) ==
  IF rq.id = None
    THEN \E r \in Row \ born : row' = [row EXCEPT ![r] = e] /\ UNCHANGED born
    ELSE /\ row' = IF row[rq.id] = None THEN row ELSE [row EXCEPT ![rq.id] = e]
         /\ UNCHANGED born
\* super.save: insert under a fresh id, or update the row if it is still there.
Store(rq, e) ==
  IF rq.id = None
    THEN \E r \in Row \ born : row' = [row EXCEPT ![r] = e] /\ born' = born \cup {r}
    ELSE /\ row' = IF row[rq.id] = None THEN row ELSE [row EXCEPT ![rq.id] = e]
         /\ UNCHANGED born

Shared(rq) ==
  IF \E r \in Row \ {rq.id} : row[r] # None /\ row[r].name = rq.entity.name THEN {"shared"} ELSE {}

Save(a) ==
  /\ req[a].op = "save"
  /\ quartz' = Scheduled(Replaced(req[a]), req[a].entity)
  /\ Store(req[a], req[a].entity)
  /\ Finish(a, Shared(req[a]))
  /\ UNCHANGED faults

\* Any call of save on the scheduler may throw; the row is stored all the same.
SaveFaulty(a) ==
  /\ req[a].op = "save"
  /\ faults < MaxFaults
  /\ faults' = faults + 1
  /\ quartz' \in {Scheduled(quartz, req[a].entity),
                  Replaced(req[a]),
                  Scheduled(Replaced(req[a]), [req[a].entity EXCEPT !.running = TRUE])}
  /\ Store(req[a], req[a].entity)
  /\ Finish(a, Shared(req[a]) \cup {"fault"})

DeleteRowOnly(a) ==
  /\ req[a].op = "delete"
  /\ row' = [row EXCEPT ![req[a].id] = None]
  /\ Finish(a, {})
  /\ UNCHANGED <<born, quartz, faults>>
Delete(a) ==
  /\ req[a].op = "delete"
  /\ quartz' = Unscheduled(quartz, req[a].entity.name)
  /\ row' = [row EXCEPT ![req[a].id] = None]
  /\ Finish(a, {})
  /\ UNCHANGED <<born, faults>>

StoreOnly(a, o, on) ==
  /\ req[a].op = o
  /\ Store(req[a], [req[a].entity EXCEPT !.running = on])
  /\ Finish(a, {})
  /\ UNCHANGED <<quartz, faults>>
\* stopJob and restartJob store the entity as it was loaded, status apart.  The
\* triggerJob that follows a resume fires the job once and changes neither side.
Switch(a, o, on) ==
  /\ req[a].op = o
  /\ quartz' = Switched(quartz, req[a].entity.name, on)
  /\ Store(req[a], [req[a].entity EXCEPT !.running = on])
  /\ Finish(a, {})
  /\ UNCHANGED faults
Stop(a)   == Switch(a, "stop", FALSE)
Resume(a) == Switch(a, "resume", TRUE)

\* The one scheduler call of delete, stop or resume throws, before the row is
\* touched; or an unchecked exception rolls the transaction back.
GiveUp(a) ==
  /\ req[a] # NoReq
  /\ req' = [req EXCEPT ![a] = NoReq]
  /\ UNCHANGED <<row, born, quartz, faults, cause>>

-----------------------------------------------------------------------------
Begin(a) ==
  \/ \E r \in Row : \/ \E o \in {"delete", "stop", "resume"} : Load(a, o, r)
                    \/ \E e \in Entity : Submit(a, r, e)
  \/ \E e \in Entity : SubmitNew(a, e)

Next ==
  \E a \in Admin :
    \/ Begin(a)
    \/ Save(a) \/ SaveFaulty(a) \/ Delete(a) \/ Stop(a) \/ Resume(a) \/ GiveUp(a)

Spec == Init /\ [][Next]_vars

-----------------------------------------------------------------------------
JobOf(e) == [def |-> e.def, running |-> e.running]

\* A job runs under a key only while some row has that name: no job is left that
\* no page of the application shows.  Only a swallowed SchedulerException in save
\* or a request that overtook another's change to its row can break it (save,
\* delete).
NoOrphan ==
  cause \cap {"overlap", "fault"} = {} =>
    \A n \in Name : quartz[n] # None => \E r \in Row : row[r] # None /\ row[r].name = n

\* Rows and jobs agree, definition and state, unless one of three things has
\* happened: those two, or a row saved under a name another row has.
Mirror ==
  cause = {} =>
    \A r \in Row : row[r] # None => quartz[row[r].name] = JobOf(row[r])

\* Strengthening: while no name has been shared, names are unique.
UniqueNames ==
  cause = {} =>
    \A r, s \in Row : row[r] # None /\ row[s] # None /\ row[r].name = row[s].name => r = s
ReqInv ==
  \A a \in Admin :
    /\ req[a] # NoReq /\ req[a].id # None => req[a].seen # None
    /\ req[a] # NoReq /\ req[a].op # "save" => req[a].id # None /\ req[a].entity = req[a].seen
IInv == TypeOK /\ NoOrphan /\ Mirror /\ UniqueNames /\ ReqInv
=============================================================================
