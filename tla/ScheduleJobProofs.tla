--------------------------- MODULE ScheduleJobProofs ---------------------------
(***************************************************************************)
(* Type correctness of ScheduleJob, and that stored rows and Quartz jobs   *)
(* agree unless a swallowed exception, an overtaken request or a shared    *)
(* name has parted them: for any rows, keys, definitions and threads.      *)
(***************************************************************************)
EXTENDS ScheduleJob, TLAPS

\* A request under way is one of the records of Request.
LEMMA ReqType ==
  ASSUME TypeOK, NEW a \in Admin, req[a] # NoReq
  PROVE  req[a] \in Request
BY DEF TypeOK

\* A request whose op is not idle is under way.
LEMMA Busy ==
  ASSUME TypeOK, NEW a \in Admin, req[a].op \in {"save", "delete", "stop", "resume"}
  PROVE  req[a] # NoReq /\ req[a] \in Request
BY DEF TypeOK, NoReq

\* The scheduler's calls keep the type of its jobs.
LEMMA QuartzType ==
  ASSUME NEW q \in [Name -> Job \cup {None}], NEW n \in Name, NEW e \in Entity, NEW on \in BOOLEAN
  PROVE  /\ Unscheduled(q, n) \in [Name -> Job \cup {None}]
         /\ Scheduled(q, e) \in [Name -> Job \cup {None}]
         /\ Switched(q, n, on) \in [Name -> Job \cup {None}]
BY DEF Unscheduled, Scheduled, Switched, Job, Entity

\* What save leaves of the old job is well typed.
LEMMA ReplacedType ==
  ASSUME TypeOK, ReqInv, NEW a \in Admin, req[a].op = "save"
  PROVE  Replaced(req[a]) \in [Name -> Job \cup {None}]
<1>1. req[a] # NoReq /\ req[a] \in Request
  BY Busy
<1>2. CASE req[a].id = None
  BY <1>2 DEF Replaced, TypeOK
<1>3. CASE req[a].id # None
  <2>1. req[a].seen \in Entity
    BY <1>1, <1>3 DEF ReqInv, Request
  <2>2. req[a].seen.name \in Name
    BY <2>1 DEF Entity
  <2> QED BY <1>3, <2>2 DEF Replaced, TypeOK, Unscheduled
<1> QED BY <1>2, <1>3

\* Storing an entity keeps the rows well typed and their ids handed out.
LEMMA StoreType ==
  ASSUME TypeOK, NEW rq \in Request, NEW e \in Entity, Store(rq, e)
  PROVE  /\ row' \in [Row -> Entity \cup {None}]
         /\ born' \subseteq Row /\ {r \in Row : row'[r] # None} \subseteq born'
<1>1. CASE rq.id = None
  BY <1>1 DEF Store, TypeOK
<1>2. CASE rq.id # None
  <2>1. rq.id \in Row
    BY <1>2 DEF Request
  <2> QED BY <1>2, <2>1 DEF Store, TypeOK
<1> QED BY <1>1, <1>2

\* Ending a request keeps the requests and the history well typed.
LEMMA FinishType ==
  ASSUME TypeOK, NEW a \in Admin, NEW R \in SUBSET {"overlap", "fault", "shared"}, Finish(a, R)
  PROVE  /\ req' \in [Admin -> Request \cup {NoReq}]
         /\ cause' \subseteq {"overlap", "fault", "shared"}
BY DEF TypeOK, Finish

\* Every step keeps every variable well typed, and requests keep what they read.
LEMMA TypeStep ==
  ASSUME TypeOK, ReqInv, [Next]_vars
  PROVE  TypeOK'
<1>1. ASSUME NEW a \in Admin, NEW r \in Row, NEW o \in {"delete", "stop", "resume"}, Load(a, o, r)
      PROVE  TypeOK'
  <2>1. [op |-> o, id |-> r, entity |-> row[r], seen |-> row[r]] \in Request
    BY <1>1 DEF TypeOK, Load, Request
  <2> QED BY <1>1, <2>1 DEF TypeOK, Load
<1>2. ASSUME NEW a \in Admin, NEW r \in Row, NEW e \in Entity, Submit(a, r, e)
      PROVE  TypeOK'
  <2>1. [op |-> "save", id |-> r, entity |-> e, seen |-> row[r]] \in Request
    BY <1>2 DEF TypeOK, Submit, Request
  <2> QED BY <1>2, <2>1 DEF TypeOK, Submit
<1>3. ASSUME NEW a \in Admin, NEW e \in Entity, SubmitNew(a, e)
      PROVE  TypeOK'
  <2>1. [op |-> "save", id |-> None, entity |-> e, seen |-> None] \in Request
    BY DEF Request
  <2> QED BY <1>3, <2>1 DEF TypeOK, SubmitNew
<1>4. ASSUME NEW a \in Admin, Save(a)
      PROVE  TypeOK'
  <2>1. req[a] \in Request /\ req[a].op = "save"
    BY <1>4, Busy DEF Save
  <2>2. req[a].entity \in Entity /\ Shared(req[a]) \subseteq {"overlap", "fault", "shared"}
    BY <2>1 DEF Request, Shared
  <2>3. Scheduled(Replaced(req[a]), req[a].entity) \in [Name -> Job \cup {None}]
    BY <2>1, <2>2, ReplacedType DEF Scheduled, Entity, Job
  <2> QED BY <1>4, <2>1, <2>2, <2>3, StoreType, FinishType DEF TypeOK, Save
<1>5. ASSUME NEW a \in Admin, SaveFaulty(a)
      PROVE  TypeOK'
  <2>1. req[a] \in Request /\ req[a].op = "save"
    BY <1>5, Busy DEF SaveFaulty
  <2>2. /\ req[a].entity \in Entity
        /\ [req[a].entity EXCEPT !.running = TRUE] \in Entity
        /\ Shared(req[a]) \cup {"fault"} \subseteq {"overlap", "fault", "shared"}
    BY <2>1 DEF Request, Shared, Entity
  <2>3. quartz' \in [Name -> Job \cup {None}]
    <3>1. /\ Scheduled(quartz, req[a].entity) \in [Name -> Job \cup {None}]
          /\ Replaced(req[a]) \in [Name -> Job \cup {None}]
          /\ Scheduled(Replaced(req[a]), [req[a].entity EXCEPT !.running = TRUE]) \in [Name -> Job \cup {None}]
      BY <2>1, <2>2, ReplacedType DEF Scheduled, Entity, Job, TypeOK
    <3> QED BY <1>5, <3>1 DEF SaveFaulty
  <2>4. /\ row' \in [Row -> Entity \cup {None}]
        /\ born' \subseteq Row /\ {r \in Row : row'[r] # None} \subseteq born'
    BY <1>5, <2>1, <2>2, StoreType DEF SaveFaulty
  <2>5. /\ req' \in [Admin -> Request \cup {NoReq}]
        /\ cause' \subseteq {"overlap", "fault", "shared"}
    BY <1>5, <2>2, FinishType DEF SaveFaulty
  <2>6. faults' \in Nat
    BY <1>5 DEF TypeOK, SaveFaulty
  <2> QED BY <2>3, <2>4, <2>5, <2>6 DEF TypeOK
<1>6. ASSUME NEW a \in Admin, Delete(a)
      PROVE  TypeOK'
  <2>1. req[a] # NoReq /\ req[a] \in Request /\ req[a].op = "delete"
    BY <1>6, Busy DEF Delete
  <2>2. req[a].entity.name \in Name
    BY <2>1 DEF Request, Entity
  <2>3. quartz' \in [Name -> Job \cup {None}]
    BY <1>6, <2>2 DEF TypeOK, Delete, Unscheduled
  <2>4. req' \in [Admin -> Request \cup {NoReq}] /\ cause' \subseteq {"overlap", "fault", "shared"}
    BY <1>6, FinishType DEF Delete
  <2> QED BY <1>6, <2>3, <2>4 DEF TypeOK, Delete
<1>7. ASSUME NEW a \in Admin, NEW o \in {"stop", "resume"}, NEW on \in BOOLEAN, Switch(a, o, on)
      PROVE  TypeOK'
  <2>1. req[a] \in Request
    BY <1>7, Busy DEF Switch
  <2>2. req[a].entity.name \in Name /\ [req[a].entity EXCEPT !.running = on] \in Entity
    BY <2>1 DEF Request, Entity
  <2>3. quartz' \in [Name -> Job \cup {None}]
    BY <1>7, <2>2 DEF TypeOK, Switch, Switched, Job
  <2>4. req' \in [Admin -> Request \cup {NoReq}] /\ cause' \subseteq {"overlap", "fault", "shared"}
    BY <1>7, FinishType DEF Switch
  <2> QED BY <1>7, <2>1, <2>2, <2>3, <2>4, StoreType DEF TypeOK, Switch
<1>8. ASSUME NEW a \in Admin, GiveUp(a)
      PROVE  TypeOK'
  BY <1>8 DEF TypeOK, GiveUp
<1>9. CASE UNCHANGED vars
  BY <1>9 DEF TypeOK, vars
<1> QED
  BY <1>1, <1>2, <1>3, <1>4, <1>5, <1>6, <1>7, <1>8, <1>9 DEF Next, Begin, Stop, Resume

\* Every step keeps what is known of a request's entity and of the row it read.
LEMMA ReqStep ==
  ASSUME TypeOK, ReqInv, [Next]_vars
  PROVE  ReqInv'
<1>1. ASSUME NEW a \in Admin, NEW r \in Row, NEW o \in {"delete", "stop", "resume"}, Load(a, o, r)
      PROVE  ReqInv'
  BY <1>1, ScheduleAssumption DEF TypeOK, ReqInv, Load, NoReq
<1>2. ASSUME NEW a \in Admin, NEW r \in Row, NEW e \in Entity, Submit(a, r, e)
      PROVE  ReqInv'
  BY <1>2 DEF TypeOK, ReqInv, Submit, NoReq
<1>3. ASSUME NEW a \in Admin, NEW e \in Entity, SubmitNew(a, e)
      PROVE  ReqInv'
  BY <1>3 DEF TypeOK, ReqInv, SubmitNew, NoReq
<1>4. ASSUME NEW a \in Admin, req' = [req EXCEPT ![a] = NoReq]
      PROVE  ReqInv'
  BY <1>4 DEF TypeOK, ReqInv, NoReq
<1>5. CASE UNCHANGED vars
  BY <1>5 DEF ReqInv, vars
<1> QED
  BY <1>1, <1>2, <1>3, <1>4, <1>5
     DEF Next, Begin, Save, SaveFaulty, Delete, Switch, Stop, Resume, GiveUp, Finish

Agree == NoOrphan /\ Mirror /\ UniqueNames

\* A request that is not outdated ends on the row it read.
LEMMA Fresh ==
  ASSUME IInv, NEW a \in Admin, req[a] # NoReq, ~Outdated(req[a]), req[a].id # None
  PROVE  /\ req[a].id \in Row /\ row[req[a].id] = req[a].seen
         /\ row[req[a].id] # None /\ row[req[a].id] \in Entity
  BY DEF IInv, TypeOK, ReqInv, Outdated, Request

\* A step that only reads, or ends a request with nothing done, keeps Agree.
LEMMA QuietAgree ==
  ASSUME IInv, UNCHANGED <<row, quartz, cause>>
  PROVE  Agree'
BY DEF IInv, Agree, NoOrphan, Mirror, UniqueNames

\* save keeps Agree: the old key is freed before the new one is taken.
LEMMA SaveAgree ==
  ASSUME IInv, NEW a \in Admin, Save(a)
  PROVE  Agree'
<1> DEFINE rq == req[a]
           e  == req[a].entity
<1>1. /\ rq # NoReq /\ rq \in Request /\ e \in Entity /\ e.name \in Name
  BY Busy DEF IInv, Save, Request, Entity
<1>2. /\ quartz' = Scheduled(Replaced(rq), e)
      /\ Store(rq, e)
      /\ cause' = cause \cup Shared(rq) \cup (IF Outdated(rq) THEN {"overlap"} ELSE {})
  BY DEF Save, Finish
<1>3. PICK i \in Row :
        /\ row' = [row EXCEPT ![i] = e] \/ (Outdated(rq) /\ row' = row)
        /\ rq.id = None => row[i] = None
        /\ rq.id # None => i = rq.id
  BY <1>1, <1>2 DEF Store, IInv, TypeOK, Request, Outdated, ReqInv
<1>4. Shared(rq) \subseteq {"shared"}
  BY DEF Shared
<1>5. NoOrphan'
  <2> SUFFICES ASSUME cause' \cap {"overlap", "fault"} = {}, NEW n \in Name, quartz'[n] # None
               PROVE  \E r \in Row : row'[r] # None /\ row'[r].name = n
    BY DEF NoOrphan
  <2>1. cause \cap {"overlap", "fault"} = {} /\ ~Outdated(rq)
    BY <1>2
  <2>2. row' = [row EXCEPT ![i] = e] /\ row'[i] = e /\ e # None
    BY <1>1, <1>3, <2>1, ScheduleAssumption DEF IInv, TypeOK, Entity
  <2>3. CASE n = e.name
    BY <2>2, <2>3
  <2>4. CASE n # e.name
    <3>1. quartz[n] # None /\ (rq.id # None => n # rq.seen.name)
      BY <1>1, <1>2, <2>4 DEF IInv, TypeOK, Scheduled, Replaced, Unscheduled
    <3>2. PICK r \in Row : row[r] # None /\ row[r].name = n
      BY <2>1, <3>1 DEF IInv, NoOrphan
    <3>3. r # i
      BY <1>3, <2>1, <3>1, <3>2, Fresh, <1>1
    <3> QED BY <2>2, <3>2, <3>3
  <2> QED BY <2>3, <2>4
<1>6. ASSUME cause' = {}
      PROVE  /\ cause = {} /\ ~Outdated(rq) /\ row' = [row EXCEPT ![i] = e]
             /\ \A r \in Row \ {i} : row[r] # None => row[r].name # e.name
             /\ rq.id # None => row[i] # None /\ row[i] = rq.seen
  <2>1. cause = {} /\ ~Outdated(rq) /\ Shared(rq) = {}
    BY <1>2, <1>6
  <2>2. \A r \in Row \ {rq.id} : row[r] # None => row[r].name # e.name
    BY <2>1 DEF Shared
  <2>3. row' = [row EXCEPT ![i] = e]
    BY <1>3, <2>1
  <2>4. \A r \in Row \ {i} : row[r] # None => row[r].name # e.name
    BY <1>3, <2>2, ScheduleAssumption
  <2>5. rq.id # None => row[i] # None /\ row[i] = rq.seen
    BY <1>1, <1>3, <2>1, Fresh
  <2> QED BY <2>1, <2>3, <2>4, <2>5
<1>7. UniqueNames'
  <2> SUFFICES ASSUME cause' = {}, NEW r \in Row, NEW s \in Row, row'[r] # None, row'[s] # None,
                      row'[r].name = row'[s].name
               PROVE  r = s
    BY DEF UniqueNames
  <2>1. /\ \A t \in Row \ {i} : row'[t] = row[t]
        /\ row'[i] = e
    BY <1>6 DEF IInv, TypeOK
  <2> QED BY <1>6, <2>1 DEF IInv, UniqueNames
<1>8. Mirror'
  <2> SUFFICES ASSUME cause' = {}, NEW r \in Row, row'[r] # None
               PROVE  quartz'[row'[r].name] = JobOf(row'[r])
    BY DEF Mirror
  <2>1. /\ \A t \in Row \ {i} : row'[t] = row[t]
        /\ row'[i] = e
    BY <1>6 DEF IInv, TypeOK
  <2>2. CASE r = i
    <3>1. Replaced(rq)[e.name] = None
      <4>1. CASE rq.id # None /\ rq.seen.name = e.name
        BY <1>1, <4>1 DEF IInv, TypeOK, Replaced, Unscheduled
      <4>2. CASE ~(rq.id # None /\ rq.seen.name = e.name)
        <5>1. \A t \in Row : row[t] # None => row[t].name # e.name
          BY <1>3, <1>6, <4>2
        <5>2. quartz[e.name] = None
          BY <1>1, <1>6, <5>1 DEF IInv, NoOrphan
        <5> QED BY <1>1, <5>2 DEF IInv, TypeOK, Replaced, Unscheduled
      <4> QED BY <4>1, <4>2
    <3>2. Replaced(rq) \in [Name -> Job \cup {None}]
      BY ReplacedType DEF IInv, Save
    <3> QED BY <1>1, <1>2, <2>1, <2>2, <3>1, <3>2 DEF Scheduled, JobOf
  <2>3. CASE r # i
    <3>1. /\ row'[r] = row[r] /\ row[r] # None /\ row[r].name # e.name
          /\ row[r].name \in Name /\ quartz[row[r].name] = JobOf(row[r])
      BY <1>6, <2>1, <2>3 DEF IInv, TypeOK, Entity, Mirror
    <3>2. rq.id # None => row[r].name # rq.seen.name
      BY <1>3, <1>6, <2>3, <3>1 DEF IInv, UniqueNames
    <3> QED BY <1>1, <1>2, <3>1, <3>2 DEF IInv, TypeOK, Scheduled, Replaced, Unscheduled
  <2> QED BY <2>2, <2>3
<1> QED BY <1>5, <1>7, <1>8 DEF Agree

\* delete keeps Agree: key and row go together.
LEMMA DeleteAgree ==
  ASSUME IInv, NEW a \in Admin, Delete(a)
  PROVE  Agree'
<1> DEFINE i == req[a].id
           n == req[a].entity.name
<1>1. /\ req[a] # NoReq /\ req[a] \in Request /\ i \in Row /\ n \in Name
      /\ req[a].entity = req[a].seen
  BY Busy DEF IInv, Delete, Request, Entity, ReqInv
<1>2. /\ quartz' = [quartz EXCEPT ![n] = None] /\ row' = [row EXCEPT ![i] = None]
      /\ cause' = cause \cup (IF Outdated(req[a]) THEN {"overlap"} ELSE {})
  BY DEF Delete, Finish, Unscheduled
<1>3. "overlap" \notin cause' => ~Outdated(req[a]) /\ row[i] # None /\ row[i].name = n
  BY <1>1, <1>2, Fresh, ScheduleAssumption
<1>4. NoOrphan'
  BY <1>1, <1>2, <1>3 DEF IInv, TypeOK, NoOrphan
<1>5. UniqueNames'
  BY <1>1, <1>2 DEF IInv, TypeOK, UniqueNames
<1>6. Mirror'
  <2> SUFFICES ASSUME cause' = {}, NEW r \in Row, row'[r] # None
               PROVE  quartz'[row'[r].name] = JobOf(row'[r])
    BY DEF Mirror
  <2>1. cause = {} /\ row[i] # None /\ row[i].name = n
    BY <1>2, <1>3
  <2>2. r # i /\ row'[r] = row[r] /\ row[r] # None
    BY <1>1, <1>2 DEF IInv, TypeOK
  <2>3. row[r].name # n /\ row[r].name \in Name /\ quartz[row[r].name] = JobOf(row[r])
    BY <1>1, <2>1, <2>2 DEF IInv, TypeOK, Entity, Mirror, UniqueNames
  <2> QED BY <1>1, <1>2, <2>2, <2>3 DEF IInv, TypeOK
<1> QED BY <1>4, <1>5, <1>6 DEF Agree

\* stop and resume keep Agree: the state changes on both sides.
LEMMA SwitchAgree ==
  ASSUME IInv, NEW a \in Admin, NEW o \in {"stop", "resume"}, NEW on \in BOOLEAN, Switch(a, o, on)
  PROVE  Agree'
<1> DEFINE i == req[a].id
           e == req[a].entity
<1>1. /\ req[a] # NoReq /\ req[a] \in Request /\ i \in Row /\ i # None /\ e \in Entity
      /\ e.name \in Name /\ e = req[a].seen
  BY Busy, ScheduleAssumption DEF IInv, Switch, Request, Entity, ReqInv
<1>2. /\ quartz' = Switched(quartz, e.name, on)
      /\ row' = IF row[i] = None THEN row ELSE [row EXCEPT ![i] = [e EXCEPT !.running = on]]
      /\ cause' = cause \cup (IF Outdated(req[a]) THEN {"overlap"} ELSE {})
  BY <1>1 DEF Switch, Finish, Store
<1>3. "overlap" \notin cause' =>
        /\ row[i] = e /\ row[i] # None
        /\ row' = [row EXCEPT ![i] = [e EXCEPT !.running = on]]
  BY <1>1, <1>2, Fresh
<1>4. [e EXCEPT !.running = on] # None /\ [e EXCEPT !.running = on].name = e.name
  BY <1>1, ScheduleAssumption DEF Entity
<1>5. \A n \in Name : quartz'[n] # None => quartz[n] # None
  BY <1>1, <1>2 DEF IInv, TypeOK, Switched
<1>6. NoOrphan'
  <2> SUFFICES ASSUME cause' \cap {"overlap", "fault"} = {}, NEW n \in Name, quartz'[n] # None
               PROVE  \E r \in Row : row'[r] # None /\ row'[r].name = n
    BY DEF NoOrphan
  <2>1. PICK r \in Row : row[r] # None /\ row[r].name = n
    BY <1>2, <1>5 DEF IInv, NoOrphan
  <2>2. row'[r] # None /\ row'[r].name = n
    BY <1>1, <1>3, <1>4, <2>1 DEF IInv, TypeOK
  <2> QED BY <2>2
<1>7. ASSUME cause' = {}, NEW r \in Row, row'[r] # None
      PROVE  row[r] # None /\ row'[r].name = row[r].name /\ (r # i => row'[r] = row[r])
  BY <1>1, <1>3, <1>4, <1>7 DEF IInv, TypeOK
<1>8. UniqueNames'
  BY <1>2, <1>7 DEF IInv, UniqueNames
<1>9. Mirror'
  <2> SUFFICES ASSUME cause' = {}, NEW r \in Row, row'[r] # None
               PROVE  quartz'[row'[r].name] = JobOf(row'[r])
    BY DEF Mirror
  <2>1. /\ cause = {} /\ row[r] # None /\ row[r].name \in Name
        /\ quartz[row[r].name] = JobOf(row[r])
    BY <1>2, <1>7 DEF IInv, TypeOK, Entity, Mirror
  <2>2. CASE r = i
    <3>1. quartz[e.name] = JobOf(e) /\ JobOf(e) \in Job
      BY <1>1, <1>3, <2>1, <2>2 DEF JobOf, Job, Entity
    <3>2. quartz'[e.name] = [JobOf(e) EXCEPT !.running = on]
      BY <1>1, <1>2, <3>1, ScheduleAssumption DEF IInv, TypeOK, Switched, Job
    <3>3. [JobOf(e) EXCEPT !.running = on] = JobOf([e EXCEPT !.running = on])
      BY <1>1 DEF JobOf, Entity
    <3>4. row'[r] = [e EXCEPT !.running = on]
      BY <1>1, <1>3, <2>2 DEF IInv, TypeOK
    <3> QED BY <1>4, <3>2, <3>3, <3>4
  <2>3. CASE r # i
    <3>1. row[r].name # e.name
      BY <1>1, <1>3, <2>1, <2>3 DEF IInv, UniqueNames
    <3> QED BY <1>1, <1>2, <1>7, <2>1, <2>3, <3>1 DEF IInv, TypeOK, Switched
  <2> QED BY <2>2, <2>3
<1> QED BY <1>6, <1>8, <1>9 DEF Agree

\* Every step keeps the inductive invariant.
LEMMA Invariance ==
  ASSUME IInv, [Next]_vars
  PROVE  IInv'
<1>1. TypeOK' /\ ReqInv'
  BY TypeStep, ReqStep DEF IInv
<1>2. Agree'
  <2>1. ASSUME NEW a \in Admin, SaveFaulty(a)
        PROVE  Agree'
    BY <2>1 DEF SaveFaulty, Finish, Agree, NoOrphan, Mirror, UniqueNames
  <2>2. ASSUME NEW a \in Admin, Begin(a) \/ GiveUp(a)
        PROVE  UNCHANGED <<row, quartz, cause>>
    BY <2>2 DEF Begin, Load, Submit, SubmitNew, GiveUp
  <2>3. CASE UNCHANGED vars
    BY <2>3, QuietAgree DEF vars
  <2> QED
    BY <2>1, <2>2, <2>3, QuietAgree, SaveAgree, DeleteAgree, SwitchAgree DEF Next, Stop, Resume
<1> QED BY <1>1, <1>2 DEF IInv, Agree

\* The inductive invariant holds of every behaviour.
THEOREM Inductive == Spec => []IInv
<1>1. Init => IInv
  BY ScheduleAssumption DEF Init, IInv, TypeOK, NoOrphan, Mirror, UniqueNames, ReqInv
<1> QED BY <1>1, Invariance, PTL DEF Spec

\* TypeOK of ScheduleJob, for every value of its constants.
THEOREM TypeCorrect == Spec => []TypeOK
<1>1. IInv => TypeOK
  BY DEF IInv
<1> QED BY <1>1, Inductive, PTL

\* No Quartz job outlives its row, unless save swallowed a SchedulerException or
\* a request was overtaken (NoOrphan).
THEOREM NoJobIsOrphaned == Spec => []NoOrphan
<1>1. IInv => NoOrphan
  BY DEF IInv
<1> QED BY <1>1, Inductive, PTL

\* Rows and jobs agree unless one of the three recorded causes occurred (Mirror).
THEOREM RowsAreMirrored == Spec => []Mirror
<1>1. IInv => Mirror
  BY DEF IInv
<1> QED BY <1>1, Inductive, PTL
===============================================================================
