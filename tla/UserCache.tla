------------------------------- MODULE UserCache -------------------------------
(***************************************************************************)
(* The cached user of the system module: UserUtils fills the two entries of*)
(* a user, UserController binds form fields into the object it is handed,  *)
(* SystemService writes the row and clears the entries inside its          *)
(* transaction.                                                            *)
(*                                                                         *)
(* One user on one node is modelled: users share nothing, and the level-1  *)
(* cache keeps references, so every request that hits an entry holds the   *)
(* same mutable object.  A row has two fields: mail, which saveUser and     *)
(* updateUserInfo both write, and sign, which only updateUserInfo writes.   *)
(***************************************************************************)
EXTENDS Integers, FiniteSets

CONSTANTS
  Thread,      (* request threads                                          *)
  Object,      (* User objects of the JVM                                  *)
  Mail, Sign,  (* values of the two fields                                 *)
  Valid,       (* the values of mail that pass the bean validator          *)
  None,        (* no object, no row, no lock holder                        *)
  MaxFaults    (* bound: login names refused and transactions rolled back  *)

ASSUME UserAssumption ==
  /\ Valid \subseteq Mail
  /\ None \notin Object \cup Thread
  /\ None \notin [mail : Mail, sign : Sign]
  /\ MaxFaults \in Nat

VARIABLES
  db,          (* the committed row                                        *)
  heap,        (* object -> its fields                                     *)
  entry,       (* cache key of the user -> object                          *)
  pc,          (* thread -> its next step                                  *)
  obj,         (* thread -> the User object it holds                       *)
  form,        (* thread -> what its request changes                       *)
  pend,        (* thread -> the row its open transaction has written       *)
  locked,      (* thread holding the row's lock                            *)
  faults,      (* refusals and rollbacks so far                            *)
  cause        (* history: how an entry may have come to differ            *)

vars == <<db, heap, entry, pc, obj, form, pend, locked, faults, cause>>

Fields == [mail : Mail, sign : Sign]
Form   == [kind : {"read"}] \cup [kind : {"save"}, mail : Mail]
            \cup [kind : {"info"}, mail : Valid] \cup [kind : {"sign"}, sign : Sign]
Read   == [kind |-> "read"]

\* Every variable has its type: entries, requests and transactions hold User objects
\* and whole rows (UserUtils, SystemService).
TypeOK ==
  /\ db \in Fields
  /\ heap \in [Object -> Fields]
  /\ entry \in [{"id", "ln"} -> Object \cup {None}]
  /\ pc \in [Thread -> {"idle", "load", "putId", "putLn", "bind", "check", "update",
                        "clearId", "clearLn", "commit"}]
  /\ obj \in [Thread -> Object \cup {None}]
  /\ form \in [Thread -> Form]
  /\ pend \in [Thread -> Fields \cup {None}]
  /\ locked \in Thread \cup {None}
  /\ faults \in Nat
  /\ cause \subseteq {"abandoned", "crossed"}

Init ==
  /\ db \in [mail : Valid, sign : Sign]
  /\ heap = [o \in Object |-> db]
  /\ entry = [k \in {"id", "ln"} |-> None]
  /\ pc = [t \in Thread |-> "idle"]
  /\ obj = [t \in Thread |-> None]
  /\ form = [t \in Thread |-> Read]
  /\ pend = [t \in Thread |-> None]
  /\ locked = None
  /\ faults = 0
  /\ cause = {}

Goto(t, l) == pc' = [pc EXCEPT ![t] = l]

\* The request is over.
End(t) ==
  /\ Goto(t, "idle")
  /\ obj' = [obj EXCEPT ![t] = None]
  /\ form' = [form EXCEPT ![t] = Read]
  /\ pend' = [pend EXCEPT ![t] = None]

(***************************************************************************)
(* UserUtils.get(id) and getByLoginName(loginName).                        *)
(***************************************************************************)

\* A hit hands out the cached object itself; reading it changes nothing.
Lookup(t, k, f) ==
  /\ pc[t] = "idle"
  /\ IF entry[k] = None THEN Goto(t, "load") ELSE f.kind # "read" /\ Goto(t, "bind")
  /\ f.kind # "read" => k = "id"
  /\ obj' = [obj EXCEPT ![t] = entry[k]]
  /\ form' = [form EXCEPT ![t] = f]
  /\ UNCHANGED <<db, heap, entry, pend, locked, faults, cause>>

InUse == {entry["id"], entry["ln"]} \cup {obj[t] : t \in Thread}

LoadRow(t) ==
  /\ pc[t] = "load"
  /\ \E o \in Object \ InUse :
       /\ heap' = [heap EXCEPT ![o] = db]
       /\ obj' = [obj EXCEPT ![t] = o]
  /\ Goto(t, "putId")
  /\ UNCHANGED <<db, entry, form, pend, locked, faults, cause>>

\* Some transaction that has not committed has already cleared the entry k.
Cleared(k) == \E u \in Thread : \/ k = "id" /\ pc[u] = "clearLn"
                               \/ pc[u] = "commit"

PutId(t) ==
  /\ pc[t] = "putId"
  /\ entry' = [entry EXCEPT !["id"] = obj[t]]
  /\ cause' = IF Cleared("id") THEN cause \cup {"crossed"} ELSE cause
  /\ Goto(t, "putLn")
  /\ UNCHANGED <<db, heap, obj, form, pend, locked, faults>>

PutLn(t) ==
  /\ pc[t] = "putLn"
  /\ entry' = [entry EXCEPT !["ln"] = obj[t]]
  /\ cause' = IF Cleared("ln") THEN cause \cup {"crossed"} ELSE cause
  /\ IF form[t].kind = "read" THEN End(t) ELSE Goto(t, "bind") /\ UNCHANGED <<obj, form, pend>>
  /\ UNCHANGED <<db, heap, locked, faults>>

(***************************************************************************)
(* UserController: save binds and validates; infoEdit and saveSign (which   *)
(* stands for the picture pages too) set fields of the current user and    *)
(* validate nothing.  The forms of infoEdit are valid ones, so a mail that *)
(* is not valid can only have come from a form of save.                    *)
(***************************************************************************)

\* Spring's data binder, infoEdit and saveSign write into the object they are given.
Bind(t) ==
  /\ pc[t] = "bind"
  /\ heap' = IF form[t].kind = "sign" THEN [heap EXCEPT ![obj[t]].sign = form[t].sign]
                                      ELSE [heap EXCEPT ![obj[t]].mail = form[t].mail]
  /\ Goto(t, IF form[t].kind = "save" THEN "check" ELSE "update")
  /\ UNCHANGED <<db, entry, obj, form, pend, locked, faults, cause>>

\* The request returns and leaves the object as the binder has made it.
GiveUp(t) == End(t) /\ cause' = cause \cup {"abandoned"}

\* beanValidator reads the object.
Check(t) ==
  /\ pc[t] = "check"
  /\ IF heap[obj[t]].mail \in Valid
       THEN Goto(t, "update") /\ UNCHANGED <<obj, form, pend, cause>>
       ELSE GiveUp(t)
  /\ UNCHANGED <<db, heap, entry, locked, faults>>

\* checkLoginName finds another user with the name in the form.
NameTaken(t) ==
  /\ pc[t] = "check"
  /\ heap[obj[t]].mail \in Valid
  /\ faults < MaxFaults
  /\ faults' = faults + 1
  /\ GiveUp(t)
  /\ UNCHANGED <<db, heap, entry, locked>>

(***************************************************************************)
(* SystemService: saveUser and updateUserInfo, one transaction each.       *)
(***************************************************************************)

\* The service is handed the form's object where it wants the current user.
UpdateForm(t) ==
  /\ pc[t] = "update"
  /\ locked = None
  /\ locked' = t
  /\ pend' = [pend EXCEPT ![t] = form[t]]
  /\ Goto(t, "clearId")
  /\ UNCHANGED <<db, heap, entry, obj, form, faults, cause>>
\* The update takes the row's lock.  saveUser does not write the sign column.
Update(t) ==
  /\ pc[t] = "update"
  /\ locked = None
  /\ locked' = t
  /\ pend' = [pend EXCEPT ![t] = IF form[t].kind = "save" THEN [db EXCEPT !.mail = heap[obj[t]].mail]
                                                          ELSE heap[obj[t]]]
  /\ Goto(t, "clearId")
  /\ UNCHANGED <<db, heap, entry, obj, form, faults, cause>>

\* clearCache(user) leaves the login-name entry behind (or forgets it).
ClearIdOnly(t) ==
  /\ pc[t] = "clearId"
  /\ entry' = [entry EXCEPT !["id"] = None]
  /\ Goto(t, "commit")
  /\ UNCHANGED <<db, heap, obj, form, pend, locked, faults, cause>>
\* UserUtils.clearCache(user), before the transaction commits.
ClearId(t) ==
  /\ pc[t] = "clearId"
  /\ entry' = [entry EXCEPT !["id"] = None]
  /\ Goto(t, "clearLn")
  /\ UNCHANGED <<db, heap, obj, form, pend, locked, faults, cause>>

ClearLn(t) ==
  /\ pc[t] = "clearLn"
  /\ entry' = [entry EXCEPT !["ln"] = None]
  /\ Goto(t, "commit")
  /\ UNCHANGED <<db, heap, obj, form, pend, locked, faults, cause>>

\* A get that has read the old row still has to put it.
Crossed == \E u \in Thread : pc[u] \in {"putId", "putLn"}

Commit(t) ==
  /\ pc[t] = "commit"
  /\ db' = pend[t]
  /\ locked' = None
  /\ End(t)
  /\ cause' = IF Crossed THEN cause \cup {"crossed"} ELSE cause
  /\ UNCHANGED <<heap, entry, faults>>

\* saveUser throws (no role left, a database error) before or after clearing.
Rollback(t) ==
  /\ pc[t] \in {"clearId", "clearLn", "commit"}
  /\ faults < MaxFaults
  /\ faults' = faults + 1
  /\ locked' = None
  /\ GiveUp(t)
  /\ UNCHANGED <<db, heap, entry>>

\* Level 1 drops an entry by age or size.
Expire(k) ==
  /\ entry[k] # None
  /\ entry' = [entry EXCEPT ![k] = None]
  /\ UNCHANGED <<db, heap, pc, obj, form, pend, locked, faults, cause>>

-----------------------------------------------------------------------------
Step(t) ==
  \/ LoadRow(t) \/ PutId(t) \/ PutLn(t)
  \/ Bind(t) \/ Check(t) \/ NameTaken(t)
  \/ Update(t) \/ ClearId(t) \/ ClearLn(t) \/ Commit(t) \/ Rollback(t)

Next ==
  \/ \E t \in Thread : \/ \E k \in {"id", "ln"}, f \in Form : Lookup(t, k, f)
                       \/ Step(t)
  \/ \E k \in {"id", "ln"} : Expire(k)

Spec == Init /\ [][Next]_vars

-----------------------------------------------------------------------------
\* A thread that has changed the object o and still has to clear it.
Editing(t, o) == obj[t] = o /\ pc[t] \in {"check", "update", "clearId", "clearLn", "commit"}

\* A cached user who differs from the row is one an edit under way has changed,
\* unless some edit was given up after the binder had run or a get crossed a
\* commit (UserUtils.get, UserController.save, SystemService.saveUser).
CachedIsCurrent ==
  cause = {} =>
    \A k \in {"id", "ln"} :
      entry[k] # None => heap[entry[k]] = db \/ \E t \in Thread : Editing(t, entry[k])

\* Once every request has ended, what the cache holds is the row: what
\* saveUser clears the entries for (SystemService.saveUser, updateUserInfo).
QuietIsCurrent ==
  (\A t \in Thread : pc[t] = "idle") =>
    \A k \in {"id", "ln"} : entry[k] # None => heap[entry[k]] = db

\* A mail that save's bean validator refuses never reaches the row
\* (UserController.save, SystemService.updateUserInfo).
OnlyValidated == db.mail \in Valid
=============================================================================
