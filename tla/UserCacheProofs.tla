---------------------------- MODULE UserCacheProofs ----------------------------
(***************************************************************************)
(* Proofs about UserCache.  CachedIsCurrent is not inductive: a get that   *)
(* has loaded the row and not put it yet is as good as an entry, and a     *)
(* transaction may rely on the entries it has cleared only until some get  *)
(* puts them again.  Inv adds both, with the lock that makes transactions  *)
(* follow one another.                                                     *)
(***************************************************************************)
EXTENDS UserCache, TLAPS

Open == {"clearId", "clearLn", "commit"}

Current(o) == heap[o] = db \/ \E t \in Thread : Editing(t, o)

HoldInv  == \A t \in Thread : pc[t] \notin {"idle", "load"} => obj[t] \in Object
FormInv  == \A t \in Thread : pc[t] \in {"bind", "check", "update"} => form[t].kind # "read"
PendInv  == \A t \in Thread : pc[t] \in Open => pend[t] \in Fields
LockInv  == \A t \in Thread : pc[t] \in Open => locked = t

ClearInv == cause = {} =>
  \A t \in Thread : /\ pc[t] \in {"clearLn", "commit"} => entry["id"] = None
                    /\ pc[t] = "commit" => entry["ln"] = None

LoadInv  == cause = {} =>
  \A t \in Thread : pc[t] \in {"putId", "putLn"} => Current(obj[t])

Control == HoldInv /\ FormInv /\ PendInv /\ LockInv
Entries == LoadInv /\ CachedIsCurrent

Inv == TypeOK /\ Control /\ ClearInv /\ Entries

Keys == {"id", "ln"}

-----------------------------------------------------------------------------
\* What a form holds, by its kind.
LEMMA FormFields ==
  ASSUME NEW f \in Form
  PROVE  /\ f.kind \in {"save", "info"} => f.mail \in Mail
         /\ f.kind = "sign" => f.sign \in Sign
         /\ f.kind \in {"read", "save", "info", "sign"}
BY UserAssumption DEF Form

\* The binder leaves a well-formed object behind.
LEMMA BindFields ==
  ASSUME TypeOK, HoldInv, FormInv, NEW t \in Thread, Bind(t)
  PROVE  heap' \in [Object -> Fields]
<1>1. obj[t] \in Object /\ heap[obj[t]] \in Fields /\ heap \in [Object -> Fields]
  BY DEF TypeOK, HoldInv, Bind
<1>2. form[t] \in Form /\ form[t].kind # "read"
  BY DEF TypeOK, FormInv, Bind
<1>3. CASE form[t].kind = "sign"
  <2>1. heap' = [heap EXCEPT ![obj[t]].sign = form[t].sign]
    BY <1>3 DEF Bind
  <2>2. form[t].sign \in Sign
    BY <1>2, <1>3, FormFields
  <2> QED BY <1>1, <2>1, <2>2 DEF Fields
<1>4. CASE form[t].kind # "sign"
  <2>1. heap' = [heap EXCEPT ![obj[t]].mail = form[t].mail]
    BY <1>4 DEF Bind
  <2>2. form[t].mail \in Mail
    BY <1>2, <1>4, FormFields
  <2> QED BY <1>1, <2>1, <2>2 DEF Fields
<1> QED BY <1>3, <1>4

\* What update has written is a row.
LEMMA UpdateFields ==
  ASSUME TypeOK, HoldInv, NEW t \in Thread, Update(t)
  PROVE  pend' \in [Thread -> Fields \cup {None}] /\ pend'[t] \in Fields
<1>1. obj[t] \in Object /\ heap[obj[t]] \in Fields /\ db \in Fields
  BY DEF TypeOK, HoldInv, Update
<1>2. [db EXCEPT !.mail = heap[obj[t]].mail] \in Fields
  BY <1>1 DEF Fields
<1> QED BY <1>1, <1>2 DEF TypeOK, Update

LEMMA InitInv == Init => Inv
<1> SUFFICES ASSUME Init PROVE Inv OBVIOUS
<1>1. db \in Fields
  BY UserAssumption DEF Init, Fields
<1>2. TypeOK
  <2>1. heap \in [Object -> Fields] /\ pend \in [Thread -> Fields \cup {None}]
    BY <1>1 DEF Init
  <2>2. form \in [Thread -> Form]
    BY DEF Init, Form, Read
  <2> QED BY <1>1, <2>1, <2>2 DEF Init, TypeOK
<1> QED BY <1>2 DEF Init, Inv, Control, Entries, HoldInv, FormInv, PendInv, LockInv, ClearInv, LoadInv,
                    CachedIsCurrent, Open

-----------------------------------------------------------------------------
\* A request that has ended holds nothing.
LEMMA EndType ==
  ASSUME TypeOK, NEW t \in Thread, End(t)
  PROVE  /\ pc' \in [Thread -> {"idle", "load", "putId", "putLn", "bind", "check", "update",
                                "clearId", "clearLn", "commit"}]
         /\ obj' \in [Thread -> Object \cup {None}]
         /\ form' \in [Thread -> Form]
         /\ pend' \in [Thread -> Fields \cup {None}]
<1>1. Read \in Form
  BY DEF Read, Form
<1> QED BY <1>1 DEF TypeOK, End, Goto

LEMMA TypeStep ==
  ASSUME Inv, [Next]_vars
  PROVE  TypeOK'
<1> USE DEF Inv, Control
<1>1. ASSUME NEW t \in Thread, NEW k \in Keys, NEW f \in Form, Lookup(t, k, f) PROVE TypeOK'
  BY <1>1 DEF TypeOK, Lookup, Goto, Keys
<1>2. ASSUME NEW t \in Thread, LoadRow(t) PROVE TypeOK'
  BY <1>2 DEF TypeOK, LoadRow, Goto
<1>3. ASSUME NEW t \in Thread, PutId(t) PROVE TypeOK'
  BY <1>3 DEF TypeOK, PutId, Goto
<1>4. ASSUME NEW t \in Thread, PutLn(t) PROVE TypeOK'
  <2>1. CASE End(t)
    BY <1>4, <2>1, EndType DEF TypeOK, PutLn
  <2>2. CASE ~End(t)
    BY <1>4, <2>2 DEF TypeOK, PutLn, Goto
  <2> QED BY <2>1, <2>2
<1>5. ASSUME NEW t \in Thread, Bind(t) PROVE TypeOK'
  BY <1>5, BindFields DEF TypeOK, Bind, Goto
<1>6. ASSUME NEW t \in Thread, Check(t) PROVE TypeOK'
  <2>1. CASE End(t)
    BY <1>6, <2>1, EndType DEF TypeOK, Check, GiveUp
  <2>2. CASE ~End(t)
    BY <1>6, <2>2 DEF TypeOK, Check, Goto, GiveUp
  <2> QED BY <2>1, <2>2
<1>7. ASSUME NEW t \in Thread, NameTaken(t) PROVE TypeOK'
  BY <1>7, EndType DEF TypeOK, NameTaken, GiveUp
<1>8. ASSUME NEW t \in Thread, Update(t) PROVE TypeOK'
  BY <1>8, UpdateFields DEF TypeOK, Update, Goto
<1>9. ASSUME NEW t \in Thread, ClearId(t) PROVE TypeOK'
  BY <1>9 DEF TypeOK, ClearId, Goto
<1>10. ASSUME NEW t \in Thread, ClearLn(t) PROVE TypeOK'
  BY <1>10 DEF TypeOK, ClearLn, Goto
<1>11. ASSUME NEW t \in Thread, Commit(t) PROVE TypeOK'
  <2>1. db' \in Fields
    BY <1>11 DEF Commit, PendInv, Open
  <2> QED BY <1>11, <2>1, EndType DEF TypeOK, Commit
<1>12. ASSUME NEW t \in Thread, Rollback(t) PROVE TypeOK'
  BY <1>12, EndType DEF TypeOK, Rollback, GiveUp
<1>13. ASSUME NEW k \in Keys, Expire(k) PROVE TypeOK'
  BY <1>13 DEF TypeOK, Expire, Keys
<1>14. CASE UNCHANGED vars
  BY <1>14 DEF TypeOK, vars
<1> QED
  BY <1>1, <1>2, <1>3, <1>4, <1>5, <1>6, <1>7, <1>8, <1>9, <1>10, <1>11, <1>12, <1>13, <1>14
  DEF Next, Step, Keys

\* What a thread holds at each point of its request.
LEMMA ControlStep ==
  ASSUME Inv, [Next]_vars
  PROVE  Control'
<1> USE DEF Inv, TypeOK, Control, Entries
<1>1. ASSUME NEW t \in Thread, NEW k \in Keys, NEW f \in Form, Lookup(t, k, f) PROVE Control'
  BY <1>1 DEF Lookup, Goto, Keys, HoldInv, FormInv, PendInv, LockInv, Open
<1>2. ASSUME NEW t \in Thread, LoadRow(t) PROVE Control'
  BY <1>2 DEF LoadRow, Goto, HoldInv, FormInv, PendInv, LockInv, Open
<1>3. ASSUME NEW t \in Thread, PutId(t) PROVE Control'
  BY <1>3 DEF PutId, Goto, Cleared, HoldInv, FormInv, PendInv, LockInv, Open
<1>4. ASSUME NEW t \in Thread, PutLn(t) PROVE Control'
  BY <1>4 DEF PutLn, Goto, End, Cleared, HoldInv, FormInv, PendInv, LockInv, Open
<1>5. ASSUME NEW t \in Thread, Bind(t) PROVE Control'
  BY <1>5 DEF Bind, Goto, HoldInv, FormInv, PendInv, LockInv, Open
<1>6. ASSUME NEW t \in Thread, Check(t) PROVE Control'
  BY <1>6 DEF Check, Goto, End, GiveUp, HoldInv, FormInv, PendInv, LockInv, Open
<1>7. ASSUME NEW t \in Thread, NameTaken(t) PROVE Control'
  BY <1>7 DEF NameTaken, End, Goto, GiveUp, HoldInv, FormInv, PendInv, LockInv, Open
<1>8. ASSUME NEW t \in Thread, Update(t) PROVE Control'
  <2>1. PendInv'
    BY <1>8, UpdateFields DEF Update, Goto, PendInv, Open
  <2>2. HoldInv' /\ FormInv' /\ LockInv'
    BY <1>8, UserAssumption DEF Update, Goto, HoldInv, FormInv, LockInv, Open
  <2> QED BY <2>1, <2>2
<1>9. ASSUME NEW t \in Thread, ClearId(t) PROVE Control'
  BY <1>9 DEF ClearId, Goto, HoldInv, FormInv, PendInv, LockInv, Open
<1>10. ASSUME NEW t \in Thread, ClearLn(t) PROVE Control'
  BY <1>10 DEF ClearLn, Goto, HoldInv, FormInv, PendInv, LockInv, Open
<1>11. ASSUME NEW t \in Thread, Commit(t) PROVE Control'
  BY <1>11 DEF Commit, End, Goto, Crossed, HoldInv, FormInv, PendInv, LockInv, Open
<1>12. ASSUME NEW t \in Thread, Rollback(t) PROVE Control'
  BY <1>12 DEF Rollback, End, Goto, GiveUp, HoldInv, FormInv, PendInv, LockInv, Open
<1>13. ASSUME NEW k \in Keys, Expire(k) PROVE Control'
  BY <1>13 DEF Expire, Keys, HoldInv, FormInv, PendInv, LockInv, Open
<1>14. CASE UNCHANGED vars
  BY <1>14 DEF vars, HoldInv, FormInv, PendInv, LockInv, Open
<1> QED
  BY <1>1, <1>2, <1>3, <1>4, <1>5, <1>6, <1>7, <1>8, <1>9, <1>10, <1>11, <1>12, <1>13, <1>14
  DEF Next, Step, Keys

\* What a transaction has cleared stays cleared, or a get has crossed it.
LEMMA ClearStep ==
  ASSUME Inv, [Next]_vars
  PROVE  ClearInv'
<1> USE DEF Inv, TypeOK, Control, Entries
<1>1. ASSUME NEW t \in Thread, NEW k \in Keys, NEW f \in Form, Lookup(t, k, f) PROVE ClearInv'
  BY <1>1 DEF Lookup, Goto, Keys, ClearInv, LockInv, Open
<1>2. ASSUME NEW t \in Thread, LoadRow(t) PROVE ClearInv'
  BY <1>2 DEF LoadRow, Goto, ClearInv, LockInv, Open
<1>3. ASSUME NEW t \in Thread, PutId(t) PROVE ClearInv'
  BY <1>3 DEF PutId, Goto, Cleared, ClearInv, LockInv, Open
<1>4. ASSUME NEW t \in Thread, PutLn(t) PROVE ClearInv'
  BY <1>4 DEF PutLn, Goto, End, Cleared, ClearInv, LockInv, Open
<1>5. ASSUME NEW t \in Thread, Bind(t) PROVE ClearInv'
  BY <1>5 DEF Bind, Goto, ClearInv, LockInv, Open
<1>6. ASSUME NEW t \in Thread, Check(t) PROVE ClearInv'
  BY <1>6 DEF Check, Goto, End, GiveUp, ClearInv, LockInv, Open
<1>7. ASSUME NEW t \in Thread, NameTaken(t) PROVE ClearInv'
  BY <1>7 DEF NameTaken, End, Goto, GiveUp, ClearInv, LockInv, Open
<1>8. ASSUME NEW t \in Thread, Update(t) PROVE ClearInv'
  BY <1>8 DEF Update, Goto, ClearInv, LockInv, Open
<1>9. ASSUME NEW t \in Thread, ClearId(t) PROVE ClearInv'
  BY <1>9 DEF ClearId, Goto, ClearInv, LockInv, Open
<1>10. ASSUME NEW t \in Thread, ClearLn(t) PROVE ClearInv'
  BY <1>10 DEF ClearLn, Goto, ClearInv, LockInv, Open
<1>11. ASSUME NEW t \in Thread, Commit(t) PROVE ClearInv'
  BY <1>11 DEF Commit, End, Goto, Crossed, ClearInv, LockInv, Open
<1>12. ASSUME NEW t \in Thread, Rollback(t) PROVE ClearInv'
  BY <1>12 DEF Rollback, End, Goto, GiveUp, ClearInv, LockInv, Open
<1>13. ASSUME NEW k \in Keys, Expire(k) PROVE ClearInv'
  BY <1>13 DEF Expire, Keys, ClearInv, LockInv, Open
<1>14. CASE UNCHANGED vars
  BY <1>14 DEF vars, ClearInv, LockInv, Open
<1> QED
  BY <1>1, <1>2, <1>3, <1>4, <1>5, <1>6, <1>7, <1>8, <1>9, <1>10, <1>11, <1>12, <1>13, <1>14
  DEF Next, Step, Keys

\* Entries, and rows on their way into one, stay current.
LEMMA CurrentStep ==
  ASSUME Inv, [Next]_vars
  PROVE  Entries'
<1> USE DEF Inv, TypeOK, Control, Entries
<1>1. ASSUME NEW t \in Thread, NEW k \in Keys, NEW f \in Form, Lookup(t, k, f) PROVE Entries'
  BY <1>1 DEF Lookup, Goto, Keys, LoadInv, CachedIsCurrent, Current, Editing
<1>2. ASSUME NEW t \in Thread, LoadRow(t) PROVE Entries'
  BY <1>2 DEF LoadRow, Goto, LoadInv, CachedIsCurrent, Current, Editing
<1>3. ASSUME NEW t \in Thread, PutId(t) PROVE Entries'
  BY <1>3 DEF PutId, Goto, Cleared, LoadInv, CachedIsCurrent, Current, Editing
<1>4. ASSUME NEW t \in Thread, PutLn(t) PROVE Entries'
  BY <1>4 DEF PutLn, Goto, End, Cleared, LoadInv, CachedIsCurrent, Current, Editing
<1>5. ASSUME NEW t \in Thread, Bind(t) PROVE Entries'
  BY <1>5 DEF Bind, Goto, LoadInv, CachedIsCurrent, Current, Editing
<1>6. ASSUME NEW t \in Thread, Check(t) PROVE Entries'
  BY <1>6 DEF Check, Goto, End, GiveUp, LoadInv, CachedIsCurrent, Current, Editing
<1>7. ASSUME NEW t \in Thread, NameTaken(t) PROVE Entries'
  BY <1>7 DEF NameTaken, End, Goto, GiveUp, LoadInv, CachedIsCurrent, Current, Editing
<1>8. ASSUME NEW t \in Thread, Update(t) PROVE Entries'
  BY <1>8 DEF Update, Goto, LoadInv, CachedIsCurrent, Current, Editing
<1>9. ASSUME NEW t \in Thread, ClearId(t) PROVE Entries'
  BY <1>9 DEF ClearId, Goto, LoadInv, CachedIsCurrent, Current, Editing
<1>10. ASSUME NEW t \in Thread, ClearLn(t) PROVE Entries'
  BY <1>10 DEF ClearLn, Goto, LoadInv, CachedIsCurrent, Current, Editing
<1>11. ASSUME NEW t \in Thread, Commit(t) PROVE Entries'
  <2> SUFFICES ASSUME cause' = {} PROVE Entries'
    BY DEF LoadInv, CachedIsCurrent
  <2>1. cause = {} /\ ~ \E u \in Thread : pc[u] \in {"putId", "putLn"}
    BY <1>11 DEF Commit, Crossed
  <2>2. entry' = entry /\ entry["id"] = None /\ entry["ln"] = None
    BY <1>11, <2>1 DEF Commit, ClearInv
  <2>3. LoadInv'
    BY <1>11, <2>1 DEF Commit, End, Goto, LoadInv
  <2>4. CachedIsCurrent'
    BY <2>2 DEF CachedIsCurrent
  <2> QED BY <2>3, <2>4
<1>12. ASSUME NEW t \in Thread, Rollback(t) PROVE Entries'
  BY <1>12 DEF Rollback, End, Goto, GiveUp, LoadInv, CachedIsCurrent, Current, Editing
<1>13. ASSUME NEW k \in Keys, Expire(k) PROVE Entries'
  BY <1>13 DEF Expire, Keys, LoadInv, CachedIsCurrent, Current, Editing
<1>14. CASE UNCHANGED vars
  BY <1>14 DEF vars, LoadInv, CachedIsCurrent, Current, Editing
<1> QED
  BY <1>1, <1>2, <1>3, <1>4, <1>5, <1>6, <1>7, <1>8, <1>9, <1>10, <1>11, <1>12, <1>13, <1>14
  DEF Next, Step, Keys

LEMMA InvStep == Inv /\ [Next]_vars => Inv'
BY TypeStep, ControlStep, ClearStep, CurrentStep DEF Inv

\* TypeOK holds in every reachable state: a bound object, a form and a pending
\* row are there whenever a step of a request uses them.
THEOREM TypeCorrect == Spec => []TypeOK
<1>1. Inv => TypeOK
  BY DEF Inv, Entries
<1> QED BY InitInv, InvStep, <1>1, PTL DEF Spec

\* An entry that differs from the row belongs to an edit under way, unless an
\* edit was given up or a get crossed a commit, for any number of threads,
\* objects and values.
THEOREM EntriesAreCurrent == Spec => []CachedIsCurrent
<1>1. Inv => CachedIsCurrent
  BY DEF Inv, Entries
<1> QED BY InitInv, InvStep, <1>1, PTL DEF Spec

\* clearCache does what it is there for, once every request has ended, unless an edit was
\* given up after the binder had run or a get crossed a commit.
THEOREM QuietUnlessCaused == Spec => [](cause = {} => QuietIsCurrent)
<1>1. Inv => (cause = {} => QuietIsCurrent)
  <2>1. SUFFICES ASSUME Inv, cause = {}, \A t \in Thread : pc[t] = "idle",
                        NEW k \in {"id", "ln"}, entry[k] # None
                 PROVE  heap[entry[k]] = db
    BY DEF QuietIsCurrent
  <2>2. CachedIsCurrent
    BY <2>1 DEF Inv, Entries
  <2>3. ~ \E t \in Thread : Editing(t, entry[k])
    BY <2>1 DEF Editing
  <2> QED
    BY <2>1, <2>2, <2>3 DEF CachedIsCurrent
<1> QED
  BY InitInv, InvStep, <1>1, PTL DEF Spec
================================================================================
