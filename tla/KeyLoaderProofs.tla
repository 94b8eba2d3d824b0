---------------------------- MODULE KeyLoaderProofs ----------------------------
(***************************************************************************)
(* For any threads and lock objects: while no load comes back empty and    *)
(* nothing is evicted, one thread calls the loader, although its lock      *)
(* object leaves the map before the others have had it.                    *)
(*                                                                         *)
(* That loads <= 1 says nothing of who may still load.  OneLoad tells the  *)
(* three situations apart: nobody has loaded and all threads meet on the   *)
(* object in the map; one is loading and they still do; the value is there *)
(* and it no longer matters where they wait.                               *)
(*                                                                         *)
(* Whatever fails or is evicted, loads overlap only as lock objects allow: *)
(* LocksCounted counts the objects in use against the loads begun.         *)
(***************************************************************************)
EXTENDS KeyLoader, FiniteSetTheorems, TLAPS

Inside == {"look", "load", "store", "unlist", "leave"}

(* A monitor is owned by the thread that is inside it. *)
OwnerInside ==
  \A l \in Lock : \A t \in Thread :
    owner[l] = t <=> pc[t] \in Inside /\ mine[t] = l

MeetInMap == \A t \in Thread : mine[t] # None => mine[t] = keyLock

NotYet ==
  /\ ~cached /\ loads = 0 /\ MeetInMap
  /\ \A t \in Thread : pc[t] \notin {"load", "store", "unlist"}
LoadingBy(t) ==
  /\ ~cached /\ loads = 1 /\ MeetInMap
  /\ pc[t] \in {"load", "store"}
  /\ \A u \in Thread \ {t} : pc[u] \notin {"load", "store", "unlist"}
Filled ==
  /\ cached /\ loads = 1
  /\ \A t \in Thread : pc[t] \notin {"load", "store"}

OneLoad ==
  fails = 0 /\ evicts = 0 => NotYet \/ Filled \/ \E t \in Thread : LoadingBy(t)

Inv == TypeOK /\ OwnerInside /\ OneLoad

--------------------------------------------------------------------------------
(* Types: what each step leaves in the variables (KeyLoader's handlers). *)

LEMMA InitTypes == Init => TypeOK
<1> SUFFICES ASSUME Init PROVE TypeOK
  OBVIOUS
<1> USE LoaderAssumption DEF LoaderAssumption, Init
<1>1. /\ cached \in BOOLEAN
      /\ keyLock \in Lock \cup {None}
      /\ owner \in [Lock -> Thread \cup {None}]
      /\ mine \in [Thread -> Lock \cup {None}]
  OBVIOUS
<1>2. /\ pc \in [Thread -> Steps]
      /\ answer \in [Thread -> Answers]
  BY DEF Steps, Answers
<1>3. \A t \in Thread : mine[t] = None <=> pc[t] \in {"idle", "lock"}
  OBVIOUS
<1>4. loads \in Nat /\ fails \in 0..MaxFails /\ evicts \in 0..MaxEvicts
  OBVIOUS
<1>5. QED
  BY <1>1, <1>2, <1>3, <1>4 DEF TypeOK

(* A lock object that nothing refers to is drawn from Lock. *)
LEMMA NewLockIsFree ==
  ASSUME Lock \ Used # {}
  PROVE  NewLock \in Lock
<1>1. \E l \in Lock : l \notin Used
  OBVIOUS
<1>2. QED
  BY <1>1 DEF NewLock

LEMMA OneMoreInRange ==
  ASSUME NEW n \in Nat, NEW i \in 0..n, i < n
  PROVE  i + 1 \in 0..n
OBVIOUS

LEMMA NextTypes == TypeOK /\ [Next]_vars => TypeOK'
<1> SUFFICES ASSUME TypeOK, [Next]_vars PROVE TypeOK'
  OBVIOUS
<1> USE LoaderAssumption DEF LoaderAssumption, TypeOK
<1>1. CASE Evict
  <2>1. cached' = FALSE /\ evicts < MaxEvicts /\ evicts' = evicts + 1
    BY <1>1 DEF Evict
  <2>2. cached' \in BOOLEAN
    BY <2>1
  <2>3. evicts \in 0..MaxEvicts /\ MaxEvicts \in Nat
    OBVIOUS
  <2>4. evicts' \in 0..MaxEvicts
    BY <2>1, <2>3, OneMoreInRange
  <2>5. UNCHANGED <<keyLock, owner, mine, pc, answer, loads, fails>>
    BY <1>1 DEF Evict
  <2>6. QED
    BY <2>2, <2>4, <2>5
<1>2. CASE \E t \in Thread : Get(t)
  BY <1>2 DEF Get, Goto, Return, Steps, Answers
<1>3. CASE \E t \in Thread : TakeLockObject(t)
  <2>1. PICK t \in Thread : TakeLockObject(t)
    BY <1>3
  <2>2. keyLock' \in Lock
    BY <2>1, NewLockIsFree DEF TakeLockObject
  <2>3. QED
    BY <2>1, <2>2 DEF TakeLockObject, Goto, Steps, Answers
<1>4. CASE \E t \in Thread : Enter(t)
  BY <1>4 DEF Enter, Goto, Steps, Answers
<1>5. CASE \E t \in Thread : SecondLook(t)
  <2>1. PICK t \in Thread : SecondLook(t)
    BY <1>5
  <2>2. Cached \in Answers
    BY DEF Cached, Answers
  <2>3. /\ UNCHANGED <<cached, keyLock, owner, mine, fails, evicts>>
        /\ mine[t] # None
    BY <2>1 DEF SecondLook
  <2>4. CASE cached \/ t \in Batch
    BY <2>1, <2>2, <2>3, <2>4 DEF SecondLook, Goto, Return, Steps
  <2>5. CASE ~(cached \/ t \in Batch)
    BY <2>1, <2>3, <2>5 DEF SecondLook, Goto, Steps
  <2>6. QED
    BY <2>4, <2>5
<1>6. CASE \E t \in Thread : LoadGives(t)
  BY <1>6 DEF LoadGives, Goto, Steps, Answers
<1>7. CASE \E t \in Thread : LoadFails(t)
  BY <1>7 DEF LoadFails, Goto, Return, Steps, Answers
<1>8. CASE \E t \in Thread : Store(t)
  BY <1>8 DEF Store, Goto, Return, Steps, Answers
<1>9. CASE \E t \in Thread : Unlist(t)
  BY <1>9 DEF Unlist, Goto, Steps, Answers
<1>10. CASE \E t \in Thread : Leave(t)
  BY <1>10 DEF Leave, Goto, Steps, Answers
<1>11. CASE UNCHANGED vars
  BY <1>11 DEF vars, Steps, Answers
<1>12. QED
  BY <1>1, <1>2, <1>3, <1>4, <1>5, <1>6, <1>7, <1>8, <1>9, <1>10, <1>11
     DEF Next, Proceed

(* The state is well typed, and a thread refers to a lock object exactly    *)
(* from computeIfAbsent to the end of the monitor.                          *)
THEOREM TypeCorrect == Spec => []TypeOK
<1>1. Init => TypeOK
  BY InitTypes
<1>2. TypeOK /\ [Next]_vars => TypeOK'
  BY NextTypes
<1>3. QED
  BY <1>1, <1>2, PTL DEF Spec

--------------------------------------------------------------------------------
(* Monitors. *)

LEMMA InitOwners == Init => OwnerInside
BY LoaderAssumption DEF LoaderAssumption, Init, OwnerInside, Inside

LEMMA NextOwners == TypeOK /\ OwnerInside /\ [Next]_vars => OwnerInside'
<1> SUFFICES ASSUME TypeOK, OwnerInside, [Next]_vars PROVE OwnerInside'
  OBVIOUS
<1> USE LoaderAssumption DEF LoaderAssumption, TypeOK, OwnerInside, Inside
<1>1. CASE Evict
  BY <1>1 DEF Evict
<1>2. CASE \E t \in Thread : Get(t)
  BY <1>2 DEF Get, Goto
<1>3. CASE \E t \in Thread : TakeLockObject(t)
  BY <1>3 DEF TakeLockObject, Goto
<1>4. CASE \E t \in Thread : Enter(t)
  <2>1. PICK t \in Thread : Enter(t)
    BY <1>4
  <2>2. SUFFICES ASSUME NEW l \in Lock, NEW u \in Thread
                 PROVE owner'[l] = u <=> pc'[u] \in Inside /\ mine'[u] = l
    OBVIOUS
  <2>3. mine[t] \in Lock /\ owner[mine[t]] = None /\ mine' = mine
    BY <2>1 DEF Enter
  <2>4. CASE u = t
    BY <2>1, <2>3, <2>4 DEF Enter, Goto
  <2>5. CASE u # t
    BY <2>1, <2>3, <2>5 DEF Enter, Goto
  <2>6. QED
    BY <2>4, <2>5
<1>5. CASE \E t \in Thread : SecondLook(t)
  BY <1>5 DEF SecondLook, Goto
<1>6. CASE \E t \in Thread : LoadGives(t)
  BY <1>6 DEF LoadGives, Goto
<1>7. CASE \E t \in Thread : LoadFails(t)
  BY <1>7 DEF LoadFails, Goto
<1>8. CASE \E t \in Thread : Store(t)
  BY <1>8 DEF Store, Goto
<1>9. CASE \E t \in Thread : Unlist(t)
  BY <1>9 DEF Unlist, Goto
<1>10. CASE \E t \in Thread : Leave(t)
  <2>1. PICK t \in Thread : Leave(t)
    BY <1>10
  <2>2. SUFFICES ASSUME NEW l \in Lock, NEW u \in Thread
                 PROVE owner'[l] = u <=> pc'[u] \in Inside /\ mine'[u] = l
    OBVIOUS
  <2>3. mine[t] \in Lock /\ owner[mine[t]] = t
    BY <2>1 DEF Leave
  <2>4. CASE u = t
    BY <2>1, <2>3, <2>4 DEF Leave, Goto
  <2>5. CASE u # t
    BY <2>1, <2>3, <2>5 DEF Leave, Goto
  <2>6. QED
    BY <2>4, <2>5
<1>11. CASE UNCHANGED vars
  BY <1>11 DEF vars
<1>12. QED
  BY <1>1, <1>2, <1>3, <1>4, <1>5, <1>6, <1>7, <1>8, <1>9, <1>10, <1>11
     DEF Next, Proceed

(* Threads that meet on one lock object are inside its monitor one at a     *)
(* time (synchronized in get).                                              *)
LEMMA OneInside ==
  ASSUME OwnerInside, TypeOK,
         NEW t \in Thread, NEW u \in Thread, mine[t] = mine[u],
         pc[t] \in Inside, pc[u] \in Inside
  PROVE  t = u
BY DEF OwnerInside, TypeOK, Inside

--------------------------------------------------------------------------------
(* One load. *)

LEMMA InitLoads == Init => OneLoad
BY DEF Init, OneLoad, NotYet, MeetInMap

(* While all threads meet on the object in the map, a thread that finds the *)
(* map empty finds nobody else on a lock object.                            *)
LEMMA EmptyMap ==
  ASSUME TypeOK, MeetInMap, keyLock = None, NEW t \in Thread
  PROVE  mine[t] = None
BY DEF MeetInMap

LEMMA TakeMeets ==
  ASSUME TypeOK, MeetInMap, NEW t \in Thread, TakeLockObject(t)
  PROVE  MeetInMap'
<1>1. /\ mine' = [mine EXCEPT ![t] = keyLock']
      /\ keyLock # None => keyLock' = keyLock
  BY DEF TakeLockObject
<1>2. SUFFICES ASSUME NEW u \in Thread, mine'[u] # None
               PROVE  mine'[u] = keyLock'
  BY DEF MeetInMap
<1>3. CASE u = t
  BY <1>1, <1>3 DEF TypeOK
<1>4. CASE u # t
  <2>1. mine'[u] = mine[u]
    BY <1>1, <1>4 DEF TypeOK
  <2>2. keyLock # None
    BY <1>2, <2>1, EmptyMap
  <2>3. QED
    BY <1>1, <1>2, <2>1, <2>2 DEF MeetInMap
<1>5. QED
  BY <1>3, <1>4

(* Nobody has loaded: a step keeps it so, or begins the one load. *)
LEMMA FromNotYet ==
  ASSUME TypeOK, NotYet, [Next]_vars
  PROVE  NotYet' \/ (\E t \in Thread : LoadingBy(t)') \/ fails' # 0
<1> USE DEF TypeOK
<1>1. CASE \E t \in Thread : TakeLockObject(t)
  <2>1. PICK t \in Thread : TakeLockObject(t)
    BY <1>1
  <2>2. MeetInMap'
    BY <2>1, TakeMeets DEF NotYet
  <2>3. QED
    BY <2>1, <2>2 DEF NotYet, TakeLockObject, Goto
<1>2. CASE \E t \in Thread : SecondLook(t)
  <2>1. PICK t \in Thread : SecondLook(t)
    BY <1>2
  <2>2. cached' = cached /\ keyLock' = keyLock /\ mine' = mine /\ pc[t] = "look"
    BY <2>1 DEF SecondLook
  <2>3. MeetInMap'
    BY <2>2 DEF NotYet, MeetInMap
  <2>4. CASE t \in Batch
    BY <2>1, <2>2, <2>3, <2>4 DEF NotYet, SecondLook, Goto
  <2>5. CASE t \notin Batch
    <3>1. loads' = 1 /\ pc' = [pc EXCEPT ![t] = "load"]
      BY <2>1, <2>5 DEF NotYet, SecondLook, Goto
    <3>2. LoadingBy(t)'
      BY <2>2, <2>3, <3>1 DEF NotYet, LoadingBy
    <3>3. QED
      BY <3>2
  <2>6. QED
    BY <2>4, <2>5
<1>3. CASE \E t \in Thread : Get(t)
  BY <1>3 DEF NotYet, MeetInMap, Get, Goto
<1>4. CASE \E t \in Thread : Enter(t)
  BY <1>4 DEF NotYet, MeetInMap, Enter, Goto
<1>5. CASE \E t \in Thread : Leave(t)
  BY <1>5 DEF NotYet, MeetInMap, Leave, Goto
<1>6. CASE \E t \in Thread :
              LoadGives(t) \/ LoadFails(t) \/ Store(t) \/ Unlist(t)
  BY <1>6 DEF NotYet, LoadGives, LoadFails, Store, Unlist
<1>7. CASE Evict
  BY <1>7 DEF NotYet, Evict
<1>8. CASE UNCHANGED vars
  BY <1>8 DEF NotYet, MeetInMap, vars
<1>9. QED
  BY <1>1, <1>2, <1>3, <1>4, <1>5, <1>6, <1>7, <1>8 DEF Next, Proceed

(* One thread is loading: the others meet on its lock object and wait.      *)
LEMMA FromLoading ==
  ASSUME TypeOK, OwnerInside, NEW t \in Thread, LoadingBy(t), [Next]_vars
  PROVE  LoadingBy(t)' \/ Filled' \/ fails' # 0
<1> USE DEF TypeOK
<1>1. CASE \E u \in Thread : TakeLockObject(u)
  <2>1. PICK u \in Thread : TakeLockObject(u)
    BY <1>1
  <2>2. MeetInMap'
    BY <2>1, TakeMeets DEF LoadingBy
  <2>3. u # t
    BY <2>1 DEF LoadingBy, TakeLockObject
  <2>4. QED
    BY <2>1, <2>2, <2>3 DEF LoadingBy, TakeLockObject, Goto
<1>2. CASE \E u \in Thread : SecondLook(u)
  <2>1. PICK u \in Thread : SecondLook(u)
    BY <1>2
  <2>2. pc[u] = "look" /\ pc[t] \in {"load", "store"}
    BY <2>1 DEF SecondLook, LoadingBy
  <2>3. mine[u] = keyLock /\ mine[t] = keyLock
    BY <2>2 DEF LoadingBy, MeetInMap
  <2>4. u = t
    BY <2>2, <2>3, OneInside DEF Inside
  <2>5. QED
    BY <2>2, <2>4
<1>3. CASE \E u \in Thread : Get(u)
  BY <1>3 DEF LoadingBy, MeetInMap, Get, Goto
<1>4. CASE \E u \in Thread : Enter(u)
  BY <1>4 DEF LoadingBy, MeetInMap, Enter, Goto
<1>5. CASE \E u \in Thread : Leave(u)
  BY <1>5 DEF LoadingBy, MeetInMap, Leave, Goto
<1>6. CASE \E u \in Thread : LoadGives(u)
  BY <1>6 DEF LoadingBy, MeetInMap, LoadGives, Goto
<1>7. CASE \E u \in Thread : Store(u)
  BY <1>7 DEF LoadingBy, Filled, Store, Goto
<1>8. CASE \E u \in Thread : LoadFails(u)
  <2>1. fails' = fails + 1
    BY <1>8 DEF LoadFails
  <2>2. fails \in Nat
    OBVIOUS
  <2>3. fails' # 0
    BY <2>1, <2>2
  <2>4. QED
    BY <2>3
<1>9. CASE \E u \in Thread : Unlist(u)
  BY <1>9 DEF LoadingBy, Unlist
<1>10. CASE Evict
  BY <1>10 DEF LoadingBy, Evict
<1>11. CASE UNCHANGED vars
  BY <1>11 DEF LoadingBy, MeetInMap, vars
<1>12. QED
  BY <1>1, <1>2, <1>3, <1>4, <1>5, <1>6, <1>7, <1>8, <1>9, <1>10, <1>11
     DEF Next, Proceed

(* The value is there: whoever looks finds it, on whatever lock object.     *)
LEMMA FromFilled ==
  ASSUME TypeOK, Filled, [Next]_vars
  PROVE  Filled' \/ evicts' # 0
<1> USE DEF TypeOK
<1>1. CASE \E t \in Thread : SecondLook(t)
  BY <1>1 DEF Filled, SecondLook, Goto
<1>2. CASE \E t \in Thread : Get(t)
  BY <1>2 DEF Filled, Get, Goto
<1>3. CASE \E t \in Thread : TakeLockObject(t)
  BY <1>3 DEF Filled, TakeLockObject, Goto
<1>4. CASE \E t \in Thread : Enter(t)
  BY <1>4 DEF Filled, Enter, Goto
<1>5. CASE \E t \in Thread : Unlist(t)
  BY <1>5 DEF Filled, Unlist, Goto
<1>6. CASE \E t \in Thread : Leave(t)
  BY <1>6 DEF Filled, Leave, Goto
<1>7. CASE \E t \in Thread : LoadGives(t) \/ LoadFails(t) \/ Store(t)
  BY <1>7 DEF Filled, LoadGives, LoadFails, Store
<1>8. CASE Evict
  <2>1. evicts' = evicts + 1
    BY <1>8 DEF Evict
  <2>2. evicts \in Nat
    OBVIOUS
  <2>3. evicts' # 0
    BY <2>1, <2>2
  <2>4. QED
    BY <2>3
<1>9. CASE UNCHANGED vars
  BY <1>9 DEF Filled, vars
<1>10. QED
  BY <1>1, <1>2, <1>3, <1>4, <1>5, <1>6, <1>7, <1>8, <1>9 DEF Next, Proceed

(* Failures and evictions are only counted up. *)
LEMMA CountsGrow ==
  ASSUME TypeOK, [Next]_vars, fails' = 0, evicts' = 0
  PROVE  fails = 0 /\ evicts = 0
<1> USE DEF TypeOK
<1>1. fails' = fails \/ fails' = fails + 1
  BY DEF Next, Proceed, vars, Evict, Get, TakeLockObject, Enter, SecondLook,
         LoadGives, LoadFails, Store, Unlist, Leave
<1>2. evicts' = evicts \/ evicts' = evicts + 1
  BY DEF Next, Proceed, vars, Evict, Get, TakeLockObject, Enter, SecondLook,
         LoadGives, LoadFails, Store, Unlist, Leave
<1>3. fails \in Nat /\ evicts \in Nat
  OBVIOUS
<1>4. QED
  BY <1>1, <1>2, <1>3

LEMMA NextLoads ==
  TypeOK /\ OwnerInside /\ OneLoad /\ [Next]_vars => OneLoad'
<1> SUFFICES ASSUME TypeOK, OwnerInside, OneLoad, [Next]_vars,
                    fails' = 0, evicts' = 0
             PROVE  NotYet' \/ Filled' \/ \E t \in Thread : LoadingBy(t)'
  BY DEF OneLoad
<1>1. NotYet \/ Filled \/ \E t \in Thread : LoadingBy(t)
  BY CountsGrow DEF OneLoad
<1>2. CASE NotYet
  BY <1>2, FromNotYet
<1>3. CASE Filled
  BY <1>3, FromFilled
<1>4. CASE \E t \in Thread : LoadingBy(t)
  BY <1>4, FromLoading
<1>5. QED
  BY <1>1, <1>2, <1>3, <1>4

LEMMA OneLoadSuffices == TypeOK /\ OneLoad => LoadedOnce
<1> SUFFICES ASSUME TypeOK, OneLoad, fails + evicts = 0 PROVE loads <= 1
  BY DEF LoadedOnce
<1>1. fails \in Nat /\ evicts \in Nat
  BY DEF TypeOK
<1>2. fails = 0 /\ evicts = 0
  BY <1>1
<1>3. loads = 0 \/ loads = 1
  BY <1>2 DEF OneLoad, NotYet, Filled, LoadingBy
<1>4. QED
  BY <1>3

(* Threads that miss together load once, for any number of threads, as long *)
(* as no load comes back empty and nothing is evicted (get with a loader).  *)
THEOREM LoadsOnce == Spec => []LoadedOnce
<1>1. Init => Inv
  BY InitTypes, InitOwners, InitLoads DEF Inv
<1>2. Inv /\ [Next]_vars => Inv'
  BY NextTypes, NextOwners, NextLoads DEF Inv
<1>3. Inv => LoadedOnce
  BY OneLoadSuffices DEF Inv
<1>4. QED
  BY <1>1, <1>2, <1>3, PTL DEF Spec

(* Nobody waits for a thread that waits: whoever holds the monitor of a lock *)
(* object is past the wait, so that no set of threads can wait in a circle   *)
(* (the safety half of GetEnds, for any number of threads).                  *)
THEOREM OwnersRun ==
  Spec => [](\A t \in Thread : pc[t] = "enter" /\ owner[mine[t]] # None =>
               LET u == owner[mine[t]]
               IN  u \in Thread /\ mine[u] = mine[t] /\ pc[u] \in Inside)
<1> DEFINE Runs == \A t \in Thread : pc[t] = "enter" /\ owner[mine[t]] # None =>
                     LET u == owner[mine[t]]
                     IN  u \in Thread /\ mine[u] = mine[t] /\ pc[u] \in Inside
<1>1. Init => TypeOK /\ OwnerInside
  BY InitTypes, InitOwners
<1>2. TypeOK /\ OwnerInside /\ [Next]_vars => (TypeOK /\ OwnerInside)'
  BY NextTypes, NextOwners
<1>3. TypeOK /\ OwnerInside => Runs
  <2>1. SUFFICES ASSUME TypeOK, OwnerInside, NEW t \in Thread, pc[t] = "enter",
                        owner[mine[t]] # None
                 PROVE  LET u == owner[mine[t]]
                        IN  u \in Thread /\ mine[u] = mine[t] /\ pc[u] \in Inside
    OBVIOUS
  <2>2. mine[t] \in Lock
    BY <2>1 DEF TypeOK
  <2>3. owner[mine[t]] \in Thread
    BY <2>1, <2>2 DEF TypeOK
  <2>4. QED
    BY <2>1, <2>2, <2>3 DEF OwnerInside
<1>4. QED
  BY <1>1, <1>2, <1>3, PTL DEF Spec

--------------------------------------------------------------------------------
(* How many loads overlap.  Threads that load at once are in the monitors of *)
(* different lock objects, so the lock objects in use are counted: one more  *)
(* is made only when the map is empty, the map is emptied only at the end of *)
(* a load, and that end was begun by a call of the loader.                   *)

InUse == ({mine[t] : t \in Thread} \cup {keyLock}) \ {None}
Room == IF keyLock = None THEN 1 ELSE 0
Finishing == {t \in Thread : pc[t] \in {"load", "store", "unlist"}}

LocksCounted ==
  Cardinality(InUse) + Room + Cardinality(Finishing) <= 1 + loads

CountInv == TypeOK /\ OwnerInside /\ LocksCounted

LEMMA CountsAreNumbers ==
  ASSUME TypeOK
  PROVE  /\ IsFiniteSet(InUse) /\ Cardinality(InUse) \in Nat
         /\ IsFiniteSet(Finishing) /\ Cardinality(Finishing) \in Nat
         /\ Room \in {0, 1} /\ loads \in Nat
<1>1. IsFiniteSet(Thread)
  BY LoaderAssumption DEF LoaderAssumption
<1>2. IsFiniteSet({mine[t] : t \in Thread})
  <2> DEFINE M == {mine[t] : t \in Thread}
  <2>1. mine \in Surjection(Thread, M)
    BY DEF TypeOK, Surjection
  <2>2. QED
    BY <1>1, <2>1, FS_Surjection
<1>3. IsFiniteSet({mine[t] : t \in Thread} \cup {keyLock})
  BY <1>2, FS_AddElement
<1>4. IsFiniteSet(InUse)
  BY <1>3, FS_Difference DEF InUse
<1>5. IsFiniteSet(Finishing)
  <2>1. Finishing \subseteq Thread
    BY DEF Finishing
  <2>2. QED
    BY <1>1, <2>1, FS_Subset
<1>6. QED
  BY <1>4, <1>5, FS_CardinalityType DEF Room, TypeOK

LEMMA CountsAreNumbersAfter ==
  ASSUME TypeOK'
  PROVE  /\ IsFiniteSet(InUse)' /\ Cardinality(InUse)' \in Nat
         /\ IsFiniteSet(Finishing)' /\ Cardinality(Finishing)' \in Nat
         /\ Room' \in {0, 1} /\ loads' \in Nat
<1>1. IsFiniteSet(Thread)
  BY LoaderAssumption DEF LoaderAssumption
<1>2. IsFiniteSet({mine'[t] : t \in Thread})
  <2> DEFINE M == {mine'[t] : t \in Thread}
  <2>1. mine' \in Surjection(Thread, M)
    BY DEF TypeOK, Surjection
  <2>2. QED
    BY <1>1, <2>1, FS_Surjection
<1>3. IsFiniteSet({mine'[t] : t \in Thread} \cup {keyLock'})
  BY <1>2, FS_AddElement
<1>4. IsFiniteSet(InUse)'
  BY <1>3, FS_Difference DEF InUse
<1>5. IsFiniteSet(Finishing)'
  <2>1. Finishing' \subseteq Thread
    BY DEF Finishing
  <2>2. QED
    BY <1>1, <2>1, FS_Subset
<1>6. QED
  BY <1>4, <1>5, FS_CardinalityType DEF Room, TypeOK

LEMMA InitCounts == Init => LocksCounted
<1> SUFFICES ASSUME Init PROVE LocksCounted
  OBVIOUS
<1>1. InUse = {} /\ Finishing = {}
  BY DEF Init, InUse, Finishing
<1>2. Room = 1 /\ loads = 0
  BY DEF Init, Room
<1>3. QED
  BY <1>1, <1>2, FS_EmptySet DEF LocksCounted

(* A step that uses no new lock object, leaves the map as it is and begins   *)
(* no load keeps the count.                                                  *)
LEMMA NoMoreInUse ==
  ASSUME TypeOK, TypeOK', LocksCounted,
         InUse' \subseteq InUse, keyLock' = keyLock,
         Finishing' \subseteq Finishing, loads' = loads
  PROVE  LocksCounted'
<1>1. Cardinality(InUse') <= Cardinality(InUse)
  BY CountsAreNumbers, FS_Subset
<1>2. Cardinality(Finishing') <= Cardinality(Finishing)
  BY CountsAreNumbers, FS_Subset
<1>3. Room' = Room
  BY DEF Room
<1> DEFINE u == Cardinality(InUse)
           w == Cardinality(InUse')
           f == Cardinality(Finishing)
           g == Cardinality(Finishing')
<1>4. u \in Nat /\ w \in Nat /\ f \in Nat /\ g \in Nat
  BY CountsAreNumbers, CountsAreNumbersAfter
<1>5. Room \in {0, 1} /\ loads \in Nat /\ u + Room + f <= 1 + loads
  BY CountsAreNumbers DEF LocksCounted
<1>6. w <= u /\ g <= f
  BY <1>1, <1>2
<1> HIDE DEF u, w, f, g
<1>7. w + Room + g <= 1 + loads
  BY <1>4, <1>5, <1>6
<1>8. QED
  BY <1>3, <1>7 DEF LocksCounted, u, w, f, g

(* computeIfAbsent makes a lock object only when the map is empty: one more  *)
(* object is in use and there is no room for another.                        *)
LEMMA TakeCounts ==
  ASSUME TypeOK, TypeOK', LocksCounted, NEW t \in Thread, TakeLockObject(t)
  PROVE  LocksCounted'
<1>1. /\ mine' = [mine EXCEPT ![t] = keyLock'] /\ loads' = loads
      /\ keyLock' = IF keyLock = None THEN NewLock ELSE keyLock
      /\ mine[t] = None
      /\ mine \in [Thread -> Lock \cup {None}]
      /\ pc[t] = "lock" /\ pc' = [pc EXCEPT ![t] = "enter"]
      /\ pc \in [Thread -> Steps]
  BY DEF TakeLockObject, Goto, TypeOK
<1>2. Finishing' = Finishing
  BY <1>1 DEF Finishing
<1>3. CASE keyLock # None
  <2>1. keyLock' = keyLock
    BY <1>1, <1>3
  <2>2. \A u \in Thread : mine'[u] \in {mine[u], keyLock}
    BY <1>1, <2>1
  <2>3. InUse' \subseteq InUse
    BY <2>1, <2>2 DEF InUse
  <2>4. QED
    BY <1>1, <1>2, <2>1, <2>3, NoMoreInUse
<1>4. CASE keyLock = None
  <2>1. keyLock' = NewLock /\ Lock \ Used # {}
    BY <1>1, <1>4 DEF TakeLockObject
  <2>2. NewLock \in Lock /\ NewLock \notin Used
    BY <2>1 DEF NewLock
  <2>3. NewLock # None
    BY <2>2, LoaderAssumption DEF LoaderAssumption
  <2>4. NewLock \notin InUse
    BY <1>4, <2>2, <2>3 DEF InUse, Used
  <2>5. \A u \in Thread : mine'[u] = IF u = t THEN NewLock ELSE mine[u]
    BY <1>1, <2>1
  <2>6. InUse' = InUse \cup {NewLock}
    <3>1. InUse' \subseteq InUse \cup {NewLock}
      BY <2>1, <2>5 DEF InUse
    <3>2. ASSUME NEW x \in InUse PROVE x \in InUse'
      <4>1. PICK u \in Thread : x = mine[u] /\ x # None
        BY <1>4, <3>2 DEF InUse
      <4>2. u # t
        BY <1>1, <4>1
      <4>3. mine'[u] = x
        BY <2>5, <4>1, <4>2
      <4>4. QED
        BY <4>1, <4>3 DEF InUse
    <3>3. NewLock \in InUse'
      BY <2>1, <2>3 DEF InUse
    <3>4. QED
      BY <3>1, <3>2, <3>3
  <2>7. Cardinality(InUse') = Cardinality(InUse) + 1
    BY <2>4, <2>6, CountsAreNumbers, FS_AddElement
  <2>8. Room = 1 /\ Room' = 0
    BY <1>4, <2>1, <2>3 DEF Room
  <2> DEFINE u == Cardinality(InUse)
             f == Cardinality(Finishing)
  <2>9. u \in Nat /\ f \in Nat /\ loads \in Nat /\ u + 1 + f <= 1 + loads
    BY <2>8, CountsAreNumbers DEF LocksCounted
  <2> HIDE DEF u, f
  <2>10. (u + 1) + 0 + f <= 1 + loads
    BY <2>9
  <2>11. QED
    BY <1>1, <1>2, <2>7, <2>8, <2>10 DEF LocksCounted, u, f
<1>5. QED
  BY <1>3, <1>4

(* The second look begins a load, and counts it. *)
LEMMA LookCounts ==
  ASSUME TypeOK, TypeOK', LocksCounted, NEW t \in Thread, SecondLook(t)
  PROVE  LocksCounted'
<1>1. /\ UNCHANGED <<cached, keyLock, owner, mine, fails, evicts>>
      /\ pc[t] = "look" /\ pc \in [Thread -> Steps]
  BY DEF SecondLook, TypeOK
<1>2. InUse' = InUse /\ Room' = Room
  BY <1>1 DEF InUse, Room
<1>3. CASE cached \/ t \in Batch
  <2>1. loads' = loads /\ pc' = [pc EXCEPT ![t] = "leave"]
    BY <1>3 DEF SecondLook, Goto
  <2>2. Finishing' \subseteq Finishing
    BY <1>1, <2>1 DEF Finishing
  <2>3. QED
    BY <1>1, <1>2, <2>1, <2>2, NoMoreInUse
<1>4. CASE ~(cached \/ t \in Batch)
  <2>1. loads' = loads + 1 /\ pc' = [pc EXCEPT ![t] = "load"]
    BY <1>4 DEF SecondLook, Goto
  <2>2. t \notin Finishing /\ Finishing' = Finishing \cup {t}
    BY <1>1, <2>1 DEF Finishing
  <2>3. Cardinality(Finishing') = Cardinality(Finishing) + 1
    BY <2>2, CountsAreNumbers, FS_AddElement
  <2> DEFINE u == Cardinality(InUse)
             f == Cardinality(Finishing)
  <2>4. /\ u \in Nat /\ f \in Nat /\ loads \in Nat /\ Room \in {0, 1}
        /\ u + Room + f <= 1 + loads
    BY CountsAreNumbers DEF LocksCounted
  <2> HIDE DEF u, f
  <2>5. u + Room + (f + 1) <= 1 + (loads + 1)
    BY <2>4
  <2>6. QED
    BY <1>2, <2>1, <2>3, <2>5 DEF LocksCounted, u, f
<1>5. QED
  BY <1>3, <1>4

(* The end of a load empties the map: there may be room for one more lock    *)
(* object, and one thread less is finishing a load.                          *)
LEMMA UnlistCounts ==
  ASSUME TypeOK, TypeOK', LocksCounted, NEW t \in Thread, Unlist(t)
  PROVE  LocksCounted'
<1>1. /\ keyLock' = None /\ mine' = mine /\ loads' = loads
      /\ pc[t] = "unlist" /\ pc' = [pc EXCEPT ![t] = "leave"]
      /\ pc \in [Thread -> Steps]
  BY DEF Unlist, Goto, TypeOK
<1>2. InUse' \subseteq InUse
  BY <1>1 DEF InUse
<1>3. Cardinality(InUse') <= Cardinality(InUse)
  BY <1>2, CountsAreNumbers, FS_Subset
<1>4. t \in Finishing /\ Finishing' = Finishing \ {t}
  BY <1>1 DEF Finishing
<1>5. Cardinality(Finishing') = Cardinality(Finishing) - 1
  BY <1>4, CountsAreNumbers, FS_RemoveElement
<1>6. Room' = 1
  BY <1>1 DEF Room
<1> DEFINE u == Cardinality(InUse)
           w == Cardinality(InUse')
           f == Cardinality(Finishing)
<1>7. /\ u \in Nat /\ w \in Nat /\ f \in Nat /\ loads \in Nat
      /\ Room \in {0, 1} /\ u + Room + f <= 1 + loads /\ w <= u
  BY <1>3, CountsAreNumbers, CountsAreNumbersAfter DEF LocksCounted
<1> HIDE DEF u, w, f
<1>8. w + 1 + (f - 1) <= 1 + loads
  BY <1>7
<1>9. QED
  BY <1>1, <1>5, <1>6, <1>8 DEF LocksCounted, u, w, f

LEMMA NextCounts ==
  TypeOK /\ TypeOK' /\ LocksCounted /\ [Next]_vars => LocksCounted'
<1> SUFFICES ASSUME TypeOK, TypeOK', LocksCounted, [Next]_vars
             PROVE  LocksCounted'
  OBVIOUS
<1>0. pc \in [Thread -> Steps] /\ mine \in [Thread -> Lock \cup {None}]
  BY DEF TypeOK
<1>1. CASE Evict
  BY <1>1, NoMoreInUse DEF Evict, InUse, Finishing
<1>2. CASE \E t \in Thread : Get(t)
  <2>1. InUse' = InUse /\ keyLock' = keyLock /\ loads' = loads
    BY <1>2 DEF Get, InUse
  <2>2. Finishing' \subseteq Finishing
    BY <1>0, <1>2 DEF Get, Goto, Finishing
  <2>3. QED
    BY <2>1, <2>2, NoMoreInUse
<1>3. CASE \E t \in Thread : TakeLockObject(t)
  BY <1>3, TakeCounts
<1>4. CASE \E t \in Thread : Enter(t)
  <2>1. InUse' = InUse /\ keyLock' = keyLock /\ loads' = loads
    BY <1>4 DEF Enter, InUse
  <2>2. Finishing' \subseteq Finishing
    BY <1>0, <1>4 DEF Enter, Goto, Finishing
  <2>3. QED
    BY <2>1, <2>2, NoMoreInUse
<1>5. CASE \E t \in Thread : SecondLook(t)
  BY <1>5, LookCounts
<1>6. CASE \E t \in Thread : LoadGives(t) \/ LoadFails(t) \/ Store(t)
  <2>1. InUse' = InUse /\ keyLock' = keyLock /\ loads' = loads
    BY <1>6 DEF LoadGives, LoadFails, Store, InUse
  <2>2. Finishing' \subseteq Finishing
    BY <1>0, <1>6 DEF LoadGives, LoadFails, Store, Goto, Finishing
  <2>3. QED
    BY <2>1, <2>2, NoMoreInUse
<1>7. CASE \E t \in Thread : Unlist(t)
  BY <1>7, UnlistCounts
<1>8. CASE \E t \in Thread : Leave(t)
  <2>1. PICK t \in Thread : Leave(t)
    BY <1>8
  <2>2. keyLock' = keyLock /\ loads' = loads /\ mine' = [mine EXCEPT ![t] = None]
    BY <2>1 DEF Leave
  <2>3. InUse' \subseteq InUse
    BY <1>0, <2>2 DEF InUse
  <2>4. Finishing' \subseteq Finishing
    BY <1>0, <2>1 DEF Leave, Goto, Finishing
  <2>5. QED
    BY <2>2, <2>3, <2>4, NoMoreInUse
<1>9. CASE UNCHANGED vars
  BY <1>9, NoMoreInUse DEF vars, InUse, Finishing
<1>10. QED
  BY <1>1, <1>2, <1>3, <1>4, <1>5, <1>6, <1>7, <1>8, <1>9 DEF Next, Proceed

(* Loading threads are in the monitors of different objects in use. *)
LEMMA LoadersApart ==
  ASSUME TypeOK, OwnerInside
  PROVE  IsFiniteSet(Loading) /\ Cardinality(Loading) <= Cardinality(InUse)
<1> DEFINE at == [t \in Loading |-> mine[t]]
<1>1. Loading \subseteq Thread
  BY DEF Loading
<1>2. \A t \in Loading : mine[t] \in InUse
  BY <1>1 DEF TypeOK, Loading, InUse
<1>3. \A t, u \in Loading : mine[t] = mine[u] => t = u
  BY <1>1, OneInside DEF Loading, Inside
<1>4. at \in Injection(Loading, InUse)
  BY <1>2, <1>3 DEF Injection, IsInjective
<1>5. IsFiniteSet(InUse)
  BY CountsAreNumbers
<1> HIDE DEF at
<1>6. QED
  BY <1>4, <1>5, FS_Injection

LEMMA CountSuffices == CountInv => LoadersBounded
<1> SUFFICES ASSUME CountInv PROVE LoadersBounded
  OBVIOUS
<1>1. TypeOK /\ OwnerInside /\ LocksCounted
  BY DEF CountInv
<1>2. Cardinality(Loading) <= Cardinality(InUse) /\ IsFiniteSet(Loading)
  BY <1>1, LoadersApart
<1>3. Loading \subseteq Finishing
  BY DEF Loading, Finishing
<1>4. Cardinality(Loading) <= Cardinality(Finishing)
  BY <1>1, <1>3, CountsAreNumbers, FS_Subset
<1> DEFINE n == Cardinality(Loading)
           u == Cardinality(InUse)
           f == Cardinality(Finishing)
<1>5. /\ n \in Nat /\ u \in Nat /\ f \in Nat /\ Room \in {0, 1}
      /\ loads \in Nat /\ n <= u /\ n <= f /\ u + Room + f <= 1 + loads
  BY <1>1, <1>2, <1>4, CountsAreNumbers, FS_CardinalityType DEF LocksCounted
<1> HIDE DEF n, u, f
<1>6. 2 * n <= 1 + loads
  BY <1>5
<1>7. QED
  BY <1>6 DEF LoadersBounded, n

(* For any threads, failures and evictions: no more loads of the key are     *)
(* under way at once than one more than have ended (get with a loader).      *)
THEOREM LoadsOverlapBounded == Spec => []LoadersBounded
<1>1. Init => CountInv
  BY InitTypes, InitOwners, InitCounts DEF CountInv
<1>2. CountInv /\ [Next]_vars => CountInv'
  BY NextTypes, NextOwners, NextCounts DEF CountInv
<1>3. CountInv => LoadersBounded
  BY CountSuffices
<1>4. QED
  BY <1>1, <1>2, <1>3, PTL DEF Spec
================================================================================
