------------------------------ MODULE KeyLoader ------------------------------
(***************************************************************************)
(* CacheChannel.get(region, key, loader): threads of one JVM that miss the *)
(* same key let one of them call the loader while the others wait.  They   *)
(* meet on a lock object kept in the map _g_keyLocks under the key; the    *)
(* loading thread removes it from the map before it leaves the monitor, so *)
(* that threads may wait on a lock that is no longer in the map.  The get  *)
(* of many keys with a loader uses the same locks.                         *)
(*                                                                         *)
(* One key is modelled.  A look at the two cache levels is one step here;  *)
(* J2CacheChannel has its parts.                                           *)
(***************************************************************************)
EXTENDS Naturals, FiniteSets

CONSTANTS
  Thread,     (* request threads of the JVM                                *)
  Batch,      (* those that call get(region, keys, loader)                 *)
  Lock,       (* lock objects; one that nothing refers to is made anew     *)
  None,       (* "no thread", "no lock object"                             *)
  MaxFails,   (* bound: loads without a value (null or an exception)       *)
  MaxEvicts   (* bound: evictions and expiries of the key                  *)

ASSUME LoaderAssumption ==
  /\ IsFiniteSet(Thread) /\ Batch \subseteq Thread
  /\ None \notin Thread \cup Lock
  /\ MaxFails \in Nat /\ MaxEvicts \in Nat

VARIABLES
  cached,     (* the key has a value in the cache                          *)
  keyLock,    (* the lock object in _g_keyLocks, or None                   *)
  owner,      (* lock object -> thread inside its monitor                  *)
  mine,       (* thread -> lock object it synchronizes on, or None         *)
  pc,         (* thread -> its next step                                   *)
  answer,     (* thread -> what its last get returned                      *)
  loads,      (* history: calls of a loader                                *)
  fails,      (* history: loads without a value                            *)
  evicts      (* history: evictions                                        *)

vars == <<cached, keyLock, owner, mine, pc, answer,
          loads, fails, evicts>>

Steps == {"idle", "lock", "enter", "look", "load", "store", "unlist", "leave"}
Answers == {"none", "value", "null"}

Init ==
  /\ cached = FALSE /\ keyLock = None
  /\ owner = [l \in Lock |-> None]
  /\ mine = [t \in Thread |-> None]
  /\ pc = [t \in Thread |-> "idle"]
  /\ answer = [t \in Thread |-> "none"]
  /\ loads = 0 /\ fails = 0 /\ evicts = 0

Goto(t, step) == pc' = [pc EXCEPT ![t] = step]
Return(t, a) == answer' = [answer EXCEPT ![t] = a]
Cached == IF cached THEN "value" ELSE "null"
Used == {mine[t] : t \in Thread}
NewLock == CHOOSE l \in Lock : l \notin Used

(* The first look: a hit is returned at once. *)
Get(t) ==
  /\ pc[t] = "idle"
  /\ IF cached THEN Return(t, "value") /\ UNCHANGED pc
     ELSE Goto(t, "lock") /\ UNCHANGED answer
  /\ UNCHANGED <<cached, keyLock, owner, mine, loads, fails, evicts>>

(* computeIfAbsent: the lock object in the map, or a new one. *)
TakeLockObject(t) ==
  /\ pc[t] = "lock"
  /\ Goto(t, "enter")
  /\ keyLock # None \/ Lock \ Used # {}
  /\ keyLock' = IF keyLock = None THEN NewLock ELSE keyLock
  /\ mine' = [mine EXCEPT ![t] = keyLock']
  /\ UNCHANGED <<cached, owner, answer, loads, fails, evicts>>

Enter(t) ==
  /\ pc[t] = "enter" /\ owner[mine[t]] = None
  /\ owner' = [owner EXCEPT ![mine[t]] = t]
  /\ Goto(t, "look")
  /\ UNCHANGED <<cached, keyLock, mine, answer, loads, fails,
                 evicts>>

(* The second look, inside the monitor.  The get of many keys compares the  *)
(* CacheObject itself with null, which it never is: it returns what it      *)
(* finds and leaves the lock object in the map, as a hit does.              *)
NoSecondLook(t) ==
  /\ pc[t] = "look" /\ Goto(t, "load")
  /\ loads' = loads + 1
  /\ UNCHANGED <<cached, keyLock, owner, mine, answer, fails, evicts>>
WaitForValue(t) ==
  /\ pc[t] = "look"
  /\ IF cached THEN Return(t, Cached) /\ Goto(t, "leave")
     ELSE UNCHANGED <<answer, pc>>
  /\ UNCHANGED <<cached, keyLock, owner, mine, loads, fails, evicts>>
SecondLook(t) ==
  /\ pc[t] = "look"
  /\ IF cached \/ t \in Batch
     THEN /\ Return(t, Cached) /\ Goto(t, "leave")
          /\ UNCHANGED loads
     ELSE /\ Goto(t, "load")
          /\ loads' = loads + 1
          /\ UNCHANGED answer
  /\ UNCHANGED <<cached, keyLock, owner, mine, fails, evicts>>

LoadUnlists(t) ==
  /\ pc[t] = "load" /\ Goto(t, "store")
  /\ keyLock' = None
  /\ UNCHANGED <<cached, owner, mine, answer, loads, fails, evicts>>
LoadGives(t) ==
  /\ pc[t] = "load"
  /\ Goto(t, "store")
  /\ UNCHANGED <<cached, keyLock, owner, mine, answer, loads,
                 fails, evicts>>

LoadFailsLocked(t) ==
  /\ pc[t] = "load" /\ fails < MaxFails
  /\ fails' = fails + 1 /\ Return(t, "null") /\ Goto(t, "idle")
  /\ UNCHANGED <<cached, keyLock, owner, mine, loads, evicts>>
LoadFails(t) ==
  /\ pc[t] = "load" /\ fails < MaxFails
  /\ fails' = fails + 1
  /\ Return(t, "null") /\ Goto(t, "unlist")
  /\ UNCHANGED <<cached, keyLock, owner, mine, loads, evicts>>

Store(t) ==
  /\ pc[t] = "store"
  /\ cached' = TRUE
  /\ Return(t, "value") /\ Goto(t, "unlist")
  /\ UNCHANGED <<keyLock, owner, mine, loads, fails, evicts>>

(* finally: whatever lock object is in the map now is removed. *)
Unlist(t) ==
  /\ pc[t] = "unlist"
  /\ keyLock' = None
  /\ Goto(t, "leave")
  /\ UNCHANGED <<cached, owner, mine, answer, loads, fails, evicts>>

Leave(t) ==
  /\ pc[t] = "leave"
  /\ owner' = [owner EXCEPT ![mine[t]] = None]
  /\ mine' = [mine EXCEPT ![t] = None]
  /\ Goto(t, "idle")
  /\ UNCHANGED <<cached, keyLock, answer, loads, fails,
                 evicts>>

(* Somebody evicts the key, or it expires. *)
Evict ==
  /\ cached /\ evicts < MaxEvicts
  /\ cached' = FALSE
  /\ evicts' = evicts + 1
  /\ UNCHANGED <<keyLock, owner, mine, pc, answer, loads, fails>>

Proceed(t) ==
  \/ TakeLockObject(t) \/ Enter(t) \/ SecondLook(t) \/ LoadGives(t)
  \/ LoadFails(t) \/ Store(t) \/ Unlist(t) \/ Leave(t)

Next == Evict \/ \E t \in Thread : Get(t) \/ Proceed(t)

Spec == Init /\ [][Next]_vars

(* A thread inside a get goes on, and the loader returns; a monitor that    *)
(* comes free again and again lets each waiting thread in at some time.     *)
Fairness == \A t \in Thread : WF_vars(Proceed(t)) /\ SF_vars(Enter(t))
FairSpec == Spec /\ Fairness

--------------------------------------------------------------------------------

(* Types; and a thread refers to a lock object exactly from computeIfAbsent  *)
(* to the end of the monitor.                                               *)
TypeOK ==
  /\ cached \in BOOLEAN
  /\ keyLock \in Lock \cup {None}
  /\ owner \in [Lock -> Thread \cup {None}]
  /\ mine \in [Thread -> Lock \cup {None}]
  /\ pc \in [Thread -> Steps]
  /\ \A t \in Thread : mine[t] = None <=> pc[t] \in {"idle", "lock"}
  /\ answer \in [Thread -> Answers]
  /\ loads \in Nat /\ fails \in 0..MaxFails /\ evicts \in 0..MaxEvicts

(* Threads that miss together load once: as long as no load came back empty *)
(* and nothing was evicted, the loader was called at most once, although    *)
(* the lock object leaves the map while threads still wait on it.           *)
LoadedOnce == fails + evicts = 0 => loads <= 1

(* Loads of the key overlap only after loads have ended: there are never    *)
(* more under way than one more than have ended.  A newcomer's lock object   *)
(* is not the one the others wait on only once a load's end has unlisted it. *)
Loading == {t \in Thread : pc[t] \in {"load", "store"}}
LoadersBounded == 2 * Cardinality(Loading) <= 1 + loads

(* Every get comes back: no thread waits for ever on a lock object that was *)
(* removed from the map, left in it, or whose owner's loader failed.        *)
GetEnds == \A t \in Thread : pc[t] # "idle" ~> pc[t] = "idle"
================================================================================
