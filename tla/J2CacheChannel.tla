---------------------------- MODULE J2CacheChannel ----------------------------
(***************************************************************************)
(* The two-level cache channel (net.oschina.j2cache.CacheChannel) on a     *)
(* cluster of application nodes: a private level-1 cache per node          *)
(* (Caffeine), one shared level-2 cache (Redis) and a Redis publish /      *)
(* subscribe channel that carries the evict and clear commands.            *)
(*                                                                         *)
(* One cache region is modelled: regions share nothing.  The channel takes *)
(* no lock, so every call on one of the caches is a step of its own.  Each *)
(* thread serves requests on the node Home[t].                             *)
(***************************************************************************)
EXTENDS Integers, Sequences, FiniteSets

CONSTANTS
  Node,        (* application nodes (one JVM, one level-1 cache each)      *)
  Thread,      (* request threads                                          *)
  Home,        (* the node every thread runs on                            *)
  Key,         (* cache keys of the region                                 *)
  None,        (* "no entry"                                               *)
  MaxOps,      (* bound: mutating operations and expiries of a behaviour   *)
  MaxFaults    (* bound: failures of a behaviour                           *)

ASSUME ChannelAssumption ==
  /\ Home \in [Thread -> Node]
  /\ None \notin Nat
  /\ MaxOps \in Nat
  /\ MaxFaults \in Nat

VARIABLES
  l1,        (* node -> key -> value in the Caffeine cache of the node     *)
  l2,        (* key -> value in Redis                                      *)
  online,    (* nodes whose subscriber thread is subscribed                *)
  inbox,     (* node -> commands published and not yet handled             *)
  pc,        (* thread -> the next cache call of the operation it runs     *)
  op,        (* thread -> operation under way: keys, values, whole region? *)
  expiry,    (* node -> key -> progress of the level-1 expiry listener     *)
  issued,    (* number of mutating operations begun; numbers the values    *)
  faults,    (* number of failures so far                                  *)
  raced,     (* history: keys whose window in a thread was interfered with *)
  stuck      (* history: entries left with no invalidation on its way      *)

caches == <<l1, l2>>
net    == <<online, inbox>>
hist   == <<raced, stuck>>
vars   == <<l1, l2, online, inbox, pc, op, expiry, issued, faults, raced, stuck>>

Val     == Nat \cup {None}
Empty   == [k \in Key |-> None]
NoOp    == [keys |-> {}, val |-> Empty, all |-> FALSE]
Operation == [keys : SUBSET Key, val : [Key -> Val], all : BOOLEAN]
Command == [src : Node, keys : SUBSET Key]

CachesOK == l1 \in [Node -> [Key -> Val]] /\ l2 \in [Key -> Val]
NetOK == online \subseteq Node /\ inbox \in [Node -> Seq(Command)]
ThreadsOK ==
  /\ pc \in [Thread -> {"idle", "readL2", "fill", "scanL2", "writeL2", "publish"}]
  /\ op \in [Thread -> Operation]
  /\ \A t \in Thread : pc[t] = "idle" => op[t] = NoOp
ProgressOK ==
  /\ expiry \in [Node -> [Key -> {"none", "evictL2", "publish"}]]
  /\ issued \in Nat /\ faults \in Nat
HistoryOK == raced \in [Thread -> SUBSET Key] /\ stuck \in [Node -> SUBSET Key]
\* Every variable has its type, and a thread between requests holds nothing.
TypeOK == CachesOK /\ NetOK /\ ThreadsOK /\ ProgressOK /\ HistoryOK

Init ==
  /\ l1 = [n \in Node |-> Empty]
  /\ l2 = Empty
  /\ online = {}
  /\ inbox = [n \in Node |-> <<>>]
  /\ pc = [t \in Thread |-> "idle"]
  /\ op = [t \in Thread |-> NoOp]
  /\ expiry = [n \in Node |-> [k \in Key |-> "none"]]
  /\ issued = 0 /\ faults = 0
  /\ raced = [t \in Thread |-> {}]
  /\ stuck = [n \in Node |-> {}]

(***************************************************************************)
(* The two caches and the channel.                                         *)
(***************************************************************************)

\* put(map) and evict(keys) on one cache: the keys of K take the values of f.
Write(cache, K, f) == [k \in Key |-> IF k \in K THEN f[k] ELSE cache[k]]

\* publish: Redis hands the command to every subscriber, the sender included.
DeliverToSender(src, K) == inbox' = [inbox EXCEPT ![src] = Append(@, [src |-> src, keys |-> K])]
Deliver(src, K) ==
  inbox' = [n \in Node |-> IF n \in online THEN Append(inbox[n], [src |-> src, keys |-> K])
                                           ELSE inbox[n]]

\* The keys a thread is between two calls on: between the level-2 read of a
\* get and its level-1 put, or between the two writes of a set.
Window(t, where) == IF pc[t] \in where THEN op[t].keys ELSE {}

\* Node n will never again be told to drop K[n]: an invalidation was lost or
\* has been handled.  A value read before that may still be put afterwards.
Race(R) == raced' = [t \in Thread |-> raced[t] \cup R[t]]
LostBy(K) == [t \in Thread |-> K[Home[t]] \cap Window(t, {"fill"})]
Present(n, K) == {k \in K : l1[n][k] # None}
MissedBy(src, K) == [n \in Node |-> IF n = src \/ n \in online THEN {} ELSE K]
Lose(K) ==
  /\ Race(LostBy(K))
  /\ stuck' = [n \in Node |-> stuck[n] \cup Present(n, K[n])]

Others(t) == {u \in Thread : u # t /\ Home[u] = Home[t]}

(***************************************************************************)
(* get(region, key) and get(region, keys).                                 *)
(***************************************************************************)

\* Level-1 lookup.  A hit returns and changes nothing; S are the keys asked.
GetL1(t, S) ==
  LET misses == {k \in S : l1[Home[t]][k] = None}
  IN  /\ pc[t] = "idle"
      /\ misses # {}
      /\ pc' = [pc EXCEPT ![t] = "readL2"]
      /\ op' = [op EXCEPT ![t] = [NoOp EXCEPT !.keys = misses]]
      /\ UNCHANGED <<caches, net, expiry, issued, faults, hist>>

KeepOp(t) ==
  /\ pc[t] = "readL2"
  /\ pc' = [pc EXCEPT ![t] = "idle"]
  /\ UNCHANGED <<caches, net, op, expiry, issued, faults, hist>>
\* Level-2 lookup; when Redis throws, the get ends as if nothing were found.
GetL2(t) ==
  /\ pc[t] = "readL2"
  /\ \E found \in {{k \in op[t].keys : l2[k] # None}, {}} :
       IF found = {}
         THEN pc' = [pc EXCEPT ![t] = "idle"] /\ op' = [op EXCEPT ![t] = NoOp]
         ELSE /\ pc' = [pc EXCEPT ![t] = "fill"]
              /\ op' = [op EXCEPT ![t] = [NoOp EXCEPT !.keys = found, !.val = Write(Empty, found, l2)]]
  /\ UNCHANGED <<caches, net, expiry, issued, faults, hist>>

\* The value read is put in level 1, whatever happened since it was read.
Fill(t, k) ==
  LET n    == Home[t]
      left == op[t].keys \ {k}
  IN  /\ pc[t] = "fill"
      /\ k \in op[t].keys
      /\ l1' = [l1 EXCEPT ![n][k] = op[t].val[k]]
      /\ pc' = [pc EXCEPT ![t] = IF left = {} THEN "idle" ELSE "fill"]
      /\ op' = [op EXCEPT ![t] = IF left = {} THEN NoOp ELSE [op[t] EXCEPT !.keys = left]]
      /\ raced' = [u \in Thread |->
                     IF u = t THEN raced[t] \ {k}
                     ELSE raced[u] \cup (IF u \in Others(t)
                                           THEN {k} \cap Window(u, {"scanL2", "writeL2"}) ELSE {})]
      /\ stuck' = [stuck EXCEPT ![n] = IF k \in raced[t] THEN @ \cup {k} ELSE @ \ {k}]
      /\ UNCHANGED <<l2, net, expiry, issued, faults>>

(***************************************************************************)
(* set, evict and clear: level 1, level 2, then the command (finally).     *)
(***************************************************************************)

\* The level-1 call that begins a set (v a value), an evict or a clear.
Begin(t, next, o) ==
  LET n == Home[t]
  IN  /\ pc[t] = "idle"
      /\ issued < MaxOps
      /\ issued' = issued + 1
      /\ l1' = [l1 EXCEPT ![n] = Write(@, o.keys, o.val)]
      /\ pc' = [pc EXCEPT ![t] = next]
      /\ op' = [op EXCEPT ![t] = o]
      /\ raced' = [u \in Thread |->
                     raced[u] \cup (IF u \in Others(t)
                                      THEN {k \in o.keys : o.val[k] # None}
                                             \cap Window(u, {"scanL2", "writeL2"}) ELSE {})]
      /\ stuck' = [stuck EXCEPT ![n] = @ \ o.keys]
      /\ UNCHANGED <<l2, net, expiry, faults>>

Set(t, S) == 
  Begin(t, "writeL2", [keys |-> S, val |-> [k \in Key |-> issued + 1], all |-> FALSE])
Evict(t, S) == Begin(t, "writeL2", [keys |-> S, val |-> Empty, all |-> FALSE])
Clear(t)    == Begin(t, "scanL2", [keys |-> Key, val |-> Empty, all |-> TRUE])

\* A set whose level-1 put throws (null value, other TTL) still publishes: a
\* batch may have put the part P of its keys by then.
SetRejected(t, S) ==
  LET n == Home[t]
  IN  /\ pc[t] = "idle"
      /\ issued < MaxOps
      /\ issued' = issued + 1
      /\ \E P \in (SUBSET S) \ {S} :
           /\ l1' = [l1 EXCEPT ![n] = Write(@, P, [k \in Key |-> issued + 1])]
           /\ raced' = [u \in Thread |->
                          raced[u] \cup (IF u \in Others(t)
                                           THEN P \cap Window(u, {"scanL2", "writeL2"}) ELSE {})]
           /\ stuck' = [stuck EXCEPT ![n] = @ \cup P]
      /\ pc' = [pc EXCEPT ![t] = "publish"]
      /\ op' = [op EXCEPT ![t] = [NoOp EXCEPT !.keys = S]]
      /\ UNCHANGED <<l2, net, expiry, faults>>

\* clear() of the Redis cache first lists the keys of the region ...
ScanL2(t) ==
  /\ pc[t] = "scanL2"
  /\ pc' = [pc EXCEPT ![t] = "writeL2"]
  /\ op' = [op EXCEPT ![t].keys = {k \in @ : l2[k] # None}]
  /\ raced' = [raced EXCEPT ![t] = @ \cap {k \in Key : l2[k] # None}]
  /\ UNCHANGED <<caches, net, expiry, issued, faults, stuck>>

\* ... and set, evict and clear then change Redis, or throw and change nothing.
WriteL2(t) ==
  LET n == Home[t]
      K == op[t].keys
  IN  /\ pc[t] = "writeL2"
      /\ l2' = Write(l2, K, op[t].val)
      /\ pc' = [pc EXCEPT ![t] = "publish"]
      /\ raced' = [u \in Thread |->
                     IF u = t THEN {}
                     ELSE raced[u] \cup (IF u \in Others(t) THEN K \cap Window(u, {"fill"}) ELSE {})]
      /\ stuck' = [stuck EXCEPT ![n] = (@ \ K) \cup Present(n, raced[t])]
      /\ UNCHANGED <<l1, net, op, expiry, issued, faults>>

WriteL2Fails(t) ==
  /\ pc[t] \in {"scanL2", "writeL2"}
  /\ faults < MaxFaults
  /\ faults' = faults + 1
  /\ pc' = [pc EXCEPT ![t] = "publish"]
  /\ raced' = [raced EXCEPT ![t] = {}]
  /\ stuck' = [stuck EXCEPT ![Home[t]] = @ \cup Present(Home[t], op[t].keys)]
  /\ UNCHANGED <<caches, net, op, expiry, issued>>

\* sendEvictCmd names the keys, sendClearCmd the region.
Named(t) == IF op[t].all THEN Key ELSE op[t].keys

Publish(t) ==
  /\ pc[t] = "publish"
  /\ Deliver(Home[t], Named(t))
  /\ Lose(MissedBy(Home[t], Named(t)))
  /\ pc' = [pc EXCEPT ![t] = "idle"]
  /\ op' = [op EXCEPT ![t] = NoOp]
  /\ UNCHANGED <<caches, online, expiry, issued, faults>>

PublishFails(t) ==
  /\ pc[t] = "publish"
  /\ faults < MaxFaults
  /\ faults' = faults + 1
  /\ Lose([n \in Node |-> IF n = Home[t] THEN {} ELSE Named(t)])
  /\ pc' = [pc EXCEPT ![t] = "idle"]
  /\ op' = [op EXCEPT ![t] = NoOp]
  /\ UNCHANGED <<caches, net, expiry, issued>>

(***************************************************************************)
(* The subscriber thread and the level-1 expiry listener of a node.        *)
(***************************************************************************)

ReceiveOnly(n) ==
  /\ inbox[n] # <<>>
  /\ inbox' = [inbox EXCEPT ![n] = Tail(@)]
  /\ UNCHANGED <<caches, online, pc, op, expiry, issued, faults, hist>>
\* onMessage: a command of this node is ignored, another one empties level 1.
Receive(n) ==
  LET cmd == Head(inbox[n])
      K   == IF cmd.src = n THEN {} ELSE cmd.keys
  IN  /\ inbox[n] # <<>>
      /\ inbox' = [inbox EXCEPT ![n] = Tail(@)]
      /\ l1' = [l1 EXCEPT ![n] = Write(@, K, Empty)]
      /\ Race([t \in Thread |-> IF Home[t] = n THEN K \cap Window(t, {"fill"}) ELSE {}])
      /\ stuck' = [stuck EXCEPT ![n] = @ \ K]
      /\ UNCHANGED <<l2, online, pc, op, expiry, issued, faults>>

\* Caffeine drops an entry by age or size; its listener runs later.
Expire(n, k) ==
  /\ l1[n][k] # None
  /\ expiry[n][k] = "none"
  /\ issued < MaxOps
  /\ issued' = issued + 1
  /\ l1' = [l1 EXCEPT ![n][k] = None]
  /\ expiry' = [expiry EXCEPT ![n][k] = "evictL2"]
  /\ stuck' = [stuck EXCEPT ![n] = @ \ {k}]
  /\ UNCHANGED <<l2, net, pc, op, faults, raced>>

ExpiredEvictL2(n, k) ==
  /\ expiry[n][k] = "evictL2"
  /\ l2' = [l2 EXCEPT ![k] = None]
  /\ expiry' = [expiry EXCEPT ![n][k] = "publish"]
  /\ Race([t \in Thread |-> IF Home[t] = n THEN {k} \cap Window(t, {"fill"}) ELSE {}])
  /\ stuck' = [stuck EXCEPT ![n] = @ \cup Present(n, {k})]
  /\ UNCHANGED <<l1, net, pc, op, issued, faults>>

ExpiredPublish(n, k) ==
  /\ expiry[n][k] = "publish"
  /\ Deliver(n, {k})
  /\ Lose(MissedBy(n, {k}))
  /\ expiry' = [expiry EXCEPT ![n][k] = "none"]
  /\ UNCHANGED <<caches, online, pc, op, issued, faults>>

\* Redis may throw in either call of the listener, which then ends.
ExpiredEvictL2Fails(n, k) ==
  /\ expiry[n][k] = "evictL2"
  /\ faults < MaxFaults
  /\ faults' = faults + 1
  /\ expiry' = [expiry EXCEPT ![n][k] = "none"]
  /\ UNCHANGED <<caches, net, pc, op, issued, hist>>

ExpiredPublishFails(n, k) ==
  /\ expiry[n][k] = "publish"
  /\ faults < MaxFaults
  /\ faults' = faults + 1
  /\ Lose([m \in Node |-> IF m = n THEN {} ELSE {k}])
  /\ expiry' = [expiry EXCEPT ![n][k] = "none"]
  /\ UNCHANGED <<caches, net, pc, op, issued>>

(***************************************************************************)
(* The connection to the channel, and crashes.                             *)
(***************************************************************************)

\* The subscriber thread (re)subscribes; the node serves requests meanwhile.
Subscribe(n) ==
  /\ n \notin online
  /\ online' = online \cup {n}
  /\ UNCHANGED <<caches, inbox, pc, op, expiry, issued, faults, hist>>

\* The keys named by the commands a node has been sent by others.
Commands(n) == {inbox[n][i] : i \in DOMAIN inbox[n]}
Undelivered(n) == UNION {c.keys : c \in {d \in Commands(n) : d.src # n}}

Disconnect(n) ==
  /\ n \in online
  /\ faults < MaxFaults
  /\ faults' = faults + 1
  /\ online' = online \ {n}
  /\ inbox' = [inbox EXCEPT ![n] = <<>>]
  /\ Lose([m \in Node |-> IF m = n THEN Undelivered(n) ELSE {}])
  /\ UNCHANGED <<caches, pc, op, expiry, issued>>

\* The JVM stops: its level 1, its threads and their unsent commands are gone.
Crash(n) ==
  LET unsent == UNION ({Named(t) : t \in {u \in Thread : Home[u] = n /\ pc[u] = "publish"}}
                        \cup {{k \in Key : expiry[n][k] = "publish"}})
      lost   == [m \in Node |-> IF m = n THEN {} ELSE unsent]
      Keep(f, dead) == [t \in Thread |-> IF Home[t] = n THEN dead ELSE f[t]]
  IN  /\ faults < MaxFaults
      /\ faults' = faults + 1
      /\ online' = online \ {n}
      /\ inbox' = [inbox EXCEPT ![n] = <<>>]
      /\ l1' = [l1 EXCEPT ![n] = Empty]
      /\ pc' = Keep(pc, "idle")
      /\ op' = Keep(op, NoOp)
      /\ expiry' = [expiry EXCEPT ![n] = [k \in Key |-> "none"]]
      /\ raced' = Keep([t \in Thread |-> raced[t] \cup LostBy(lost)[t]], {})
      /\ stuck' = [m \in Node |-> IF m = n THEN {} ELSE stuck[m] \cup Present(m, lost[m])]
      /\ UNCHANGED <<l2, issued>>

-----------------------------------------------------------------------------
ThreadStep(t) ==
  \/ GetL2(t) \/ (\E k \in Key : Fill(t, k))
  \/ ScanL2(t) \/ WriteL2(t) \/ Publish(t)

ListenerStep(n) == \E k \in Key : ExpiredEvictL2(n, k) \/ ExpiredPublish(n, k)

Request(t) ==
  \/ \E S \in (SUBSET Key) \ {{}} : GetL1(t, S) \/ Set(t, S) \/ Evict(t, S) \/ SetRejected(t, S)
  \/ Clear(t)

Fault ==
  \/ \E t \in Thread : WriteL2Fails(t) \/ PublishFails(t)
  \/ \E n \in Node, k \in Key : ExpiredEvictL2Fails(n, k) \/ ExpiredPublishFails(n, k)
  \/ \E n \in Node : Disconnect(n) \/ Crash(n)

Next ==
  \/ \E t \in Thread : Request(t) \/ ThreadStep(t)
  \/ \E n \in Node : Receive(n) \/ Subscribe(n) \/ ListenerStep(n)
  \/ \E n \in Node, k \in Key : Expire(n, k)
  \/ Fault

\* Threads are scheduled, the subscriber thread retries for ever and the
\* listener's executor runs what it is given.  Requests and faults need not come.
Fairness ==
  /\ \A t \in Thread : WF_vars(ThreadStep(t))
  /\ \A n \in Node : WF_vars(Receive(n)) /\ WF_vars(Subscribe(n)) /\ WF_vars(ListenerStep(n))

Spec     == Init /\ [][Next]_vars
FairSpec == Spec /\ Fairness

-----------------------------------------------------------------------------
Stale(n, k) == l1[n][k] # None /\ l1[n][k] # l2[k]

\* An invalidation of k that node n has still to see.
Coming(n, k) ==
  \/ k \in Undelivered(n)
  \/ \E t \in Thread : Home[t] # n /\ pc[t] = "publish" /\ k \in Named(t)
  \/ \E m \in Node \ {n} : expiry[m][k] = "publish"

\* A set by node n itself whose value is in level 1 and not yet in level 2.
HalfWritten(n, k) ==
  \E t \in Thread : /\ Home[t] = n
                    /\ pc[t] = "writeL2"
                    /\ k \in op[t].keys
                    /\ op[t].val[k] = l1[n][k]

\* Whenever a node's level-1 entry differs from level 2, a command that drops
\* it is on its way, or the set that put it is about to reach level 2, or the
\* entry was left behind by one of the races and losses recorded in stuck: a
\* put of a value read before an invalidation, crossed writes of one node, a
\* lost command (CacheChannel.get, set, evict; RedisPubSubClusterPolicy).
StaleIsCovered ==
  \A n \in Node, k \in Key :
    Stale(n, k) => Coming(n, k) \/ HalfWritten(n, k) \/ k \in stuck[n]

\* The strengthening that is inductive.  The value a get is about to put is the
\* level-2 value, or an invalidation is coming, or the get has been raced; the
\* value a set has put in level 1 is there until something invalidates it.
FillInv ==
  \A t \in Thread : \A k \in Window(t, {"fill"}) :
    /\ op[t].val[k] # None
    /\ k \in raced[t] \/ op[t].val[k] = l2[k] \/ Coming(Home[t], k)
WriteInv ==
  \A t \in Thread : \A k \in Window(t, {"scanL2", "writeL2"}) :
    k \in raced[t] \/ l1[Home[t]][k] \in {None, op[t].val[k]}
IInv == TypeOK /\ StaleIsCovered /\ FillInv /\ WriteInv

\* A stale entry that was not left behind is dropped or overwritten in the end
\* (CacheChannel's finally-block broadcast and the subscriber's evict).
StaleGoes ==
  \A n \in Node, k \in Key : Stale(n, k) ~> (~Stale(n, k) \/ k \in stuck[n])
=============================================================================
