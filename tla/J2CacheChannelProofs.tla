-------------------------- MODULE J2CacheChannelProofs --------------------------
(***************************************************************************)
(* Proofs about J2CacheChannel, for every value of its constants.  First    *)
(* the types, action by action; then what an action does to the             *)
(* invalidations under way; then the inductive invariant IInv.              *)
(***************************************************************************)
EXTENDS J2CacheChannel, SequenceTheorems, TLAPS

\* The values a register of an idle thread holds have the types of a register.
LEMMA Constants ==
  /\ None \in Val /\ Nat \subseteq Val
  /\ Empty \in [Key -> Val]
  /\ NoOp \in Operation
BY DEF Val, Empty, NoOp, Operation

\* A bulk put or evict yields a cache.
LEMMA WriteType ==
  ASSUME NEW cache \in [Key -> Val], NEW K, NEW f \in [Key -> Val]
  PROVE  Write(cache, K, f) \in [Key -> Val]
BY DEF Write

\* The keys of a thread's operation are keys.
LEMMA WindowType ==
  ASSUME ThreadsOK, NEW t \in Thread, NEW where
  PROVE  Window(t, where) \subseteq Key
BY DEF ThreadsOK, Operation, Window

\* A command names keys of the region.
LEMMA NamedType ==
  ASSUME ThreadsOK, NEW t \in Thread
  PROVE  op[t].keys \subseteq Key /\ Named(t) \subseteq Key
BY DEF ThreadsOK, Operation, Named

\* So do the commands a node has still to handle.
LEMMA UndeliveredType ==
  ASSUME NetOK, NEW n \in Node
  PROVE  Undelivered(n) \subseteq Key
<1>1. inbox[n] \in Seq(Command)
  BY DEF NetOK
<1>2. \A i \in DOMAIN inbox[n] : inbox[n][i] \in Command
  BY <1>1
<1>3. \A c \in Commands(n) : c.keys \in SUBSET Key
  BY <1>2 DEF Commands, Command
<1> QED BY <1>3 DEF Undelivered

\* Losing commands keeps the history well typed.
LEMMA LoseType ==
  ASSUME HistoryOK, ThreadsOK, NEW K \in [Node -> SUBSET Key], Lose(K)
  PROVE  HistoryOK'
<1>1. raced' \in [Thread -> SUBSET Key]
  BY ChannelAssumption, WindowType DEF HistoryOK, Lose, Race, LostBy
<1>2. stuck' \in [Node -> SUBSET Key]
  BY DEF HistoryOK, Lose, Present
<1> QED BY <1>1, <1>2 DEF HistoryOK

\* Publishing appends a well-formed command.
LEMMA DeliverType ==
  ASSUME NetOK, NEW src \in Node, NEW K \in SUBSET Key, Deliver(src, K)
  PROVE  inbox' \in [Node -> Seq(Command)]
<1>1. [src |-> src, keys |-> K] \in Command
  BY DEF Command
<1>2. \A n \in Node : Append(inbox[n], [src |-> src, keys |-> K]) \in Seq(Command)
  BY <1>1 DEF NetOK
<1> QED BY <1>2 DEF NetOK, Deliver

\* Each action keeps every part of TypeOK.
LEMMA GetL1Type ==
  ASSUME TypeOK, NEW t \in Thread, NEW S \in SUBSET Key, GetL1(t, S)
  PROVE  TypeOK'
<1> USE ChannelAssumption, Constants DEF TypeOK, GetL1
<1>1. CachesOK' BY DEF CachesOK, caches
<1>2. NetOK' BY DEF NetOK, net, Command
<1>3. ThreadsOK' BY DEF ThreadsOK, Operation
<1>4. ProgressOK' BY DEF ProgressOK
<1>5. HistoryOK' BY DEF HistoryOK, hist
<1> QED BY <1>1, <1>2, <1>3, <1>4, <1>5

\* Begin keeps every variable well typed.
LEMMA BeginType ==
  ASSUME TypeOK, NEW t \in Thread, NEW next \in {"scanL2", "writeL2"}, NEW o \in Operation, Begin(t, next, o)
  PROVE  TypeOK'
<1> USE ChannelAssumption, Constants DEF TypeOK, Begin
<1>1. CachesOK'
  <2>1. Write(l1[Home[t]], o.keys, o.val) \in [Key -> Val]
    BY WriteType DEF CachesOK, Operation
  <2> QED BY <2>1 DEF CachesOK
<1>2. NetOK' BY DEF NetOK, net, Command
<1>3. ThreadsOK' BY DEF ThreadsOK, Operation
<1>4. ProgressOK' BY DEF ProgressOK
<1>5. HistoryOK' BY WindowType DEF HistoryOK, Others
<1> QED BY <1>1, <1>2, <1>3, <1>4, <1>5

\* Set keeps every variable well typed.
LEMMA SetType ==
  ASSUME TypeOK, NEW t \in Thread, NEW S \in SUBSET Key, Set(t, S)
  PROVE  TypeOK'
<1>1. [keys |-> S, val |-> [k \in Key |-> issued + 1], all |-> FALSE] \in Operation
  BY Constants DEF TypeOK, ProgressOK, Operation
<1> QED BY <1>1, BeginType DEF Set

\* Evict keeps every variable well typed.
LEMMA EvictType ==
  ASSUME TypeOK, NEW t \in Thread, NEW S \in SUBSET Key, Evict(t, S)
  PROVE  TypeOK'
<1>1. [keys |-> S, val |-> Empty, all |-> FALSE] \in Operation
  BY Constants DEF TypeOK, ProgressOK, Operation
<1> QED BY <1>1, BeginType DEF Evict

\* Clear keeps every variable well typed.
LEMMA ClearType ==
  ASSUME TypeOK, NEW t \in Thread, Clear(t)
  PROVE  TypeOK'
<1>1. [keys |-> Key, val |-> Empty, all |-> TRUE] \in Operation
  BY Constants DEF TypeOK, ProgressOK, Operation
<1> QED BY <1>1, BeginType DEF Clear

\* SetRejected keeps every variable well typed.
LEMMA SetRejectedType ==
  ASSUME TypeOK, NEW t \in Thread, NEW S \in SUBSET Key, SetRejected(t, S)
  PROVE  TypeOK'
<1> USE ChannelAssumption, Constants DEF TypeOK, SetRejected
<1> PICK P \in (SUBSET S) \ {S} :
       /\ l1' = [l1 EXCEPT ![Home[t]] = Write(@, P, [k \in Key |-> issued + 1])]
       /\ raced' = [u \in Thread |->
                      raced[u] \cup (IF u \in Others(t)
                                       THEN P \cap Window(u, {"scanL2", "writeL2"}) ELSE {})]
       /\ stuck' = [stuck EXCEPT ![Home[t]] = @ \cup P]
  OBVIOUS
<1>1. CachesOK'
  <2>1. [k \in Key |-> issued + 1] \in [Key -> Val]
    BY DEF ProgressOK
  <2>2. Write(l1[Home[t]], P, [k \in Key |-> issued + 1]) \in [Key -> Val]
    BY <2>1, WriteType DEF CachesOK
  <2> QED BY <2>2 DEF CachesOK
<1>2. NetOK' BY DEF NetOK, net, Command
<1>3. ThreadsOK' BY DEF ThreadsOK, Operation
<1>4. ProgressOK' BY DEF ProgressOK
<1>5. HistoryOK' BY WindowType DEF HistoryOK, Others
<1> QED BY <1>1, <1>2, <1>3, <1>4, <1>5

\* GetL2 keeps every variable well typed.
LEMMA GetL2Type ==
  ASSUME TypeOK, NEW t \in Thread, GetL2(t)
  PROVE  TypeOK'
<1> USE ChannelAssumption, Constants DEF TypeOK, GetL2
<1>1. CachesOK' BY WriteType DEF CachesOK, caches
<1>2. NetOK' BY DEF NetOK, net, Command
<1>3. ThreadsOK'
  <2>1. \A K \in SUBSET Key : [NoOp EXCEPT !.keys = K, !.val = Write(Empty, K, l2)] \in Operation
    BY WriteType DEF CachesOK, Operation
  <2>2. op[t].keys \in SUBSET Key
    BY DEF ThreadsOK, Operation
  <2>3. PICK o \in Operation : op' = [op EXCEPT ![t] = o]
    <3>1. {k \in op[t].keys : l2[k] # None} \in SUBSET Key
      BY <2>2
    <3> QED BY <2>1, <3>1
  <2>4. op' \in [Thread -> Operation]
    BY <2>3 DEF ThreadsOK
  <2>5. pc' \in [Thread -> {"idle", "readL2", "fill", "scanL2", "writeL2", "publish"}]
    BY DEF ThreadsOK
  <2>6. \A u \in Thread : pc'[u] = "idle" => op'[u] = NoOp
    BY DEF ThreadsOK
  <2> QED BY <2>4, <2>5, <2>6 DEF ThreadsOK
<1>4. ProgressOK' BY DEF ProgressOK
<1>5. HistoryOK' BY DEF HistoryOK, hist
<1> QED BY <1>1, <1>2, <1>3, <1>4, <1>5

\* Fill keeps every variable well typed.
LEMMA FillType ==
  ASSUME TypeOK, NEW t \in Thread, NEW k \in Key, Fill(t, k)
  PROVE  TypeOK'
<1> USE ChannelAssumption, Constants DEF TypeOK, Fill
<1>1. CachesOK'
  <2>1. op[t].val[k] \in Val
    BY DEF ThreadsOK, Operation
  <2> QED BY <2>1 DEF CachesOK, caches
<1>2. NetOK' BY DEF NetOK, net, Command
<1>3. ThreadsOK' BY DEF ThreadsOK, Operation
<1>4. ProgressOK' BY DEF ProgressOK
<1>5. HistoryOK' BY DEF HistoryOK, hist, Window, Others
<1> QED BY <1>1, <1>2, <1>3, <1>4, <1>5

\* ScanL2 keeps every variable well typed.
LEMMA ScanL2Type ==
  ASSUME TypeOK, NEW t \in Thread, ScanL2(t)
  PROVE  TypeOK'
<1> USE ChannelAssumption, Constants DEF TypeOK, ScanL2
<1>1. CachesOK' BY DEF CachesOK, caches
<1>2. NetOK' BY DEF NetOK, net, Command
<1>3. ThreadsOK' BY DEF ThreadsOK, Operation
<1>4. ProgressOK' BY DEF ProgressOK
<1>5. HistoryOK' BY DEF HistoryOK, hist
<1> QED BY <1>1, <1>2, <1>3, <1>4, <1>5

\* WriteL2 keeps every variable well typed.
LEMMA WriteL2Type ==
  ASSUME TypeOK, NEW t \in Thread, WriteL2(t)
  PROVE  TypeOK'
<1> USE ChannelAssumption, Constants DEF TypeOK, WriteL2
<1>1. CachesOK'
  <2>1. op[t].val \in [Key -> Val]
    BY DEF ThreadsOK, Operation
  <2>2. Write(l2, op[t].keys, op[t].val) \in [Key -> Val]
    BY <2>1, WriteType DEF CachesOK
  <2> QED BY <2>2 DEF CachesOK
<1>2. NetOK' BY DEF NetOK, net, Command
<1>3. ThreadsOK' BY DEF ThreadsOK, Operation
<1>4. ProgressOK' BY DEF ProgressOK
<1>5. HistoryOK' BY WindowType, NamedType DEF HistoryOK, Present, Others
<1> QED BY <1>1, <1>2, <1>3, <1>4, <1>5

\* WriteL2Fails keeps every variable well typed.
LEMMA WriteL2FailsType ==
  ASSUME TypeOK, NEW t \in Thread, WriteL2Fails(t)
  PROVE  TypeOK'
<1> USE ChannelAssumption, Constants DEF TypeOK, WriteL2Fails
<1>1. CachesOK' BY DEF CachesOK, caches
<1>2. NetOK' BY DEF NetOK, net, Command
<1>3. ThreadsOK' BY DEF ThreadsOK, Operation
<1>4. ProgressOK' BY DEF ProgressOK
<1>5. HistoryOK' BY NamedType DEF HistoryOK, Present
<1> QED BY <1>1, <1>2, <1>3, <1>4, <1>5

\* Publish keeps every variable well typed.
LEMMA PublishType ==
  ASSUME TypeOK, NEW t \in Thread, Publish(t)
  PROVE  TypeOK'
<1> USE ChannelAssumption, Constants DEF TypeOK, Publish
<1>1. CachesOK' BY DEF CachesOK, caches
<1>2. NetOK' BY NamedType, DeliverType DEF NetOK
<1>3. ThreadsOK' BY DEF ThreadsOK, Operation
<1>4. ProgressOK' BY DEF ProgressOK
<1>5. HistoryOK' BY NamedType, LoseType DEF MissedBy
<1> QED BY <1>1, <1>2, <1>3, <1>4, <1>5

\* PublishFails keeps every variable well typed.
LEMMA PublishFailsType ==
  ASSUME TypeOK, NEW t \in Thread, PublishFails(t)
  PROVE  TypeOK'
<1> USE ChannelAssumption, Constants DEF TypeOK, PublishFails
<1>1. CachesOK' BY DEF CachesOK, caches
<1>2. NetOK' BY DEF NetOK, net, Command, Named
<1>3. ThreadsOK' BY DEF ThreadsOK, Operation
<1>4. ProgressOK' BY DEF ProgressOK
<1>5. HistoryOK' BY NamedType, LoseType
<1> QED BY <1>1, <1>2, <1>3, <1>4, <1>5

\* Receive keeps every variable well typed.
LEMMA ReceiveType ==
  ASSUME TypeOK, NEW n \in Node, Receive(n)
  PROVE  TypeOK'
<1> USE ChannelAssumption, Constants DEF TypeOK, Receive
<1>1. CachesOK' BY WriteType DEF CachesOK, caches
<1>2. NetOK'
  <2>1. Tail(inbox[n]) \in Seq(Command)
    BY DEF NetOK
  <2> QED BY <2>1 DEF NetOK
<1>3. ThreadsOK' BY DEF ThreadsOK, Operation
<1>4. ProgressOK' BY DEF ProgressOK
<1>5. HistoryOK' BY WindowType DEF HistoryOK, Race
<1> QED BY <1>1, <1>2, <1>3, <1>4, <1>5

\* Subscribe keeps every variable well typed.
LEMMA SubscribeType ==
  ASSUME TypeOK, NEW n \in Node, Subscribe(n)
  PROVE  TypeOK'
<1> USE ChannelAssumption, Constants DEF TypeOK, Subscribe
<1>1. CachesOK' BY DEF CachesOK, caches
<1>2. NetOK' BY DEF NetOK, net, Command
<1>3. ThreadsOK' BY DEF ThreadsOK, Operation
<1>4. ProgressOK' BY DEF ProgressOK
<1>5. HistoryOK' BY DEF HistoryOK, hist
<1> QED BY <1>1, <1>2, <1>3, <1>4, <1>5

\* Expire keeps every variable well typed.
LEMMA ExpireType ==
  ASSUME TypeOK, NEW n \in Node, NEW k \in Key, Expire(n, k)
  PROVE  TypeOK'
<1> USE ChannelAssumption, Constants DEF TypeOK, Expire
<1>1. CachesOK' BY DEF CachesOK, caches
<1>2. NetOK' BY DEF NetOK, net, Command
<1>3. ThreadsOK' BY DEF ThreadsOK, Operation
<1>4. ProgressOK' BY DEF ProgressOK
<1>5. HistoryOK' BY DEF HistoryOK, hist
<1> QED BY <1>1, <1>2, <1>3, <1>4, <1>5

\* ExpiredEvictL2 keeps every variable well typed.
LEMMA ExpiredEvictL2Type ==
  ASSUME TypeOK, NEW n \in Node, NEW k \in Key, ExpiredEvictL2(n, k)
  PROVE  TypeOK'
<1> USE ChannelAssumption, Constants DEF TypeOK, ExpiredEvictL2
<1>1. CachesOK' BY DEF CachesOK, caches
<1>2. NetOK' BY DEF NetOK, net, Command
<1>3. ThreadsOK' BY DEF ThreadsOK, Operation
<1>4. ProgressOK' BY DEF ProgressOK
<1>5. HistoryOK' BY DEF HistoryOK, hist, Race, Window, Present
<1> QED BY <1>1, <1>2, <1>3, <1>4, <1>5

\* ExpiredPublish keeps every variable well typed.
LEMMA ExpiredPublishType ==
  ASSUME TypeOK, NEW n \in Node, NEW k \in Key, ExpiredPublish(n, k)
  PROVE  TypeOK'
<1> USE ChannelAssumption, Constants DEF TypeOK, ExpiredPublish
<1>1. CachesOK' BY DEF CachesOK, caches
<1>2. NetOK' BY DeliverType DEF NetOK
<1>3. ThreadsOK' BY DEF ThreadsOK, Operation
<1>4. ProgressOK' BY DEF ProgressOK
<1>5. HistoryOK' BY LoseType DEF MissedBy
<1> QED BY <1>1, <1>2, <1>3, <1>4, <1>5

\* ExpiredEvictL2Fails keeps every variable well typed.
LEMMA ExpiredEvictL2FailsType ==
  ASSUME TypeOK, NEW n \in Node, NEW k \in Key, ExpiredEvictL2Fails(n, k)
  PROVE  TypeOK'
<1> USE ChannelAssumption, Constants DEF TypeOK, ExpiredEvictL2Fails
<1>1. CachesOK' BY DEF CachesOK, caches
<1>2. NetOK' BY DEF NetOK, net, Command
<1>3. ThreadsOK' BY DEF ThreadsOK, Operation
<1>4. ProgressOK' BY DEF ProgressOK
<1>5. HistoryOK' BY DEF HistoryOK, hist
<1> QED BY <1>1, <1>2, <1>3, <1>4, <1>5

\* ExpiredPublishFails keeps every variable well typed.
LEMMA ExpiredPublishFailsType ==
  ASSUME TypeOK, NEW n \in Node, NEW k \in Key, ExpiredPublishFails(n, k)
  PROVE  TypeOK'
<1> USE ChannelAssumption, Constants DEF TypeOK, ExpiredPublishFails
<1>1. CachesOK' BY DEF CachesOK, caches
<1>2. NetOK' BY DEF NetOK, net, Command
<1>3. ThreadsOK' BY DEF ThreadsOK, Operation
<1>4. ProgressOK' BY DEF ProgressOK
<1>5. HistoryOK' BY LoseType
<1> QED BY <1>1, <1>2, <1>3, <1>4, <1>5

\* Disconnect keeps every variable well typed.
LEMMA DisconnectType ==
  ASSUME TypeOK, NEW n \in Node, Disconnect(n)
  PROVE  TypeOK'
<1> USE ChannelAssumption, Constants DEF TypeOK, Disconnect
<1>1. CachesOK' BY DEF CachesOK, caches
<1>2. NetOK'
  <2>1. <<>> \in Seq(Command)
    OBVIOUS
  <2> QED BY <2>1 DEF NetOK
<1>3. ThreadsOK' BY DEF ThreadsOK, Operation
<1>4. ProgressOK' BY DEF ProgressOK
<1>5. HistoryOK' BY UndeliveredType, LoseType
<1> QED BY <1>1, <1>2, <1>3, <1>4, <1>5

\* Crash keeps every variable well typed.
LEMMA CrashType ==
  ASSUME TypeOK, NEW n \in Node, Crash(n)
  PROVE  TypeOK'
<1> USE ChannelAssumption, Constants DEF TypeOK, Crash
<1>1. CachesOK' BY DEF CachesOK, caches
<1>2. NetOK'
  <2>1. <<>> \in Seq(Command)
    OBVIOUS
  <2> QED BY <2>1 DEF NetOK
<1>3. ThreadsOK' BY DEF ThreadsOK, Operation
<1>4. ProgressOK' BY DEF ProgressOK
<1>5. HistoryOK' BY WindowType, NamedType DEF HistoryOK, LostBy, Present
<1> QED BY <1>1, <1>2, <1>3, <1>4, <1>5

\* A published command reaches every other node that is online, and no command is lost.
LEMMA DeliverCommands ==
  ASSUME NetOK, NEW src \in Node, NEW K \in SUBSET Key, Deliver(src, K), NEW n \in Node
  PROVE  /\ Undelivered(n) \subseteq Undelivered(n)'
         /\ K \ MissedBy(src, K)[n] \subseteq Undelivered(n)' \/ n = src
<1> DEFINE cmd == [src |-> src, keys |-> K]
<1>1. cmd \in Command /\ inbox[n] \in Seq(Command)
  BY DEF NetOK, Command
<1>2. CASE n \notin online
  BY <1>2 DEF NetOK, Deliver, MissedBy, Undelivered, Commands
<1>3. CASE n \in online
  <2>1. inbox'[n] = Append(inbox[n], cmd)
    BY <1>3 DEF NetOK, Deliver
  <2>2. /\ DOMAIN inbox'[n] = DOMAIN inbox[n] \cup {Len(inbox[n]) + 1}
        /\ \A i \in DOMAIN inbox[n] : inbox'[n][i] = inbox[n][i]
        /\ inbox'[n][Len(inbox[n]) + 1] = cmd
    BY <1>1, <2>1
  <2>3. Commands(n) \subseteq Commands(n)' /\ cmd \in Commands(n)'
    BY <2>2 DEF Commands
  <2> QED BY <2>3 DEF Undelivered
<1> QED BY <1>2, <1>3

\* Handling a command removes that one only.
LEMMA TailCommands ==
  ASSUME NetOK, NEW n \in Node, inbox[n] # <<>>, inbox' = [inbox EXCEPT ![n] = Tail(@)]
  PROVE  /\ Commands(n) \subseteq Commands(n)' \cup {Head(inbox[n])}
         /\ \A u \in Node \ {n} : Undelivered(u)' = Undelivered(u)
<1>1. inbox[n] \in Seq(Command) /\ inbox'[n] = Tail(inbox[n])
  BY DEF NetOK
<1>2. ASSUME NEW i \in DOMAIN inbox[n], inbox[n][i] # Head(inbox[n])
      PROVE  inbox[n][i] \in Commands(n)'
  <2>1. i \in 2..Len(inbox[n])
    BY <1>1, <1>2
  <2>2. i - 1 \in DOMAIN inbox'[n] /\ inbox'[n][i - 1] = inbox[n][i]
    <3>1. /\ Len(Tail(inbox[n])) = Len(inbox[n]) - 1
          /\ \A j \in 1..Len(Tail(inbox[n])) : Tail(inbox[n])[j] = inbox[n][j + 1]
          /\ Tail(inbox[n]) \in Seq(Command)
      BY <1>1, HeadTailProperties
    <3>2. Len(inbox[n]) \in Nat /\ i \in Nat
      BY <1>1, <2>1
    <3>3. i - 1 \in 1..Len(Tail(inbox[n])) /\ (i - 1) + 1 = i
      BY <2>1, <3>1, <3>2
    <3>4. DOMAIN Tail(inbox[n]) = 1..Len(Tail(inbox[n]))
      BY <3>1
    <3> QED BY <3>3, <3>4, <1>1, <3>1, <3>2
  <2> QED BY <2>2 DEF Commands
<1>3. \A u \in Node \ {n} : Undelivered(u)' = Undelivered(u)
  BY DEF NetOK, Undelivered, Commands
<1> QED BY <1>2, <1>3 DEF Commands

\* What each action does to the invalidations on their way: it keeps them, adds
\* its own, and Publish, Receive and the faults account for those that go.
LEMMA GetL1Coming ==
  ASSUME TypeOK, NEW t \in Thread, NEW S \in SUBSET Key, GetL1(t, S)
  PROVE  \A n \in Node, k \in Key : Coming(n, k) => Coming(n, k)'
BY DEF TypeOK, ThreadsOK, ProgressOK, GetL1, Coming, Undelivered, Commands, Named, caches, net, hist

\* The invalidations on their way after GetL2.
LEMMA GetL2Coming ==
  ASSUME TypeOK, NEW t \in Thread, GetL2(t)
  PROVE  \A n \in Node, k \in Key : Coming(n, k) => Coming(n, k)'
BY DEF TypeOK, ThreadsOK, ProgressOK, GetL2, Coming, Undelivered, Commands, Named, caches, net, hist

\* The invalidations on their way after Fill.
LEMMA FillComing ==
  ASSUME TypeOK, NEW t \in Thread, NEW j \in Key, Fill(t, j)
  PROVE  \A n \in Node, k \in Key : Coming(n, k) => Coming(n, k)'
BY DEF TypeOK, ThreadsOK, ProgressOK, Fill, Coming, Undelivered, Commands, Named, caches, net, hist

\* The invalidations on their way after Begin.
LEMMA BeginComing ==
  ASSUME TypeOK, NEW t \in Thread, NEW next \in {"scanL2", "writeL2"}, NEW o \in Operation, Begin(t, next, o)
  PROVE  \A n \in Node, k \in Key : Coming(n, k) => Coming(n, k)'
BY DEF TypeOK, ThreadsOK, ProgressOK, Begin, Coming, Undelivered, Commands, Named, caches, net, hist

\* The invalidations on their way after SetRejected.
LEMMA SetRejectedComing ==
  ASSUME TypeOK, NEW t \in Thread, NEW S \in SUBSET Key, SetRejected(t, S)
  PROVE  \A n \in Node, k \in Key : Coming(n, k) => Coming(n, k)'
BY DEF TypeOK, ThreadsOK, ProgressOK, SetRejected, Coming, Undelivered, Commands, Named, caches, net, hist

\* The invalidations on their way after ScanL2.
LEMMA ScanL2Coming ==
  ASSUME TypeOK, NEW t \in Thread, ScanL2(t)
  PROVE  \A n \in Node, k \in Key : Coming(n, k) => Coming(n, k)'
BY DEF TypeOK, ThreadsOK, ProgressOK, ScanL2, Coming, Undelivered, Commands, Named, caches, net, hist

\* The invalidations on their way after WriteL2.
LEMMA WriteL2Coming ==
  ASSUME TypeOK, NEW t \in Thread, WriteL2(t)
  PROVE  \A n \in Node, k \in Key : Coming(n, k) \/ (n # Home[t] /\ k \in op[t].keys) => Coming(n, k)'
BY DEF TypeOK, ThreadsOK, ProgressOK, WriteL2, Coming, Undelivered, Commands, Named, caches, net, hist

\* The invalidations on their way after WriteL2Fails.
LEMMA WriteL2FailsComing ==
  ASSUME TypeOK, NEW t \in Thread, WriteL2Fails(t)
  PROVE  \A n \in Node, k \in Key : Coming(n, k) => Coming(n, k)'
BY DEF TypeOK, ThreadsOK, ProgressOK, WriteL2Fails, Coming, Undelivered, Commands, Named, caches, net, hist

\* The invalidations on their way after Publish.
LEMMA PublishComing ==
  ASSUME TypeOK, NEW t \in Thread, Publish(t)
  PROVE  \A n \in Node, k \in Key : Coming(n, k) => Coming(n, k)' \/ k \in MissedBy(Home[t], Named(t))[n]
<1> SUFFICES ASSUME NEW n \in Node, NEW k \in Key, Coming(n, k),
                    k \notin MissedBy(Home[t], Named(t))[n]
             PROVE  Coming(n, k)'
  OBVIOUS
<1>1. /\ Undelivered(n) \subseteq Undelivered(n)'
      /\ k \in Named(t) => k \in Undelivered(n)' \/ n = Home[t]
  BY ChannelAssumption, NamedType, DeliverCommands DEF TypeOK, Publish
<1>2. \A u \in Thread \ {t} : pc'[u] = pc[u] /\ op'[u] = op[u]
  BY DEF TypeOK, ThreadsOK, Publish
<1>3. expiry' = expiry
  BY DEF Publish
<1> QED BY <1>1, <1>2, <1>3 DEF Coming, Named

\* The invalidations on their way after PublishFails.
LEMMA PublishFailsComing ==
  ASSUME TypeOK, NEW t \in Thread, PublishFails(t)
  PROVE  \A n \in Node, k \in Key : Coming(n, k) => Coming(n, k)' \/ (n # Home[t] /\ k \in Named(t))
BY DEF TypeOK, ThreadsOK, ProgressOK, PublishFails, Coming, Undelivered, Commands, Named, caches, net, hist

\* The invalidations on their way after Receive.
LEMMA ReceiveComing ==
  ASSUME TypeOK, NEW m \in Node, Receive(m)
  PROVE  \A n \in Node, k \in Key : Coming(n, k) => Coming(n, k)' \/ (n = m /\ Head(inbox[m]).src # m /\ k \in Head(inbox[m]).keys)
<1>1. /\ Commands(m) \subseteq Commands(m)' \cup {Head(inbox[m])}
      /\ \A u \in Node \ {m} : Undelivered(u)' = Undelivered(u)
  BY TailCommands DEF TypeOK, Receive
<1>2. pc' = pc /\ op' = op /\ expiry' = expiry
  BY DEF Receive
<1> QED BY <1>1, <1>2 DEF Coming, Undelivered, Named

\* The invalidations on their way after Subscribe.
LEMMA SubscribeComing ==
  ASSUME TypeOK, NEW m \in Node, Subscribe(m)
  PROVE  \A n \in Node, k \in Key : Coming(n, k) => Coming(n, k)'
BY DEF TypeOK, ThreadsOK, ProgressOK, Subscribe, Coming, Undelivered, Commands, Named, caches, net, hist

\* The invalidations on their way after Expire.
LEMMA ExpireComing ==
  ASSUME TypeOK, NEW m \in Node, NEW j \in Key, Expire(m, j)
  PROVE  \A n \in Node, k \in Key : Coming(n, k) => Coming(n, k)'
BY DEF TypeOK, ThreadsOK, ProgressOK, Expire, Coming, Undelivered, Commands, Named, caches, net, hist

\* The invalidations on their way after ExpiredEvictL2.
LEMMA ExpiredEvictL2Coming ==
  ASSUME TypeOK, NEW m \in Node, NEW j \in Key, ExpiredEvictL2(m, j)
  PROVE  \A n \in Node, k \in Key : Coming(n, k) \/ (n # m /\ k = j) => Coming(n, k)'
BY DEF TypeOK, ThreadsOK, ProgressOK, ExpiredEvictL2, Coming, Undelivered, Commands, Named, caches, net, hist

\* The invalidations on their way after ExpiredPublish.
LEMMA ExpiredPublishComing ==
  ASSUME TypeOK, NEW m \in Node, NEW j \in Key, ExpiredPublish(m, j)
  PROVE  \A n \in Node, k \in Key : Coming(n, k) => Coming(n, k)' \/ k \in MissedBy(m, {j})[n]
<1> SUFFICES ASSUME NEW n \in Node, NEW k \in Key, Coming(n, k),
                    k \notin MissedBy(m, {j})[n]
             PROVE  Coming(n, k)'
  OBVIOUS
<1>1. /\ Undelivered(n) \subseteq Undelivered(n)'
      /\ k = j => k \in Undelivered(n)' \/ n = m
  BY DeliverCommands DEF TypeOK, ExpiredPublish
<1>2. pc' = pc /\ op' = op
  BY DEF ExpiredPublish
<1>3. \A u \in Node : expiry[u][k] = "publish" => expiry'[u][k] = "publish" \/ (u = m /\ k = j)
  BY DEF TypeOK, ProgressOK, ExpiredPublish
<1> QED BY <1>1, <1>2, <1>3 DEF Coming, Named

\* The invalidations on their way after ExpiredEvictL2Fails.
LEMMA ExpiredEvictL2FailsComing ==
  ASSUME TypeOK, NEW m \in Node, NEW j \in Key, ExpiredEvictL2Fails(m, j)
  PROVE  \A n \in Node, k \in Key : Coming(n, k) => Coming(n, k)'
BY DEF TypeOK, ThreadsOK, ProgressOK, ExpiredEvictL2Fails, Coming, Undelivered, Commands, Named, caches, net, hist

\* The invalidations on their way after ExpiredPublishFails.
LEMMA ExpiredPublishFailsComing ==
  ASSUME TypeOK, NEW m \in Node, NEW j \in Key, ExpiredPublishFails(m, j)
  PROVE  \A n \in Node, k \in Key : Coming(n, k) => Coming(n, k)' \/ (n # m /\ k = j)
BY DEF TypeOK, ThreadsOK, ProgressOK, ExpiredPublishFails, Coming, Undelivered, Commands, Named, caches, net, hist

\* The invalidations on their way after Disconnect.
LEMMA DisconnectComing ==
  ASSUME TypeOK, NEW m \in Node, Disconnect(m)
  PROVE  \A n \in Node, k \in Key : Coming(n, k) => Coming(n, k)' \/ (n = m /\ k \in Undelivered(m))
BY DEF TypeOK, ThreadsOK, ProgressOK, Disconnect, Coming, Undelivered, Commands, Named, caches, net, hist

\* Each action keeps the inductive invariant.
LEMMA GetL1Covers ==
  ASSUME IInv, NEW t \in Thread, NEW S \in SUBSET Key, GetL1(t, S)
  PROVE  StaleIsCovered' /\ FillInv' /\ WriteInv'
<1> USE ChannelAssumption, GetL1Coming DEF IInv, TypeOK, CachesOK, ThreadsOK, ProgressOK, HistoryOK, GetL1, caches, net, hist
<1>1. StaleIsCovered'
  BY DEF StaleIsCovered, WriteInv, FillInv, Stale, HalfWritten, Operation, Window
<1>2. FillInv'
  BY DEF FillInv, Operation, Window
<1>3. WriteInv'
  BY DEF WriteInv, Operation, Window
<1> QED BY <1>1, <1>2, <1>3

\* GetL2 keeps the inductive invariant.
LEMMA GetL2Covers ==
  ASSUME IInv, NEW t \in Thread, GetL2(t)
  PROVE  StaleIsCovered' /\ FillInv' /\ WriteInv'
<1> USE ChannelAssumption, GetL2Coming DEF IInv, TypeOK, CachesOK, ThreadsOK, ProgressOK, HistoryOK, GetL2, caches, net, hist
<1>1. StaleIsCovered'
  BY DEF StaleIsCovered, WriteInv, FillInv, Stale, HalfWritten, Operation, Window
<1>2. FillInv'
  <2> SUFFICES ASSUME NEW u \in Thread, pc'[u] = "fill", NEW k \in op'[u].keys
               PROVE  /\ op'[u].val[k] # None
                      /\ k \in raced'[u] \/ op'[u].val[k] = l2'[k] \/ Coming(Home[u], k)'
    BY DEF FillInv, Window
  <2>1. CASE u # t
    BY <2>1 DEF FillInv, Operation, Window
  <2>2. CASE u = t
    <3>1. PICK found \in SUBSET Key :
            /\ \A j \in found : l2[j] # None
            /\ op'[t] = [NoOp EXCEPT !.keys = found, !.val = Write(Empty, found, l2)]
      BY <2>2 DEF Operation
    <3>2. op'[t].keys = found /\ op'[t].val = Write(Empty, found, l2)
      BY <3>1 DEF NoOp
    <3> QED BY <2>2, <3>1, <3>2 DEF Write
  <2> QED BY <2>1, <2>2
<1>3. WriteInv'
  BY DEF WriteInv, Operation, Window
<1> QED BY <1>1, <1>2, <1>3

\* Fill keeps the inductive invariant.
LEMMA FillCovers ==
  ASSUME IInv, NEW t \in Thread, NEW j \in Key, Fill(t, j)
  PROVE  StaleIsCovered' /\ FillInv' /\ WriteInv'
<1> USE ChannelAssumption, FillComing DEF IInv, TypeOK, CachesOK, ThreadsOK, ProgressOK, HistoryOK, Fill, caches, net, hist
<1>1. StaleIsCovered'
  <2> SUFFICES ASSUME NEW n \in Node, NEW k \in Key, l1'[n][k] # None, l1'[n][k] # l2'[k]
               PROVE  Coming(n, k)' \/ HalfWritten(n, k)' \/ k \in stuck'[n]
    BY DEF StaleIsCovered, Stale
  <2>1. op[t].keys \subseteq Key /\ Home[t] \in Node /\ j \in Window(t, {"fill"})
    BY DEF Operation, Window
  <2>2. CASE n = Home[t] /\ k = j
    BY <2>1, <2>2 DEF FillInv
  <2>3. CASE ~(n = Home[t] /\ k = j)
    <3>1. l1'[n][k] = l1[n][k] /\ (k \in stuck[n] => k \in stuck'[n])
      BY <2>1, <2>3
    <3>2. HalfWritten(n, k) => HalfWritten(n, k)'
      BY <3>1 DEF HalfWritten
    <3> QED BY <3>1, <3>2 DEF StaleIsCovered, Stale
  <2> QED BY <2>2, <2>3
<1>2. FillInv'
  <2> SUFFICES ASSUME NEW u \in Thread, pc'[u] = "fill", NEW k \in op'[u].keys
               PROVE  /\ op'[u].val[k] # None
                      /\ k \in raced'[u] \/ op'[u].val[k] = l2'[k] \/ Coming(Home[u], k)'
    BY DEF FillInv, Window
  <2>1. op'[u].val = op[u].val /\ k \in op[u].keys /\ pc[u] = "fill" /\ (u = t => k # j)
    BY DEF Operation, NoOp
  <2>2. k \in Key /\ (k \in raced[u] => k \in raced'[u])
    BY <2>1 DEF Operation
  <2> QED BY <2>1, <2>2 DEF FillInv, Window
<1>3. WriteInv'
  BY DEF WriteInv, Operation, Others, Window
<1> QED BY <1>1, <1>2, <1>3

\* Begin keeps the inductive invariant.
LEMMA BeginCovers ==
  ASSUME IInv, NEW t \in Thread, NEW next \in {"scanL2", "writeL2"}, NEW o \in Operation, Begin(t, next, o),
         next = "scanL2" => o.val = Empty
  PROVE  StaleIsCovered' /\ FillInv' /\ WriteInv'
<1> USE ChannelAssumption, BeginComing DEF IInv, TypeOK, CachesOK, ThreadsOK, ProgressOK, HistoryOK, Begin, caches, net, hist
<1>1. StaleIsCovered'
  <2> SUFFICES ASSUME NEW n \in Node, NEW k \in Key, l1'[n][k] # None, l1'[n][k] # l2'[k]
               PROVE  Coming(n, k)' \/ HalfWritten(n, k)' \/ k \in stuck'[n]
    BY DEF StaleIsCovered, Stale
  <2>1. o.keys \subseteq Key /\ o.val \in [Key -> Val] /\ Home[t] \in Node
    BY DEF Operation
  <2>2. CASE n = Home[t] /\ k \in o.keys
    <3>1. l1'[n][k] = o.val[k]
      BY <2>1, <2>2 DEF Write
    <3>2. next = "writeL2"
      BY <2>1, <3>1 DEF Empty
    <3> QED BY <2>1, <2>2, <3>1, <3>2 DEF HalfWritten
  <2>3. CASE ~(n = Home[t] /\ k \in o.keys)
    <3>1. l1'[n][k] = l1[n][k] /\ (k \in stuck[n] => k \in stuck'[n])
      BY <2>1, <2>3 DEF Write
    <3>2. HalfWritten(n, k) => HalfWritten(n, k)'
      BY <3>1 DEF HalfWritten
    <3> QED BY <3>1, <3>2 DEF StaleIsCovered, Stale
  <2> QED BY <2>2, <2>3
<1>2. FillInv'
  <2> SUFFICES ASSUME NEW u \in Thread, pc'[u] = "fill", NEW k \in op'[u].keys
               PROVE  /\ op'[u].val[k] # None
                      /\ k \in raced'[u] \/ op'[u].val[k] = l2'[k] \/ Coming(Home[u], k)'
    BY DEF FillInv, Window
  <2>1. u # t
    OBVIOUS
  <2>2. op'[u] = op[u] /\ pc[u] = "fill" /\ k \in Key /\ (k \in raced[u] => k \in raced'[u])
    BY <2>1 DEF Operation
  <2> QED BY <2>2 DEF FillInv, Window
<1>3. WriteInv'
  BY DEF WriteInv, Operation, Others, Window, Write
<1> QED BY <1>1, <1>2, <1>3

\* Set keeps the inductive invariant.
LEMMA SetCovers ==
  ASSUME IInv, NEW t \in Thread, NEW S \in SUBSET Key, Set(t, S)
  PROVE  StaleIsCovered' /\ FillInv' /\ WriteInv'
<1>1. [keys |-> S, val |-> [k \in Key |-> issued + 1], all |-> FALSE] \in Operation
  BY Constants DEF IInv, TypeOK, ProgressOK, Operation
<1> QED BY <1>1, BeginCovers DEF Set

\* Evict keeps the inductive invariant.
LEMMA EvictCovers ==
  ASSUME IInv, NEW t \in Thread, NEW S \in SUBSET Key, Evict(t, S)
  PROVE  StaleIsCovered' /\ FillInv' /\ WriteInv'
<1>1. [keys |-> S, val |-> Empty, all |-> FALSE] \in Operation
  BY Constants DEF IInv, TypeOK, ProgressOK, Operation
<1> QED BY <1>1, BeginCovers DEF Evict

\* Clear keeps the inductive invariant.
LEMMA ClearCovers ==
  ASSUME IInv, NEW t \in Thread, Clear(t)
  PROVE  StaleIsCovered' /\ FillInv' /\ WriteInv'
<1>1. [keys |-> Key, val |-> Empty, all |-> TRUE] \in Operation
  BY Constants DEF IInv, TypeOK, ProgressOK, Operation
<1> QED BY <1>1, BeginCovers DEF Clear

\* SetRejected keeps the inductive invariant.
LEMMA SetRejectedCovers ==
  ASSUME IInv, NEW t \in Thread, NEW S \in SUBSET Key, SetRejected(t, S)
  PROVE  StaleIsCovered' /\ FillInv' /\ WriteInv'
<1> USE ChannelAssumption, SetRejectedComing DEF IInv, TypeOK, CachesOK, ThreadsOK, ProgressOK, HistoryOK, SetRejected, caches, net, hist
<1> PICK P \in (SUBSET S) \ {S} :
       /\ l1' = [l1 EXCEPT ![Home[t]] = Write(@, P, [k \in Key |-> issued + 1])]
       /\ raced' = [u \in Thread |->
                      raced[u] \cup (IF u \in Others(t)
                                       THEN P \cap Window(u, {"scanL2", "writeL2"}) ELSE {})]
       /\ stuck' = [stuck EXCEPT ![Home[t]] = @ \cup P]
  OBVIOUS
<1>1. StaleIsCovered'
  <2> SUFFICES ASSUME NEW n \in Node, NEW k \in Key, l1'[n][k] # None, l1'[n][k] # l2'[k]
               PROVE  Coming(n, k)' \/ HalfWritten(n, k)' \/ k \in stuck'[n]
    BY DEF StaleIsCovered, Stale
  <2>1. CASE n = Home[t] /\ k \in P
    BY <2>1
  <2>2. CASE ~(n = Home[t] /\ k \in P)
    <3>1. l1'[n][k] = l1[n][k] /\ (k \in stuck[n] => k \in stuck'[n])
      BY <2>2 DEF Write
    <3>2. HalfWritten(n, k) => HalfWritten(n, k)'
      BY <3>1 DEF HalfWritten
    <3> QED BY <3>1, <3>2 DEF StaleIsCovered, Stale
  <2> QED BY <2>1, <2>2
<1>2. FillInv'
  <2> SUFFICES ASSUME NEW u \in Thread, pc'[u] = "fill", NEW k \in op'[u].keys
               PROVE  /\ op'[u].val[k] # None
                      /\ k \in raced'[u] \/ op'[u].val[k] = l2'[k] \/ Coming(Home[u], k)'
    BY DEF FillInv, Window
  <2>1. u # t
    OBVIOUS
  <2>2. op'[u] = op[u] /\ pc[u] = "fill" /\ k \in Key /\ (k \in raced[u] => k \in raced'[u])
    BY <2>1 DEF Operation
  <2> QED BY <2>2 DEF FillInv, Window
<1>3. WriteInv'
  BY DEF WriteInv, Operation, Others, Window, Write
<1> QED BY <1>1, <1>2, <1>3

\* ScanL2 keeps the inductive invariant.
LEMMA ScanL2Covers ==
  ASSUME IInv, NEW t \in Thread, ScanL2(t)
  PROVE  StaleIsCovered' /\ FillInv' /\ WriteInv'
<1> USE ChannelAssumption, ScanL2Coming DEF IInv, TypeOK, CachesOK, ThreadsOK, ProgressOK, HistoryOK, ScanL2, caches, net, hist
<1>1. StaleIsCovered'
  BY DEF StaleIsCovered, WriteInv, FillInv, Stale, HalfWritten, Operation, Window
<1>2. FillInv'
  BY DEF FillInv, Operation, Window
<1>3. WriteInv'
  <2> SUFFICES ASSUME NEW u \in Thread, pc'[u] \in {"scanL2", "writeL2"}, NEW k \in op'[u].keys
               PROVE  k \in raced'[u] \/ l1'[Home[u]][k] \in {None, op'[u].val[k]}
    BY DEF WriteInv, Window
  <2>1. CASE u # t
    BY <2>1 DEF WriteInv, Operation, Window
  <2>2. CASE u = t
    <3>1. /\ op'[t].keys = {j \in op[t].keys : l2[j] # None}
          /\ op'[t].val = op[t].val
      BY DEF Operation
    <3>2. k \in op[t].keys /\ k \in Key
      BY <2>2, <3>1 DEF Operation
    <3>3. k \in raced[t] => k \in raced'[t]
      BY <2>2, <3>1, <3>2
    <3> QED BY <2>2, <3>1, <3>2, <3>3 DEF WriteInv, Window
  <2> QED BY <2>1, <2>2
<1> QED BY <1>1, <1>2, <1>3

\* WriteL2 keeps the inductive invariant.
LEMMA WriteL2Covers ==
  ASSUME IInv, NEW t \in Thread, WriteL2(t)
  PROVE  StaleIsCovered' /\ FillInv' /\ WriteInv'
<1> USE ChannelAssumption, WriteL2Coming DEF IInv, TypeOK, CachesOK, ThreadsOK, ProgressOK, HistoryOK, WriteL2, caches, net, hist
<1>1. StaleIsCovered'
  BY DEF StaleIsCovered, WriteInv, FillInv, Stale, HalfWritten, Operation, Others, Window, Write, Present
<1>2. FillInv'
  BY DEF FillInv, Operation, Others, Window, Write, Present
<1>3. WriteInv'
  BY DEF WriteInv, Operation, Others, Window, Write, Present
<1> QED BY <1>1, <1>2, <1>3

\* WriteL2Fails keeps the inductive invariant.
LEMMA WriteL2FailsCovers ==
  ASSUME IInv, NEW t \in Thread, WriteL2Fails(t)
  PROVE  StaleIsCovered' /\ FillInv' /\ WriteInv'
<1> USE ChannelAssumption, WriteL2FailsComing DEF IInv, TypeOK, CachesOK, ThreadsOK, ProgressOK, HistoryOK, WriteL2Fails, caches, net, hist
<1>1. StaleIsCovered'
  BY DEF StaleIsCovered, WriteInv, FillInv, Stale, HalfWritten, Operation, Window, Present
<1>2. FillInv'
  BY DEF FillInv, Operation, Window, Present
<1>3. WriteInv'
  BY DEF WriteInv, Operation, Window, Present
<1> QED BY <1>1, <1>2, <1>3

\* Publish keeps the inductive invariant.
LEMMA PublishCovers ==
  ASSUME IInv, NEW t \in Thread, Publish(t)
  PROVE  StaleIsCovered' /\ FillInv' /\ WriteInv'
<1> USE ChannelAssumption, PublishComing DEF IInv, TypeOK, CachesOK, ThreadsOK, ProgressOK, HistoryOK, Publish, caches, net, hist
<1>1. StaleIsCovered'
  BY DEF StaleIsCovered, WriteInv, FillInv, Stale, HalfWritten, Operation, Lose, Race, LostBy, Window, Present
<1>2. FillInv'
  BY DEF FillInv, Operation, Lose, Race, LostBy, Window, Present
<1>3. WriteInv'
  BY DEF WriteInv, Operation, Lose, Race, LostBy, Window, Present
<1> QED BY <1>1, <1>2, <1>3

\* PublishFails keeps the inductive invariant.
LEMMA PublishFailsCovers ==
  ASSUME IInv, NEW t \in Thread, PublishFails(t)
  PROVE  StaleIsCovered' /\ FillInv' /\ WriteInv'
<1> USE ChannelAssumption, PublishFailsComing DEF IInv, TypeOK, CachesOK, ThreadsOK, ProgressOK, HistoryOK, PublishFails, caches, net, hist
<1>1. StaleIsCovered'
  BY DEF StaleIsCovered, WriteInv, FillInv, Stale, HalfWritten, Operation, Lose, Race, LostBy, Window, Present
<1>2. FillInv'
  BY DEF FillInv, Operation, Lose, Race, LostBy, Window, Present
<1>3. WriteInv'
  BY DEF WriteInv, Operation, Lose, Race, LostBy, Window, Present
<1> QED BY <1>1, <1>2, <1>3

\* Receive keeps the inductive invariant.
LEMMA ReceiveCovers ==
  ASSUME IInv, NEW m \in Node, Receive(m)
  PROVE  StaleIsCovered' /\ FillInv' /\ WriteInv'
<1> USE ChannelAssumption, ReceiveComing DEF IInv, TypeOK, CachesOK, ThreadsOK, ProgressOK, HistoryOK, Receive, caches, net, hist
<1>1. StaleIsCovered'
  <2> DEFINE K == IF Head(inbox[m]).src = m THEN {} ELSE Head(inbox[m]).keys
  <2>1. /\ l1' = [l1 EXCEPT ![m] = Write(@, K, Empty)]
        /\ stuck' = [stuck EXCEPT ![m] = @ \ K]
        /\ raced' = [u \in Thread |-> raced[u] \cup
                       (IF Home[u] = m THEN K \cap Window(u, {"fill"}) ELSE {})]
    BY DEF Race
  <2>2. \A n \in Node, k \in Key : Coming(n, k) => Coming(n, k)' \/ (n = m /\ k \in K)
    OBVIOUS
  <2> HIDE DEF K
  <2> SUFFICES ASSUME NEW n \in Node, NEW k \in Key, l1'[n][k] # None, l1'[n][k] # l2'[k]
               PROVE  Coming(n, k)' \/ HalfWritten(n, k)' \/ k \in stuck'[n]
    BY DEF StaleIsCovered, Stale
  <2>3. ~(n = m /\ k \in K) /\ l1'[n][k] = l1[n][k]
    BY <2>1 DEF Write, Empty
  <2>4. k \in stuck[n] => k \in stuck'[n]
    BY <2>1, <2>3
  <2> QED BY <2>2, <2>3, <2>4 DEF StaleIsCovered, Stale, HalfWritten
<1>2. FillInv'
  <2> DEFINE K == IF Head(inbox[m]).src = m THEN {} ELSE Head(inbox[m]).keys
  <2>1. /\ l1' = [l1 EXCEPT ![m] = Write(@, K, Empty)]
        /\ stuck' = [stuck EXCEPT ![m] = @ \ K]
        /\ raced' = [u \in Thread |-> raced[u] \cup
                       (IF Home[u] = m THEN K \cap Window(u, {"fill"}) ELSE {})]
    BY DEF Race
  <2>2. \A n \in Node, k \in Key : Coming(n, k) => Coming(n, k)' \/ (n = m /\ k \in K)
    OBVIOUS
  <2> HIDE DEF K
  <2> SUFFICES ASSUME NEW u \in Thread, pc'[u] = "fill", NEW k \in op'[u].keys
               PROVE  /\ op'[u].val[k] # None
                      /\ k \in raced'[u] \/ op'[u].val[k] = l2'[k] \/ Coming(Home[u], k)'
    BY DEF FillInv, Window
  <2>3. op' = op /\ pc' = pc /\ k \in Key /\ k \in Window(u, {"fill"}) /\ Home[u] \in Node
    BY DEF Operation, Window
  <2>4. k \in raced[u] \/ (Home[u] = m /\ k \in K) => k \in raced'[u]
    BY <2>1, <2>3
  <2> QED BY <2>2, <2>3, <2>4 DEF FillInv
<1>3. WriteInv'
  <2> DEFINE K == IF Head(inbox[m]).src = m THEN {} ELSE Head(inbox[m]).keys
  <2>1. /\ l1' = [l1 EXCEPT ![m] = Write(@, K, Empty)]
        /\ stuck' = [stuck EXCEPT ![m] = @ \ K]
        /\ raced' = [u \in Thread |-> raced[u] \cup
                       (IF Home[u] = m THEN K \cap Window(u, {"fill"}) ELSE {})]
    BY DEF Race
  <2>2. \A n \in Node, k \in Key : Coming(n, k) => Coming(n, k)' \/ (n = m /\ k \in K)
    OBVIOUS
  <2> HIDE DEF K
  <2> SUFFICES ASSUME NEW u \in Thread, pc'[u] \in {"scanL2", "writeL2"}, NEW k \in op'[u].keys
               PROVE  k \in raced'[u] \/ l1'[Home[u]][k] \in {None, op'[u].val[k]}
    BY DEF WriteInv, Window
  <2>3. op' = op /\ pc' = pc /\ k \in Key /\ Home[u] \in Node
    BY DEF Operation
  <2>4. l1'[Home[u]][k] \in {l1[Home[u]][k], None}
    BY <2>1, <2>3 DEF Write, Empty
  <2>5. k \in raced[u] => k \in raced'[u]
    BY <2>1
  <2> QED BY <2>3, <2>4, <2>5 DEF WriteInv, Window
<1> QED BY <1>1, <1>2, <1>3

\* Subscribe keeps the inductive invariant.
LEMMA SubscribeCovers ==
  ASSUME IInv, NEW m \in Node, Subscribe(m)
  PROVE  StaleIsCovered' /\ FillInv' /\ WriteInv'
<1> USE ChannelAssumption, SubscribeComing DEF IInv, TypeOK, CachesOK, ThreadsOK, ProgressOK, HistoryOK, Subscribe, caches, net, hist
<1>1. StaleIsCovered'
  BY DEF StaleIsCovered, WriteInv, FillInv, Stale, HalfWritten, Operation, Window
<1>2. FillInv'
  BY DEF FillInv, Operation, Window
<1>3. WriteInv'
  BY DEF WriteInv, Operation, Window
<1> QED BY <1>1, <1>2, <1>3

\* Expire keeps the inductive invariant.
LEMMA ExpireCovers ==
  ASSUME IInv, NEW m \in Node, NEW j \in Key, Expire(m, j)
  PROVE  StaleIsCovered' /\ FillInv' /\ WriteInv'
<1> USE ChannelAssumption, ExpireComing DEF IInv, TypeOK, CachesOK, ThreadsOK, ProgressOK, HistoryOK, Expire, caches, net, hist
<1>1. StaleIsCovered'
  BY DEF StaleIsCovered, WriteInv, FillInv, Stale, HalfWritten, Operation, Window
<1>2. FillInv'
  BY DEF FillInv, Operation, Window
<1>3. WriteInv'
  BY DEF WriteInv, Operation, Window
<1> QED BY <1>1, <1>2, <1>3

\* ExpiredEvictL2 keeps the inductive invariant.
LEMMA ExpiredEvictL2Covers ==
  ASSUME IInv, NEW m \in Node, NEW j \in Key, ExpiredEvictL2(m, j)
  PROVE  StaleIsCovered' /\ FillInv' /\ WriteInv'
<1> USE ChannelAssumption, ExpiredEvictL2Coming DEF IInv, TypeOK, CachesOK, ThreadsOK, ProgressOK, HistoryOK, ExpiredEvictL2, caches, net, hist
<1>1. StaleIsCovered'
  <2> SUFFICES ASSUME NEW n \in Node, NEW k \in Key, l1'[n][k] # None, l1'[n][k] # l2'[k]
               PROVE  Coming(n, k)' \/ HalfWritten(n, k)' \/ k \in stuck'[n]
    BY DEF StaleIsCovered, Stale
  <2>1. k \in stuck[n] => k \in stuck'[n]
    OBVIOUS
  <2>2. CASE k # j
    <3>1. l1' = l1 /\ l2'[k] = l2[k] /\ pc' = pc /\ op' = op
      BY <2>2
    <3>2. HalfWritten(n, k) => HalfWritten(n, k)'
      BY <3>1 DEF HalfWritten
    <3> QED BY <2>1, <3>1, <3>2 DEF StaleIsCovered, Stale
  <2>3. CASE k = j /\ n # m
    BY <2>3
  <2>4. CASE k = j /\ n = m
    BY <2>4 DEF Present
  <2> QED BY <2>2, <2>3, <2>4
<1>2. FillInv'
  <2> SUFFICES ASSUME NEW u \in Thread, pc'[u] = "fill", NEW k \in op'[u].keys
               PROVE  /\ op'[u].val[k] # None
                      /\ k \in raced'[u] \/ op'[u].val[k] = l2'[k] \/ Coming(Home[u], k)'
    BY DEF FillInv, Window
  <2>1. op' = op /\ pc' = pc /\ k \in Key /\ k \in Window(u, {"fill"}) /\ Home[u] \in Node
    BY DEF Operation, Window
  <2>2. k \in raced[u] \/ (Home[u] = m /\ k = j) => k \in raced'[u]
    BY <2>1 DEF Race
  <2>3. /\ op[u].val[k] # None
        /\ k \in raced[u] \/ op[u].val[k] = l2[k] \/ Coming(Home[u], k)
    BY <2>1 DEF FillInv
  <2>4. CASE k # j
    <3>1. l2'[k] = l2[k]
      BY <2>4
    <3> QED BY <2>1, <2>2, <2>3, <3>1
  <2>5. CASE k = j
    BY <2>1, <2>2, <2>3, <2>5
  <2> QED BY <2>4, <2>5
<1>3. WriteInv'
  BY DEF WriteInv, Operation, Race, Window, Present
<1> QED BY <1>1, <1>2, <1>3

\* ExpiredPublish keeps the inductive invariant.
LEMMA ExpiredPublishCovers ==
  ASSUME IInv, NEW m \in Node, NEW j \in Key, ExpiredPublish(m, j)
  PROVE  StaleIsCovered' /\ FillInv' /\ WriteInv'
<1> USE ChannelAssumption, ExpiredPublishComing DEF IInv, TypeOK, CachesOK, ThreadsOK, ProgressOK, HistoryOK, ExpiredPublish, caches, net, hist
<1>1. StaleIsCovered'
  BY DEF StaleIsCovered, WriteInv, FillInv, Stale, HalfWritten, Operation, Lose, Race, LostBy, Window, Present
<1>2. FillInv'
  BY DEF FillInv, Operation, Lose, Race, LostBy, Window, Present
<1>3. WriteInv'
  BY DEF WriteInv, Operation, Lose, Race, LostBy, Window, Present
<1> QED BY <1>1, <1>2, <1>3

\* ExpiredEvictL2Fails keeps the inductive invariant.
LEMMA ExpiredEvictL2FailsCovers ==
  ASSUME IInv, NEW m \in Node, NEW j \in Key, ExpiredEvictL2Fails(m, j)
  PROVE  StaleIsCovered' /\ FillInv' /\ WriteInv'
<1> USE ChannelAssumption, ExpiredEvictL2FailsComing DEF IInv, TypeOK, CachesOK, ThreadsOK, ProgressOK, HistoryOK, ExpiredEvictL2Fails, caches, net, hist
<1>1. StaleIsCovered'
  BY DEF StaleIsCovered, Stale, HalfWritten
<1>2. FillInv'
  BY DEF FillInv, Operation, Window
<1>3. WriteInv'
  BY DEF WriteInv, Operation, Window
<1> QED BY <1>1, <1>2, <1>3

\* ExpiredPublishFails keeps the inductive invariant.
LEMMA ExpiredPublishFailsCovers ==
  ASSUME IInv, NEW m \in Node, NEW j \in Key, ExpiredPublishFails(m, j)
  PROVE  StaleIsCovered' /\ FillInv' /\ WriteInv'
<1>1. \A n \in Node, k \in Key : Coming(n, k) => Coming(n, k)' \/ (n # m /\ k = j)
  BY ExpiredPublishFailsComing DEF IInv
<1>2. l1' = l1 /\ l2' = l2 /\ pc' = pc /\ op' = op
  BY DEF ExpiredPublishFails, caches
<1>3. \A n \in Node, k \in Key : k \in stuck[n] \/ (n # m /\ k = j /\ l1[n][k] # None) => k \in stuck'[n]
  BY DEF ExpiredPublishFails, Lose, Present
<1>4. \A u \in Thread, k \in Key :
        k \in raced[u] \/ (Home[u] # m /\ k = j /\ k \in Window(u, {"fill"})) => k \in raced'[u]
  BY ChannelAssumption DEF ExpiredPublishFails, Lose, Race, LostBy
<1>5. StaleIsCovered'
  BY <1>1, <1>2, <1>3 DEF IInv, StaleIsCovered, Stale, HalfWritten
<1>6. FillInv'
  <2> SUFFICES ASSUME NEW u \in Thread, NEW k \in Window(u, {"fill"})
               PROVE  /\ op[u].val[k] # None
                      /\ k \in raced'[u] \/ op[u].val[k] = l2[k] \/ Coming(Home[u], k)'
    BY <1>2 DEF FillInv, Window
  <2>1. k \in Key /\ Home[u] \in Node
    BY ChannelAssumption DEF IInv, TypeOK, ThreadsOK, Operation, Window
  <2> QED BY <1>1, <1>4, <2>1 DEF IInv, FillInv
<1>7. WriteInv'
  <2> SUFFICES ASSUME NEW u \in Thread, NEW k \in Window(u, {"scanL2", "writeL2"})
               PROVE  k \in raced'[u] \/ l1[Home[u]][k] \in {None, op[u].val[k]}
    BY <1>2 DEF WriteInv, Window
  <2>1. k \in Key
    BY DEF IInv, TypeOK, ThreadsOK, Operation, Window
  <2> QED BY <1>4, <2>1 DEF IInv, WriteInv
<1> QED BY <1>5, <1>6, <1>7

\* Disconnect keeps the inductive invariant.
LEMMA DisconnectCovers ==
  ASSUME IInv, NEW m \in Node, Disconnect(m)
  PROVE  StaleIsCovered' /\ FillInv' /\ WriteInv'
<1> USE ChannelAssumption, DisconnectComing DEF IInv, TypeOK, CachesOK, ThreadsOK, ProgressOK, HistoryOK, Disconnect, caches, net, hist
<1>1. StaleIsCovered'
  BY DEF StaleIsCovered, WriteInv, FillInv, Stale, HalfWritten, Operation, Lose, Race, LostBy, Window, Present
<1>2. FillInv'
  BY DEF FillInv, Operation, Lose, Race, LostBy, Window, Present
<1>3. WriteInv'
  BY DEF WriteInv, Operation, Lose, Race, LostBy, Window, Present
<1> QED BY <1>1, <1>2, <1>3

\* Crash keeps the inductive invariant.
LEMMA CrashCovers ==
  ASSUME IInv, NEW m \in Node, Crash(m)
  PROVE  StaleIsCovered' /\ FillInv' /\ WriteInv'
<1> USE ChannelAssumption DEF IInv, TypeOK, CachesOK, ThreadsOK, ProgressOK, HistoryOK
<1> DEFINE unsent == UNION ({Named(t) : t \in {u \in Thread : Home[u] = m /\ pc[u] = "publish"}}
                            \cup {{k \in Key : expiry[m][k] = "publish"}})
           lost == [n \in Node |-> IF n = m THEN {} ELSE unsent]
<1>1. /\ l1' = [l1 EXCEPT ![m] = Empty] /\ l2' = l2
      /\ inbox' = [inbox EXCEPT ![m] = <<>>]
      /\ pc' = [t \in Thread |-> IF Home[t] = m THEN "idle" ELSE pc[t]]
      /\ op' = [t \in Thread |-> IF Home[t] = m THEN NoOp ELSE op[t]]
      /\ expiry' = [expiry EXCEPT ![m] = [k \in Key |-> "none"]]
      /\ raced' = [t \in Thread |-> IF Home[t] = m THEN {} ELSE raced[t] \cup LostBy(lost)[t]]
      /\ stuck' = [n \in Node |-> IF n = m THEN {} ELSE stuck[n] \cup Present(n, lost[n])]
  BY DEF Crash
<1>2. \A n \in Node, k \in Key : Coming(n, k) => Coming(n, k)' \/ n = m \/ k \in lost[n]
  <2> SUFFICES ASSUME NEW n \in Node, NEW k \in Key, Coming(n, k), n # m
               PROVE  Coming(n, k)' \/ k \in unsent
    OBVIOUS
  <2>1. Undelivered(n)' = Undelivered(n)
    BY <1>1 DEF NetOK, Undelivered, Commands
  <2>2. \A t \in Thread : Home[t] # m => pc'[t] = pc[t] /\ op'[t] = op[t]
    BY <1>1
  <2>3. \A u \in Node : u # m => expiry'[u] = expiry[u]
    BY <1>1
  <2>4. \A t \in Thread : Home[t] = m /\ pc[t] = "publish" => Named(t) \subseteq unsent
    OBVIOUS
  <2>5. expiry[m][k] = "publish" => k \in unsent
    <3> DEFINE mine == {j \in Key : expiry[m][j] = "publish"}
    <3>1. mine \subseteq unsent
      OBVIOUS
    <3>2. expiry[m][k] = "publish" => k \in mine
      OBVIOUS
    <3> HIDE DEF mine, unsent
    <3> QED BY <3>1, <3>2
  <2> HIDE DEF unsent
  <2> QED BY <2>1, <2>2, <2>3, <2>4, <2>5 DEF Coming, Named
<1> HIDE DEF unsent, lost
<1>3. StaleIsCovered'
  <2> SUFFICES ASSUME NEW n \in Node, NEW k \in Key, l1'[n][k] # None, l1'[n][k] # l2'[k]
               PROVE  Coming(n, k)' \/ HalfWritten(n, k)' \/ k \in stuck'[n]
    BY DEF StaleIsCovered, Stale
  <2>1. n # m /\ l1'[n][k] = l1[n][k] /\ (k \in stuck[n] \cup lost[n] => k \in stuck'[n])
    BY <1>1 DEF Empty, Present
  <2>2. HalfWritten(n, k) => HalfWritten(n, k)'
    BY <1>1, <2>1 DEF HalfWritten
  <2> QED BY <1>1, <1>2, <2>1, <2>2 DEF StaleIsCovered, Stale
<1>4. FillInv'
  <2> SUFFICES ASSUME NEW u \in Thread, pc'[u] = "fill", NEW k \in op'[u].keys
               PROVE  /\ op'[u].val[k] # None
                      /\ k \in raced'[u] \/ op'[u].val[k] = l2'[k] \/ Coming(Home[u], k)'
    BY DEF FillInv, Window
  <2>1. Home[u] # m /\ op'[u] = op[u] /\ pc[u] = "fill" /\ k \in Key /\ Home[u] \in Node
    BY <1>1 DEF Operation
  <2>2. k \in raced[u] \cup lost[Home[u]] => k \in raced'[u]
    BY <1>1, <2>1 DEF LostBy, Window
  <2> QED BY <1>1, <1>2, <2>1, <2>2 DEF FillInv, Window
<1>5. WriteInv'
  <2> SUFFICES ASSUME NEW u \in Thread, pc'[u] \in {"scanL2", "writeL2"}, NEW k \in op'[u].keys
               PROVE  k \in raced'[u] \/ l1'[Home[u]][k] \in {None, op'[u].val[k]}
    BY DEF WriteInv, Window
  <2>1. /\ Home[u] # m /\ op'[u] = op[u] /\ pc'[u] = pc[u] /\ k \in Key /\ Home[u] \in Node
        /\ l1'[Home[u]] = l1[Home[u]]
    BY <1>1 DEF Operation
  <2>2. k \in raced[u] => k \in raced'[u]
    BY <1>1, <2>1
  <2> QED BY <2>1, <2>2 DEF WriteInv, Window
<1> QED BY <1>3, <1>4, <1>5

\* Every operation, message, failure and restart keeps the caches, the channel
\* and the threads well typed (CacheChannel, RedisPubSubClusterPolicy).
THEOREM TypeCorrect == Spec => []TypeOK
<1>1. Init => TypeOK
  BY ChannelAssumption, Constants
  DEF Init, TypeOK, CachesOK, NetOK, ThreadsOK, ProgressOK, HistoryOK
<1>2. TypeOK /\ [Next]_vars => TypeOK'
  <2> SUFFICES ASSUME TypeOK, [Next]_vars PROVE TypeOK'
    OBVIOUS
  <2>1. ASSUME NEW t \in Thread, Request(t) PROVE TypeOK'
    BY <2>1, GetL1Type, SetType, EvictType, ClearType, SetRejectedType DEF Request
  <2>2. ASSUME NEW t \in Thread, ThreadStep(t) PROVE TypeOK'
    BY <2>2, GetL2Type, FillType, ScanL2Type, WriteL2Type, PublishType DEF ThreadStep
  <2>3. ASSUME NEW n \in Node, Receive(n) \/ Subscribe(n) \/ ListenerStep(n) PROVE TypeOK'
    BY <2>3, ReceiveType, SubscribeType, ExpiredEvictL2Type, ExpiredPublishType DEF ListenerStep
  <2>4. CASE Fault
    BY <2>4, WriteL2FailsType, PublishFailsType, ExpiredEvictL2FailsType, ExpiredPublishFailsType, DisconnectType, CrashType DEF Fault
  <2>5. CASE UNCHANGED vars
    BY <2>5 DEF vars, TypeOK, CachesOK, NetOK, ThreadsOK, ProgressOK, HistoryOK
  <2> QED BY <2>1, <2>2, <2>3, <2>4, <2>5, ExpireType DEF Next
<1> QED BY <1>1, <1>2, PTL DEF Spec

\* For every cluster, number of threads, key set and number of faults: a level-1
\* entry that differs from level 2 is about to be dropped or overwritten, or is
\* one of those the races and losses left behind (CacheChannel.get/set/evict).
THEOREM StalenessCovered == Spec => []StaleIsCovered
<1>1. Init => IInv
  <2>1. Init => TypeOK
    BY ChannelAssumption, Constants
    DEF Init, TypeOK, CachesOK, NetOK, ThreadsOK, ProgressOK, HistoryOK
  <2> QED BY <2>1, ChannelAssumption
    DEF Init, IInv, StaleIsCovered, FillInv, WriteInv, Stale, Window, Empty
<1>2. IInv /\ [Next]_vars => StaleIsCovered' /\ FillInv' /\ WriteInv'
  <2> DEFINE Goal == StaleIsCovered' /\ FillInv' /\ WriteInv'
  <2> SUFFICES ASSUME IInv, [Next]_vars PROVE Goal
    OBVIOUS
  <2>1. ASSUME NEW t \in Thread, Request(t) PROVE Goal
    BY <2>1, GetL1Covers, SetCovers, EvictCovers, ClearCovers, SetRejectedCovers DEF Request
  <2>2. ASSUME NEW t \in Thread, ThreadStep(t) PROVE Goal
    BY <2>2, GetL2Covers, FillCovers, ScanL2Covers, WriteL2Covers, PublishCovers DEF ThreadStep
  <2>3. ASSUME NEW n \in Node, Receive(n) \/ Subscribe(n) \/ ListenerStep(n) PROVE Goal
    BY <2>3, ReceiveCovers, SubscribeCovers, ExpiredEvictL2Covers, ExpiredPublishCovers
    DEF ListenerStep
  <2>4. CASE Fault
    BY <2>4, WriteL2FailsCovers, PublishFailsCovers, ExpiredEvictL2FailsCovers, ExpiredPublishFailsCovers, DisconnectCovers, CrashCovers DEF Fault
  <2>5. CASE UNCHANGED vars
    BY <2>5 DEF IInv, vars, StaleIsCovered, FillInv, WriteInv, Stale, HalfWritten, Coming,
                Undelivered, Commands, Named, Window
  <2>6. ASSUME NEW n \in Node, NEW k \in Key, Expire(n, k) PROVE Goal
    BY <2>6, ExpireCovers
  <2> HIDE DEF Goal
  <2> QED BY <2>1, <2>2, <2>3, <2>4, <2>5, <2>6 DEF Next
<1>3. IInv => StaleIsCovered
  BY DEF IInv
<1> QED BY <1>1, <1>2, <1>3, TypeCorrect, PTL DEF Spec, IInv

\* Nobody is inside a call, and every command has been sent and handled.
Quiet ==
  /\ \A t \in Thread : pc[t] = "idle"
  /\ \A n \in Node : inbox[n] = <<>> /\ \A k \in Key : expiry[n][k] # "publish"

\* On a quiet cluster the level-1 entries of all nodes are the values of level 2,
\* except those that one of the named causes has left behind: what the safety of
\* the broadcast comes to (the safety half of StaleGoes).
THEOREM QuietIsFresh ==
  Spec => [](Quiet => \A n \in Node, k \in Key :
                        l1[n][k] \in {None, l2[k]} \/ k \in stuck[n])
<1>1. TypeOK /\ StaleIsCovered /\ Quiet =>
        \A n \in Node, k \in Key : l1[n][k] \in {None, l2[k]} \/ k \in stuck[n]
  <2>1. SUFFICES ASSUME TypeOK, StaleIsCovered, Quiet, NEW n \in Node, NEW k \in Key,
                        l1[n][k] \notin {None, l2[k]}
                 PROVE  k \in stuck[n]
    OBVIOUS
  <2>2. Coming(n, k) \/ HalfWritten(n, k) \/ k \in stuck[n]
    BY <2>1 DEF StaleIsCovered, Stale
  <2>3. Undelivered(n) = {}
    BY <2>1 DEF Quiet, Undelivered, Commands
  <2>4. ~Coming(n, k)
    BY <2>1, <2>3 DEF Quiet, Coming
  <2>5. ~HalfWritten(n, k)
    BY <2>1 DEF Quiet, HalfWritten
  <2>6. QED
    BY <2>2, <2>4, <2>5
<1>2. QED
  BY <1>1, TypeCorrect, StalenessCovered, PTL
=================================================================================
