------------------------------ MODULE LayIMChat ------------------------------
(***************************************************************************)
(* LayIMSocketHandler: the chat over web sockets, with messages kept in    *)
(* the table of ChatHistory until their receiver connects.                 *)
(*                                                                         *)
(* Each connection runs its callbacks one after the other, in a thread of  *)
(* its own; the static ArrayList users is shared without a lock.  A walk   *)
(* over the list is one step.  While another connection is being added or  *)
(* removed, the walk may end in a ConcurrentModificationException, and an  *)
(* addition or removal may be lost.  An exception makes Spring close the   *)
(* connection.  A private message has one receiver; one to a group has the *)
(* owner and the members of the group, the sender among them.              *)
(***************************************************************************)
EXTENDS Naturals, Sequences

CONSTANTS
  User, Conn,
  Who,        (* connection -> login name of its handshake                 *)
  Msg,
  Sender,     (* message -> user                                           *)
  To,         (* message -> sequence of its receivers                      *)
  NoMsg       (* "no message"                                              *)

ASSUME ChatAssumption ==
  /\ Who \in [Conn -> User] /\ Sender \in [Msg -> User]
  /\ To \in [Msg -> Seq(User)]

VARIABLES
  users,      (* connections in the list                                   *)
  step,       (* connection -> where its thread is                         *)
  shut,       (* connections whose socket is closed                        *)
  inbox,      (* connection -> unread messages findList gave it            *)
  cur,        (* connection -> message it sends or replays                 *)
  pos,        (* connection -> receiver in To[cur] it has come to          *)
  result,     (* connection -> isSuccess                                   *)
  status,     (* message -> receiver -> its row: "none", "0", "1" (read)   *)
  handled,    (* messages a client has sent                                *)
  deleted,    (* users that were deleted                                   *)
  seen,       (* history: <<message, user>> written to an open socket      *)
  replayed    (* history: <<message, user>> marked read by a replay        *)

chatVars == <<users, step, shut, inbox, cur, pos, result, status, handled,
          deleted, seen, replayed>>

Steps == {"off", "add", "list", "replay", "mark", "ready", "send", "save",
          "remove", "gone"}

ChatInit ==
  /\ users = {} /\ shut = {}
  /\ step = [c \in Conn |-> "off"]
  /\ inbox = [c \in Conn |-> {}]
  /\ cur = [c \in Conn |-> NoMsg]
  /\ pos = [c \in Conn |-> 1]
  /\ result = [c \in Conn |-> FALSE]
  /\ status = [m \in Msg |-> [u \in User |-> "none"]]
  /\ handled = {} /\ deleted = {}
  /\ seen = {} /\ replayed = {}

Goto(c, s) == step' = [step EXCEPT ![c] = s]

(* Another thread may be inside users.add or users.remove. *)
Race(c) == \E d \in Conn \ {c} : step[d] \in {"add", "remove"}
Receiver(c) == To[cur[c]][pos[c]]
Unread(u) == {m \in Msg : status[m][u] = "0"}

(* sendMessageToUser(u, m), its result being given *)
Sent(u) == \E d \in users \ shut : Who[d] = u
DeliverNever(m, u) == UNCHANGED seen
Deliver(m, u) ==
  seen' = IF Sent(u) THEN seen \cup {<<m, u>>} ELSE seen

Connect(c) ==
  /\ step[c] = "off" /\ Who[c] \notin deleted
  /\ Goto(c, "add")
  /\ UNCHANGED <<users, shut, inbox, cur, pos, result, status, handled,
                 deleted, seen, replayed>>

(* users.add(session) *)
Add(c) ==
  /\ step[c] = "add"
  /\ users' \in {users \cup {c}} \cup IF Race(c) THEN {users} ELSE {}
  /\ Goto(c, "list")
  /\ UNCHANGED <<shut, inbox, cur, pos, result, status, handled, deleted,
                 seen, replayed>>

(* updateOnlineStatus(), then findList of the unread messages *)
ListAgain(c) ==
  /\ step[c] = "list"
  /\ inbox' = [inbox EXCEPT ![c] = @ \cup Unread(Who[c]) \cup {cur[c]}]
  /\ Goto(c, "replay")
  /\ UNCHANGED <<users, shut, cur, pos, result, status, handled, deleted,
                 seen, replayed>>
List(c) ==
  /\ step[c] = "list"
  /\ inbox' = [inbox EXCEPT ![c] = Unread(Who[c])]
  /\ Goto(c, "replay")
  /\ UNCHANGED <<users, shut, cur, pos, result, status, handled, deleted,
                 seen, replayed>>

(* One message of the list; what sendMessageToUser returns is not looked at.*)
Replay(c, m) ==
  /\ step[c] = "replay" /\ m \in inbox[c] /\ Sender[m] \notin deleted
  /\ inbox' = [inbox EXCEPT ![c] = @ \ {m}]
  /\ cur' = [cur EXCEPT ![c] = m]
  /\ Deliver(m, Who[c])
  /\ Goto(c, "mark")
  /\ UNCHANGED <<users, shut, pos, result, status, handled, deleted, replayed>>

MarkNot(c) ==
  /\ step[c] = "mark" /\ Goto(c, "replay")
  /\ UNCHANGED <<users, shut, inbox, cur, pos, result, status, handled,
                 deleted, seen, replayed>>
Mark(c) ==
  /\ step[c] = "mark"
  /\ status' = [status EXCEPT ![cur[c]][Who[c]] = "1"]
  /\ replayed' = replayed \cup {<<cur[c], Who[c]>>}
  /\ Goto(c, "replay")
  /\ UNCHANGED <<users, shut, inbox, cur, pos, result, handled, deleted, seen>>

ReadyLater(c) ==
  /\ step[c] = "replay" /\ inbox[c] = {} /\ c \notin shut
  /\ Goto(c, "ready")
  /\ UNCHANGED <<users, shut, inbox, cur, pos, result, status, handled,
                 deleted, seen, replayed>>
Ready(c) ==
  /\ step[c] = "replay" /\ inbox[c] = {}
  /\ Goto(c, "ready")
  /\ UNCHANGED <<users, shut, inbox, cur, pos, result, status, handled,
                 deleted, seen, replayed>>

(* handleMessage begins with the first receiver. *)
Handle(c, m) ==
  /\ step[c] = "ready" /\ c \notin shut
  /\ m \notin handled /\ Sender[m] = Who[c]
  /\ handled' = handled \cup {m}
  /\ cur' = [cur EXCEPT ![c] = m]
  /\ pos' = [pos EXCEPT ![c] = 1]
  /\ Goto(c, IF To[m] = <<>> THEN "ready" ELSE "send")
  /\ UNCHANGED <<users, shut, inbox, result, status, deleted, seen, replayed>>

(* A message to the group is not sent to its sender, but saved as read. *)
Send(c) ==
  /\ step[c] = "send"
  /\ IF Len(To[cur[c]]) > 1 /\ Receiver(c) = Who[c]
     THEN result' = [result EXCEPT ![c] = TRUE] /\ UNCHANGED seen
     ELSE /\ result' = [result EXCEPT ![c] = Sent(Receiver(c))]
          /\ Deliver(cur[c], Receiver(c))
  /\ Goto(c, "save")
  /\ UNCHANGED <<users, shut, inbox, cur, pos, status, handled, deleted,
                 replayed>>

(* chatHistoryService.save, and on to the next receiver *)
Save(c) ==
  /\ step[c] = "save"
  /\ status' = [status EXCEPT ![cur[c]][Receiver(c)] =
                  IF result[c] THEN "1" ELSE "0"]
  /\ IF pos[c] < Len(To[cur[c]])
     THEN pos' = [pos EXCEPT ![c] = @ + 1] /\ Goto(c, "send")
     ELSE Goto(c, "ready") /\ UNCHANGED pos
  /\ UNCHANGED <<users, shut, inbox, cur, result, handled, deleted, seen,
                 replayed>>

(* A walk that met a change of the list, or a replay that met a message of  *)
(* a deleted user (getByLoginName returns null): the handler is left, some  *)
(* of the receiver's connections may have got the message, and the          *)
(* connection is closed.                                                    *)
Throw(c) ==
  /\ \/ step[c] = "list" /\ Race(c) /\ UNCHANGED seen
     \/ /\ step[c] = "replay" /\ Race(c)
        /\ \E m \in inbox[c] : Deliver(m, Who[c]) \/ UNCHANGED seen
     \/ /\ step[c] = "replay" /\ UNCHANGED seen
        /\ \E m \in inbox[c] : Sender[m] \in deleted
     \/ /\ step[c] = "send" /\ Race(c)
        /\ Deliver(cur[c], Receiver(c)) \/ UNCHANGED seen
  /\ shut' = shut \cup {c}
  /\ Goto(c, "remove")
  /\ UNCHANGED <<users, inbox, cur, pos, result, status, handled, deleted,
                 replayed>>

(* The client goes away; the connection's thread notices when it is free. *)
Leave(c) ==
  /\ step[c] \in Steps \ {"off", "gone"} /\ c \notin shut
  /\ shut' = shut \cup {c}
  /\ UNCHANGED <<users, step, inbox, cur, pos, result, status, handled,
                 deleted, seen, replayed>>

Closed(c) ==
  /\ step[c] = "ready" /\ c \in shut
  /\ Goto(c, "remove")
  /\ UNCHANGED <<users, shut, inbox, cur, pos, result, status, handled,
                 deleted, seen, replayed>>

(* users.remove(session) *)
Remove(c) ==
  /\ step[c] = "remove"
  /\ users' \in {users \ {c}} \cup IF Race(c) THEN {users} ELSE {}
  /\ Goto(c, "gone")
  /\ UNCHANGED <<shut, inbox, cur, pos, result, status, handled, deleted,
                 seen, replayed>>

(* An administrator deletes the account. *)
DeleteUser(u) ==
  /\ u \notin deleted
  /\ deleted' = deleted \cup {u}
  /\ UNCHANGED <<users, step, shut, inbox, cur, pos, result, status, handled,
                 seen, replayed>>

Callback(c) ==
  \/ Add(c) \/ List(c) \/ Mark(c) \/ Ready(c) \/ Send(c) \/ Save(c)
  \/ \E m \in Msg : Replay(c, m)
  \/ Throw(c) \/ Closed(c) \/ Remove(c)

ChatNext ==
  \/ \E c \in Conn : Connect(c) \/ Leave(c) \/ Callback(c)
  \/ \E c \in Conn, m \in Msg : Handle(c, m)
  \/ \E u \in User : DeleteUser(u)

ChatSpec == ChatInit /\ [][ChatNext]_chatVars

(* A thread inside a callback goes on. *)
ChatFairness == \A c \in Conn : WF_chatVars(Callback(c))
FairChatSpec == ChatSpec /\ ChatFairness

--------------------------------------------------------------------------------

ChatTypeOK ==
  /\ users \subseteq Conn /\ shut \subseteq Conn
  /\ step \in [Conn -> Steps]
  /\ inbox \in [Conn -> SUBSET Msg]
  /\ cur \in [Conn -> Msg \cup {NoMsg}]
  /\ pos \in [Conn -> Nat \ {0}]
  /\ result \in [Conn -> BOOLEAN]
  /\ status \in [Msg -> [User -> {"none", "0", "1"}]]
  /\ handled \subseteq Msg /\ deleted \subseteq User
  /\ seen \subseteq Msg \X User /\ replayed \subseteq Msg \X User

(* A message saved as read by its sender's thread has really been written   *)
(* to a socket of its receiver, however connections come, go and fail       *)
(* between the sending and the saving.                                      *)
SavedReadWasSent ==
  \A m \in Msg : \A u \in User \ {Sender[m]} :
    status[m][u] = "1" /\ <<m, u>> \notin replayed => <<m, u>> \in seen

(* Who connects is served: what was unread when the list was asked for is   *)
(* read in the end, unless the connection breaks.                           *)
LoginReads ==
  \A c \in Conn : \A m \in Msg :
    step[c] = "list" /\ m \in Unread(Who[c]) ~>
      m \notin Unread(Who[c]) \/ step[c] \in {"remove", "gone"}

(* No callback hangs: a thread comes back to wait for its client. *)
CallbacksEnd ==
  \A c \in Conn : step[c] \notin {"off", "ready", "gone"} ~>
                    step[c] \in {"ready", "gone"}
================================================================================
