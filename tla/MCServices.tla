------------------------------ MODULE MCServices ------------------------------
(* Finite instances of three components of the server that share no state: the *)
(* loading gets of one key (KeyLoader), the channel of two nodes               *)
(* (J2CacheChannel) and the chat (LayIMChat).  A behaviour is one of its part, *)
(* chosen at the start; interleaving the parts would add nothing to any.       *)
(* MCJ2CacheChannel and MCRequests check the safety of the channel and of the  *)
(* chat, and their types, on larger instances.                                 *)
EXTENDS KeyLoader
CONSTANTS t1, t2, t3, l1, l2, l3, n1, n2, k1, a, b, a1, b1, private

VARIABLES part,
          level1, level2, online, commands, calls, op, expiry, issued, faults,
          raced, stuck,
          users, step, shut, unread, cur, pos, result, status, handled, deleted,
          seen, replayed

\* One thread per node.
Channel == INSTANCE J2CacheChannel WITH
  Node <- {n1, n2}, Thread <- {t1, t2},
  Home <- [t \in {t1, t2} |-> IF t = t1 THEN n1 ELSE n2],
  Key <- {k1}, MaxOps <- 2, MaxFaults <- 1,
  l1 <- level1, l2 <- level2, inbox <- commands, pc <- calls

\* User a writes to b.
Chat == INSTANCE LayIMChat WITH
  User <- {a, b}, Conn <- {a1, b1},
  Who <- [c \in {a1, b1} |-> IF c = a1 THEN a ELSE b],
  Msg <- {private}, Sender <- [m \in {private} |-> a],
  To <- [m \in {private} |-> <<b>>], NoMsg <- None, inbox <- unread

channelVars == <<level1, level2, online, commands, calls, op, expiry, issued,
                 faults, raced, stuck>>
chatVars == <<users, step, shut, unread, cur, pos, result, status, handled,
              deleted, seen, replayed>>

MCInit ==
  /\ part \in {"loader", "channel", "chat"}
  /\ Init /\ Channel!Init /\ Chat!ChatInit
MCNext ==
  /\ UNCHANGED part
  /\ \/ part = "loader" /\ Next /\ UNCHANGED <<channelVars, chatVars>>
     \/ part = "channel" /\ Channel!Next /\ UNCHANGED <<vars, chatVars>>
     \/ part = "chat" /\ Chat!ChatNext /\ UNCHANGED <<vars, channelVars>>

\* The channel's Fairness, for the behaviours of the channel.
InChannel(A) == part = "channel" /\ A
ChannelFairness ==
  /\ \A t \in {t1, t2} : WF_channelVars(InChannel(Channel!ThreadStep(t)))
  /\ \A n \in {n1, n2} : /\ WF_channelVars(InChannel(Channel!Receive(n)))
                         /\ WF_channelVars(InChannel(Channel!Subscribe(n)))
                         /\ WF_channelVars(InChannel(Channel!ListenerStep(n)))

MCSpec ==
  /\ MCInit /\ [][MCNext]_<<part, vars, channelVars, chatVars>>
  /\ Fairness /\ Chat!ChatFairness /\ ChannelFairness

(* A stale level-1 entry that was not left behind goes away (J2CacheChannel). *)
StaleGoes == Channel!StaleGoes

(* What was unread when a connection asked for it is read in the end, unless  *)
(* the connection breaks (LayIMChat).                                         *)
LoginReads == Chat!LoginReads

(* No callback of a connection hangs (LayIMChat).                             *)
CallbacksEnd == Chat!CallbacksEnd
===============================================================================
