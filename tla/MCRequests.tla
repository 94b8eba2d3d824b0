------------------------------ MODULE MCRequests ------------------------------
(* Finite instances of three components of the server that share no state: the *)
(* ids of the e-book module (SnowflakeIdWorker), its purchases                 *)
(* (ChapterPurchase) and the chat (LayIMChat).  A behaviour is one of its part, *)
(* chosen at the start; interleaving the parts would add nothing to any.       *)
EXTENDS SnowflakeIdWorker, ChapterPurchase, LayIMChat
CONSTANTS worker1, worker2, tab1, tab2, tab3, session1, session2, chapter1, chapter2,
          alice, bob, alice1, bob1, bob2, toBob, toBoth

VARIABLE part

\* Two workers with different numbers.
Numbering == [w \in {worker1, worker2} |-> IF w = worker1 THEN 0 ELSE 1]

\* Two pages of one session and one of another, two chapters of 1 and 2 coins.
PageSessions == [p \in {tab1, tab2, tab3} |-> IF p = tab3 THEN session2 ELSE session1]
Prices == [c \in {chapter1, chapter2} |-> IF c = chapter1 THEN 1 ELSE 2]

\* Alice has one connection, Bob two; she writes to him, and to the group of the two.
Handshakes == [c \in {alice1, bob1, bob2} |-> IF c = alice1 THEN alice ELSE bob]
Senders == [m \in {toBob, toBoth} |-> alice]
Receivers == [m \in {toBob, toBoth} |-> IF m = toBob THEN <<bob>> ELSE <<alice, bob>>]

MCInit ==
  /\ part \in {"ids", "purchase", "chat"}
  /\ Init /\ PurchaseInit /\ ChatInit
  /\ part # "ids" => clock = 0
MCNext ==
  /\ UNCHANGED part
  /\ \/ part = "ids" /\ Next /\ UNCHANGED <<purchaseVars, chatVars>>
     \/ part = "purchase" /\ PurchaseNext /\ UNCHANGED <<vars, chatVars>>
     \/ part = "chat" /\ ChatNext /\ UNCHANGED <<vars, purchaseVars>>
MCSpec == MCInit /\ [][MCNext]_<<part, vars, purchaseVars, chatVars>>

(* Every variable of the three parts has its type. *)
RequestsTypeOK == TypeOK /\ PurchaseTypeOK /\ ChatTypeOK
===============================================================================
