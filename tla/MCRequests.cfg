SPECIFICATION MCSpec
CONSTANTS
  worker1 = worker1  worker2 = worker2
  tab1 = tab1  tab2 = tab2  tab3 = tab3
  session1 = session1  session2 = session2  chapter1 = chapter1  chapter2 = chapter2
  alice = alice  bob = bob  alice1 = alice1  bob1 = bob1  bob2 = bob2
  toBob = toBob  toBoth = toBoth
  Worker = {worker1, worker2}
  Caller = {c1, c2}
  NoCaller = NoCaller
  Number <- Numbering
  Numbers = 2
  SeqSize = 2
  MaxClock = 3
  MaxIds = 5
  Session = {session1, session2}
  Page = {tab1, tab2, tab3}
  SessionOf <- PageSessions
  Chapter = {chapter1, chapter2}
  Price <- Prices
  Money0 = 2
  None = None
  MaxFails = 1
  MaxTopUps = 1
  User = {alice, bob}
  Conn = {alice1, bob1, bob2}
  Who <- Handshakes
  Msg = {toBob, toBoth}
  Sender <- Senders
  To <- Receivers
  NoMsg = None
INVARIANTS RequestsTypeOK Increasing Disjoint NothingPaidForNothing ReadMeansBought SavedReadWasSent
CHECK_DEADLOCK FALSE
