--------------------------- MODULE ChapterPurchase ---------------------------
(***************************************************************************)
(* Buying chapters in the reader's pages (modules/ebook, E-books/*.jsp).   *)
(* A page asks three requests in turn: is the chapter bought, is there     *)
(* money enough, buy it.  The money compared and reduced is that of the    *)
(* Users object in the HTTP session, read from the database at login; the  *)
(* purchase writes that object back and then inserts the row of the bought *)
(* chapter, in two transactions.  Pages of one session share the object;   *)
(* another browser of the same reader has its own.                         *)
(*                                                                         *)
(* One reader, and chapters that cost money.  A login while a purchase of  *)
(* the same session is inside the handler is left out.                     *)
(***************************************************************************)
EXTENDS Integers, FiniteSets, Functions

CONSTANTS
  Session,    (* HTTP sessions the reader logs in with                     *)
  Page,       (* open pages                                                *)
  SessionOf,  (* page -> its session                                       *)
  Chapter,    (* chapters that are not free                                *)
  Price,      (* chapter -> chapter.money                                  *)
  Money0,     (* users.money at first                                      *)
  None,       (* not logged in; no chapter                                 *)
  MaxFails,   (* bound: saves that fail                                    *)
  MaxTopUps   (* bound: coins an administrator adds                        *)

ASSUME PurchaseAssumption ==
  /\ IsFiniteSet(Page) /\ IsFiniteSet(Chapter)
  /\ SessionOf \in [Page -> Session] /\ Price \in [Chapter -> Nat]
  /\ Money0 \in Int /\ None \notin Int \cup Chapter
  /\ MaxFails \in Nat /\ MaxTopUps \in Nat

VARIABLES
  purse,      (* users.money in the database                               *)
  held,       (* session -> money of its Users object                      *)
  rows,       (* chapter -> rows of buychapter                             *)
  pc,         (* page -> its next step                                     *)
  want,       (* page -> chapter it is about                               *)
  money,      (* page -> local variable money of the handler               *)
  fails,      (* history: saves that failed                                *)
  topups      (* history: coins added by the administrator                 *)

purchaseVars == <<purse, held, rows, pc, want, money, fails, topups>>

PageSteps == {"shop", "judge", "confirm", "set", "users", "row", "reading"}
InHandler == {"set", "users", "row"}

PurchaseInit ==
  /\ purse = Money0
  /\ held = [s \in Session |-> None]
  /\ rows = [c \in Chapter |-> 0]
  /\ pc = [p \in Page |-> "shop"]
  /\ want = [p \in Page |-> None]
  /\ money = [p \in Page |-> 0]
  /\ fails = 0 /\ topups = 0

Proceed(p, next) == pc' = [pc EXCEPT ![p] = next]
Users(p) == held[SessionOf[p]]
Cost(p) == Price[want[p]]

Login(s) ==
  /\ \A p \in Page : SessionOf[p] = s => pc[p] \notin InHandler
  /\ held' = [held EXCEPT ![s] = purse]
  /\ UNCHANGED <<purse, rows, pc, want, money, fails, topups>>

(* selectOneBuychapter: a bought chapter is opened. *)
SelectOneBuychapter(p, c) ==
  /\ pc[p] \in {"shop", "reading"} /\ Users(p) # None
  /\ want' = [want EXCEPT ![p] = c]
  /\ Proceed(p, IF rows[c] > 0 THEN "reading" ELSE "judge")
  /\ UNCHANGED <<purse, held, rows, money, fails, topups>>

JudgeMoney(p) ==
  /\ pc[p] = "judge"
  /\ Proceed(p, IF Users(p) - Cost(p) >= 0 THEN "confirm" ELSE "shop")
  /\ UNCHANGED <<purse, held, rows, want, money, fails, topups>>

(* insertChapterAndUpdateUsers after confirm("..."), up to users.getMoney() *)
Buy(p) ==
  /\ pc[p] = "confirm"
  /\ money' = [money EXCEPT ![p] = Users(p)]
  /\ Proceed(p, "set")
  /\ UNCHANGED <<purse, held, rows, want, fails, topups>>

Decline(p) ==
  /\ pc[p] = "confirm"
  /\ Proceed(p, "shop")
  /\ UNCHANGED <<purse, held, rows, want, money, fails, topups>>

SetMoneyForgets(p) ==
  /\ pc[p] = "set" /\ Proceed(p, "users")
  /\ held' = [held EXCEPT ![SessionOf[p]] = None]
  /\ UNCHANGED <<purse, rows, want, money, fails, topups>>
SetMoney(p) ==
  /\ pc[p] = "set"
  /\ held' = [held EXCEPT ![SessionOf[p]] = money[p] - Cost(p)]
  /\ Proceed(p, "users")
  /\ UNCHANGED <<purse, rows, want, money, fails, topups>>

(* usersService.save writes what the shared object holds by now. *)
SaveUsersOnly(p) ==
  /\ pc[p] = "users" /\ purse' = Users(p) /\ Proceed(p, "shop")
  /\ UNCHANGED <<held, rows, want, money, fails, topups>>
SaveUsers(p) ==
  /\ pc[p] = "users"
  /\ purse' = Users(p)
  /\ Proceed(p, "row")
  /\ UNCHANGED <<held, rows, want, money, fails, topups>>

(* buychapterService.save, and the page goes on to the chapter. *)
SaveBuychapter(p) ==
  /\ pc[p] = "row"
  /\ rows' = [rows EXCEPT ![want[p]] = @ + 1]
  /\ Proceed(p, "reading")
  /\ UNCHANGED <<purse, held, want, money, fails, topups>>

(* Either save fails; what was done before it stays. *)
SaveFailsUnseen(p) ==
  /\ pc[p] \in {"users", "row"} /\ fails < MaxFails
  /\ fails' = fails + 1 /\ Proceed(p, "reading")
  /\ UNCHANGED <<purse, held, rows, want, money, topups>>
SaveFails(p) ==
  /\ pc[p] \in {"users", "row"} /\ fails < MaxFails
  /\ fails' = fails + 1
  /\ Proceed(p, "shop")
  /\ UNCHANGED <<purse, held, rows, want, money, topups>>

(* The administrator's edit of the reader's account. *)
TopUp ==
  /\ topups < MaxTopUps
  /\ topups' = topups + 1
  /\ purse' = purse + 1
  /\ UNCHANGED <<held, rows, pc, want, money, fails>>

PurchaseNext ==
  \/ \E s \in Session : Login(s)
  \/ \E p \in Page :
       \/ \E c \in Chapter : SelectOneBuychapter(p, c)
       \/ JudgeMoney(p) \/ Buy(p) \/ Decline(p) \/ SetMoney(p)
       \/ SaveUsers(p) \/ SaveBuychapter(p) \/ SaveFails(p)
  \/ TopUp

PurchaseSpec == PurchaseInit /\ [][PurchaseNext]_purchaseVars

--------------------------------------------------------------------------------

PurchaseTypeOK ==
  /\ purse \in Int
  /\ held \in [Session -> Int \cup {None}]
  /\ rows \in [Chapter -> Nat]
  /\ pc \in [Page -> PageSteps]
  /\ want \in [Page -> Chapter \cup {None}]
  /\ money \in [Page -> Int]
  /\ fails \in 0..MaxFails /\ topups \in 0..MaxTopUps

(* What the bought chapters have cost, and what the purchases under way will. *)
Spent == [c \in Chapter |-> rows[c] * Price[c]]
Due == [p \in Page |-> IF pc[p] \in {"users", "row"} THEN Cost(p) ELSE 0]
Worth == SumFunction(Spent)
Pending == SumFunction(Due)

(* As long as no save fails, the reader never pays for what was not bought, *)
(* whatever sessions and pages cross: money gone is a row or a purchase     *)
(* under way.                                                               *)
NothingPaidForNothing == fails = 0 => purse + Worth + Pending >= Money0

(* A page shows a chapter only when its row is there, failed saves or not.  *)
ReadMeansBought == \A p \in Page : pc[p] = "reading" => rows[want[p]] > 0
================================================================================
