----------------------------- MODULE WxMenuEditor -----------------------------
(***************************************************************************)
(* The editor of a WeChat account's menu (webpage/modules/weixin/menu/     *)
(* wxMenuList.js).  It keeps the menu twice: as the object that is saved   *)
(* (button, an array of menus with their sub_button arrays) and as the     *)
(* elements on the screen.  An element refers to its entry by numbers      *)
(* written when it was made: the "alt" of a menu, the id sub_row_col of a  *)
(* sub-menu.  Deleting leaves a hole in the array, for JavaScript's delete *)
(* does not shift it; the elements shift.                                  *)
(*                                                                         *)
(* Every menu made gets a number, by which the two copies are compared.    *)
(* A handler that meets undefined ends there in a TypeError.  Contents,    *)
(* the sort mode and saving (which changes nothing here) are left out.     *)
(***************************************************************************)
EXTENDS Integers, Sequences, FiniteSets, SequencesExt, Selection

CONSTANTS
  Initials,   (* menus the page may be opened with: sub-menus of each menu *)
  MaxMade     (* bound: menus and sub-menus made                           *)

ASSUME EditorAssumption ==
  /\ Initials \subseteq UNION {[1..n -> 0..5] : n \in 0..3}
  /\ MaxMade \in Nat

VARIABLES
  button,     (* the entries: numbered menus with the numbers of their subs *)
  strip,      (* the elements of the first level, left to right            *)
  ix,         (* the page's count of menus                                 *)
  selected,   (* number of the selected element; 0: none                   *)
  panel,      (* number of the entry whose name the panel shows; 0: none   *)
  made        (* numbers given out                                         *)

editorVars == <<button, strip, ix, selected, panel, made>>

Hole == [nr |-> 0, subs |-> <<>>]
NoAlt == -1

Entry(n, subs) == [nr |-> n, subs |-> subs]
Li(n, row, col) == [nr |-> n, row |-> row, col |-> col]
Menu(n, alt, subs, plus) == [nr |-> n, alt |-> alt, subs |-> subs, plus |-> plus]
PlusMenu == Menu(0, NoAlt, <<>>, FALSE)     \* the element that adds a menu

(* Menus of the account, items of a menu. *)
MenuLimitMore == 4
MenuLimit == 3
SubLimitMore == 6
SubLimit == 5

(* JavaScript's a[i], from 0; undefined beyond the end. *)
At(a, i) == IF i \in 0..Len(a) - 1 THEN a[i + 1] ELSE Hole
SubAt(row, col) ==
  LET subs == At(button, row).subs
  IN IF col \in 0..Len(subs) - 1 THEN subs[col + 1] ELSE 0

(* showMenu and showBtn: numbers 10 i for menu i, 10 i + j for its subs;    *)
(* a menu with five subs has no plus, three menus none either.              *)
EditorInit ==
  /\ \E initial \in Initials :
       /\ button = [i \in 1..Len(initial) |->
                      Entry(10 * i, [j \in 1..initial[i] |-> 10 * i + j])]
       /\ strip = [i \in 1..Len(initial) |->
                     Menu(10 * i, i - 1,
                          [j \in 1..initial[i] |-> Li(10 * i + j, i - 1, j - 1)],
                          initial[i] < SubLimit)]
                  \o (IF Len(initial) < MenuLimit THEN <<PlusMenu>> ELSE <<>>)
       /\ ix = Len(initial)
  /\ selected = 0 /\ panel = 0 /\ made = 0

Next1 == 100 + made     \* the number of the next menu made

(* button.push(new parents(..)); where sub_button.push puts the next item. *)
Unshifted(n) == <<Entry(n, <<>>)>> \o button
Pushed(n) == Append(button, Entry(n, <<>>))
NextColAfter(row) == Len(button[row + 1].subs) + 1
NextCol(row) == Len(button[row + 1].subs)
WithLast(lis, li) == [lis EXCEPT ![Len(lis)] = li]

(* The plus of the first level.  The element at position ix, whichever it   *)
(* is, gets the alt ix - 1; at three menus the plus goes.                   *)
AddMenu ==
  /\ made < MaxMade
  /\ strip # <<>> /\ Last(strip).nr = 0
  /\ ix' = ix + 1
  /\ IF ix' <= MenuLimit
     THEN LET grown == Front(strip) \o <<Menu(Next1, NoAlt, <<>>, TRUE)>>
              els == IF ix' = MenuLimit THEN grown ELSE grown \o <<Last(strip)>>
          IN /\ strip' = IF ix' <= Len(els)
                         THEN [els EXCEPT ![ix'].alt = ix' - 1] ELSE els
             /\ button' = Pushed(Next1)
             /\ selected' = Next1 /\ panel' = Next1
             /\ made' = made + 1
     ELSE UNCHANGED <<button, strip, selected, panel, made>>

(* A click on a menu: an element with an alt is selected, and the panel     *)
(* shows the entry at the element's position on the screen.                 *)
ClickMenu(p) ==
  /\ strip[p].nr # 0 /\ strip[p].alt # NoAlt
  /\ selected' = strip[p].nr
  /\ panel' = IF At(button, p - 1) = Hole THEN panel ELSE At(button, p - 1).nr
  /\ UNCHANGED <<button, strip, ix, made>>

(* A click on a sub-menu: row by position, column by its id. *)
ClickSub(p, q) ==
  LET li == strip[p].subs[q] IN
  /\ li.row # NoAlt
  /\ selected' = li.nr
  /\ panel' = IF SubAt(p - 1, li.col) = 0 THEN panel ELSE SubAt(p - 1, li.col)
  /\ UNCHANGED <<button, strip, ix, made>>

(* The plus of the second level puts an item under the menu clicked, or, as *)
(* the first one (childMenu), under the menu at the position alt says.      *)
(* setLiId then gives the last item at that position the next id, appends   *)
(* an entry and selects it; the fifth item takes the place of the plus.     *)
AddSub(p) ==
  LET alt == strip[p].alt
      first == strip[p].subs = <<>>
      aimed == /\ alt + 1 \in 1..Len(strip) /\ strip[alt + 1].plus
               /\ At(button, alt) # Hole
               /\ first \/ p = alt + 1 \/ strip[alt + 1].subs # <<>>
      item == Li(Next1, NoAlt, NoAlt)
      grown == IF first THEN [strip EXCEPT ![alt + 1].subs = <<item>> \o @]
               ELSE [strip EXCEPT ![p].subs = Append(@, item)]
      subs == grown[alt + 1].subs
      numbered == [grown EXCEPT ![alt + 1].subs =
                     WithLast(@, Li(Last(subs).nr, alt, NextCol(alt)))]
  IN /\ made < MaxMade
     /\ strip[p].plus /\ Len(strip[p].subs) < SubLimit
     /\ aimed \/ ~first
     /\ made' = made + 1
     /\ IF aimed
        THEN /\ strip' = [numbered EXCEPT ![p].plus =
                            first \/ Len(strip[p].subs) < SubLimit - 1]
             /\ button' = [button EXCEPT ![alt + 1].subs =
                             Append(@, Last(subs).nr)]
             /\ selected' = Last(subs).nr /\ panel' = Last(subs).nr
        ELSE /\ strip' = grown
             /\ UNCHANGED <<button, selected, panel>>
     /\ UNCHANGED ix

(* $('#delMenu'): the selected element goes; its entry becomes a hole.      *)
Spliced(a, i, hole) == IF i \in 0..Len(a) - 1 THEN RemoveAt(a, i + 1) ELSE a
HoleAt(a, i, hole) == IF i \in 0..Len(a) - 1 THEN [a EXCEPT ![i + 1] = hole] ELSE a

(* The column is read from the id by substr(.., 1), which takes one digit;  *)
(* all other handlers take the rest of the id.                              *)
FirstDigit(n) ==
  IF n < 10 THEN n
  ELSE LET lead[m \in Nat] == IF m < 10 THEN m ELSE lead[m \div 10] IN lead[n]

DelMenu ==
  /\ \E p \in 1..Len(strip) :
       /\ strip[p].nr = selected /\ selected # 0
       /\ strip' = RemoveAt(strip, p)
       /\ button' = HoleAt(button, strip[p].alt, Hole)
  /\ selected' = 0 /\ panel' = 0
  /\ UNCHANGED <<ix, made>>

DelSub ==
  /\ \E p \in 1..Len(strip) : \E q \in 1..Len(strip[p].subs) :
       LET li == strip[p].subs[q] IN
       /\ li.nr = selected /\ selected # 0
       /\ strip' = [strip EXCEPT ![p].subs = RemoveAt(@, q)]
       /\ IF At(button, li.row) = Hole
          THEN UNCHANGED <<button, panel>>
          ELSE /\ button' = [button EXCEPT ![li.row + 1].subs =
                               HoleAt(@, FirstDigit(li.col), 0)]
               /\ panel' = 0
  /\ selected' = 0
  /\ UNCHANGED <<ix, made>>

EditorNext ==
  \/ AddMenu \/ DelMenu \/ DelSub
  \/ \E p \in 1..Len(strip) :
       \/ ClickMenu(p) \/ AddSub(p)
       \/ \E q \in 1..Len(strip[p].subs) : ClickSub(p, q)

EditorSpec == EditorInit /\ [][EditorNext]_editorVars

--------------------------------------------------------------------------------

EditorTypeOK ==
  /\ \A i \in 1..Len(button) : button[i].nr \in Nat /\ button[i].subs \in Seq(Nat)
  /\ \A p \in 1..Len(strip) :
       /\ strip[p].nr \in Nat /\ strip[p].alt \in NoAlt..2
       /\ strip[p].plus \in BOOLEAN
       /\ \A q \in 1..Len(strip[p].subs) : strip[p].subs[q].nr \in Nat
  /\ {ix, selected, panel} \subseteq Nat /\ made \in 0..MaxMade

ShownMenus == Selected(strip, {m \in ToSet(strip) : m.nr # 0})
SavedMenus == Selected(button, ToSet(button) \ {Hole})
ShownSubs(m) == [q \in 1..Len(m.subs) |-> m.subs[q].nr]
SavedSubs(e) == Selected(e.subs, ToSet(e.subs) \ {0})

(* No menu was deleted since the page was opened: where one was, the alts   *)
(* and positions of the menus to its right differ, and items may go astray. *)
MenusKept == \A i \in 1..Len(button) : button[i] # Hole

(* No menu ever had more than ten sub-menus, those deleted since counted:   *)
(* the columns have one digit, which is all a deletion reads.  From column  *)
(* 10 on it empties the place that its first digit names.                   *)
ColumnsOfOneDigit == \A i \in 1..Len(button) : Len(button[i].subs) <= 10

(* What is saved, holes aside, is what is shown, however sub-menus come and *)
(* go up to column 9: the same menus and sub-menus in the same order        *)
(* (saveAjax).                                                              *)
SavedIsShown == MenusKept /\ ColumnsOfOneDigit =>
  /\ Len(SavedMenus) = Len(ShownMenus)
  /\ \A i \in 1..Len(ShownMenus) :
       /\ SavedMenus[i].nr = ShownMenus[i].nr
       /\ SavedSubs(SavedMenus[i]) = ShownSubs(ShownMenus[i])

(* Typing and choosing on the right-hand side, which go by alt and id, and   *)
(* deleting, which reads one digit of the column, reach the entry of the    *)
(* selected element, and the panel shows it, however many sub-menus were    *)
(* deleted beside it, up to column 9.                                       *)
EditHitsSelection ==
  MenusKept /\ ColumnsOfOneDigit /\ selected # 0 =>
    /\ panel = selected
    /\ \A p \in 1..Len(strip) :
         /\ strip[p].nr = selected => At(button, strip[p].alt).nr = selected
         /\ \A q \in 1..Len(strip[p].subs) :
              LET li == strip[p].subs[q] IN
              li.nr = selected =>
                \A col \in {li.col, FirstDigit(li.col)} :
                  SubAt(li.row, col) = selected

(* The page keeps to three menus by hiding the plus, on the screen and in    *)
(* the array, though ix is not counted down by a deletion and holes stay;    *)
(* and to five sub-menus of a menu, as long as no menu was deleted (a menu   *)
(* that then gets the items of its neighbour is filled without a limit).     *)
WithinLimits ==
  /\ Len(button) <= 3
  /\ Cardinality({p \in 1..Len(strip) : strip[p].nr # 0}) <= 3
  /\ MenusKept => \A p \in 1..Len(strip) : Len(strip[p].subs) <= 5

(* No two sub-menus on the screen share an id and no two menus an alt,      *)
(* whatever was deleted: array positions are never given out twice.         *)
ReferencesUnique ==
  LET ref(p, q) == <<strip[p].subs[q].row, strip[p].subs[q].col>>
  IN /\ \A p, r \in 1..Len(strip) :
          \A q \in 1..Len(strip[p].subs) : \A t \in 1..Len(strip[r].subs) :
            ref(p, q) = ref(r, t) /\ ref(p, q)[1] # NoAlt => p = r /\ q = t
     /\ \A p, q \in 1..Len(strip) :
          strip[p].alt = strip[q].alt /\ strip[p].alt # NoAlt => p = q
================================================================================
