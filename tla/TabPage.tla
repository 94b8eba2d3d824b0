-------------------------------- MODULE TabPage --------------------------------
(***************************************************************************)
(* The tabs of the main page (static/plugin/js-menu/contabs.js): a strip   *)
(* of tabs and, elsewhere in the document, one iframe per tab.  Nothing    *)
(* but the url ties a tab to its iframe: every handler looks the iframe up *)
(* by url, and shows, hides and removes it on its own.  Each handler is    *)
(* one step.  Scrolling and the loading hint are left out.                 *)
(***************************************************************************)
EXTENDS Naturals, Sequences, FiniteSets, SequencesExt, Selection

CONSTANTS
  Url,       (* addresses of pages                                         *)
  Home,      (* the address of the first tab                               *)
  AllowNew,  (* whether openTab is called with isNew = true                *)
  MaxOpen    (* bound: tabs opened                                         *)

ASSUME TabAssumption == Home \in Url /\ AllowNew \in BOOLEAN /\ MaxOpen \in Nat

VARIABLES
  tabs,      (* the .J_menuTab elements in order                           *)
  active,    (* those with the class "active"                              *)
  frames,    (* the .J_iframe elements in order                            *)
  visible,   (* those that are shown                                       *)
  opened     (* number of tabs opened; numbers the elements                *)

vars == <<tabs, active, frames, visible, opened>>

(* An element: its data-id and which one of them it is. *)
El(u, n) == [url |-> u, nr |-> n]
Elements(s) == ToSet(s)
OfUrl(s, u) == Selected(s, {e \in Elements(s) : e.url = u})
Only(s, gone) == Selected(s, gone)
Without(s, gone) == Selected(s, Elements(s) \ gone)

(* .each(... show().siblings().hide(); return false): the first iframe of   *)
(* the url alone is shown; with none, nothing changes.  setActiveTab does   *)
(* not leave the loop, so that the last one is shown.                       *)
ShowNone(fs, u, before) == before
ShowFirst(fs, u, before) ==
  IF OfUrl(fs, u) = <<>> THEN before ELSE {Head(OfUrl(fs, u))}
ShowLast(fs, u, before) ==
  IF OfUrl(fs, u) = <<>> THEN before ELSE {Last(OfUrl(fs, u))}

Init ==
  /\ tabs = <<El(Home, 0)>> /\ active = {El(Home, 0)}
  /\ frames = <<El(Home, 0)>> /\ visible = {El(Home, 0)}
  /\ opened = 0

(* openTab and menuItem: unless a new tab is asked for, the first tab of    *)
(* the url is activated if there is one.                                    *)
NeverFound(u, isNew) == FALSE
Found(u, isNew) == ~isNew /\ OfUrl(tabs, u) # <<>>

OpenTab(u, isNew) ==
  IF Found(u, isNew)
  THEN /\ LET t == Head(OfUrl(tabs, u)) IN
          IF t \in active THEN UNCHANGED <<active, visible>>
          ELSE active' = {t} /\ visible' = ShowFirst(frames, u, visible)
       /\ UNCHANGED <<tabs, frames, opened>>
  ELSE /\ opened < MaxOpen
       /\ opened' = opened + 1
       /\ tabs' = Append(tabs, El(u, opened'))
       /\ active' = {El(u, opened')}
       /\ frames' = Append(frames, El(u, opened'))
       /\ visible' = {El(u, opened')}

(* activeTab: a click on a tab. *)
ActiveTab(i) ==
  /\ tabs[i] \notin active
  /\ active' = {tabs[i]}
  /\ visible' = ShowFirst(frames, tabs[i].url, visible)
  /\ UNCHANGED <<tabs, frames, opened>>

(* setActiveTab, which "refresh" of the context menu begins with. *)
ActiveAfterSet(t) == IF t \in active THEN active ELSE {t}
VisibleAfterSet(t, fs, act, vis) ==
  IF t \in act THEN vis ELSE ShowLast(fs, t.url, vis)

RefreshCurrentTab(i) ==
  /\ active' = ActiveAfterSet(tabs[i])
  /\ visible' = VisibleAfterSet(tabs[i], frames, active, visible)
  /\ UNCHANGED <<tabs, frames, opened>>

(* closeTab (the icon, which the first tab lacks) and closeCurrentTab (the  *)
(* context menu, which spares tabs of the first tab's url): an active tab   *)
(* hands over to the next one, or else to the one before; the first iframe  *)
(* of the url goes with the tab.                                            *)
CloseTab(i) ==
  /\ i > 1
  /\ LET t == tabs[i]
         gone == IF OfUrl(frames, t.url) = <<>> THEN {}
                 ELSE {Head(OfUrl(frames, t.url))}
         heir == IF i < Len(tabs) THEN tabs[i + 1] ELSE tabs[i - 1]
     IN /\ tabs' = Without(tabs, {t})
        /\ frames' = Without(frames, gone)
        /\ IF t \in active
           THEN /\ active' = (active \ {t}) \cup {heir}
                /\ visible' = ShowFirst(frames, heir.url, visible) \ gone
           ELSE /\ active' = active
                /\ visible' = visible \ gone
  /\ UNCHANGED opened

(* Removes tabs and every iframe of their urls; if the active one is among  *)
(* the tabs, tab t of the context menu is activated first.                  *)
CloseAround(t, closing) ==
  LET urls == {e.url : e \in closing}
      hit == closing \cap active # {}
      vis == IF hit THEN VisibleAfterSet(t, frames, active, visible) ELSE visible
      gone == {f \in Elements(frames) : f.url \in urls}
  IN /\ tabs' = Without(tabs, closing)
     /\ frames' = Without(frames, gone)
     /\ active' = (IF hit THEN ActiveAfterSet(t) ELSE active) \ closing
     /\ visible' = vis \ gone
     /\ UNCHANGED opened

CloseAllLeftTabs(i) == CloseAround(tabs[i], {tabs[j] : j \in 1..(i - 1)})
CloseLeftTabs(i) ==
  CloseAround(tabs[i], {tabs[j] : j \in 2..(i - 1)})

CloseRightTabs(i) ==
  CloseAround(tabs[i], {tabs[j] : j \in (i + 1)..Len(tabs)})

(* closeOtherTabs: the tab of the context menu is activated; then every tab *)
(* but the first and the active one goes, with all iframes of its url.      *)
CloseOtherTabs(i) ==
  LET act == ActiveAfterSet(tabs[i])
      closing == {tabs[j] : j \in 2..Len(tabs)} \ act
      gone == {f \in Elements(frames) : \E e \in closing : e.url = f.url}
  IN /\ active' = act
     /\ visible' = VisibleAfterSet(tabs[i], frames, active, visible) \ gone
     /\ tabs' = Without(tabs, closing)
     /\ frames' = Without(frames, gone)
     /\ UNCHANGED opened

(* closeAllTabs, also run once when the page has loaded. *)
CloseAllTabs ==
  LET closing == {tabs[j] : j \in 2..Len(tabs)}
      gone == {f \in Elements(frames) : \E e \in closing : e.url = f.url}
  IN /\ tabs' = <<tabs[1]>>
     /\ frames' = Without(frames, gone)
     /\ active' = (active \ closing) \cup {tabs[1]}
     /\ visible' = {f \in Elements(frames') : f \in visible \/ f.url = tabs[1].url}
     /\ UNCHANGED opened

Next ==
  \/ \E u \in Url : \E isNew \in (IF AllowNew THEN BOOLEAN ELSE {FALSE}) :
       OpenTab(u, isNew)
  \/ \E i \in 1..Len(tabs) :
       \/ ActiveTab(i) \/ RefreshCurrentTab(i) \/ CloseTab(i)
       \/ CloseLeftTabs(i) \/ CloseRightTabs(i) \/ CloseOtherTabs(i)
  \/ CloseAllTabs

Spec == Init /\ [][Next]_vars

--------------------------------------------------------------------------------

TypeOK ==
  /\ Elements(tabs) \cup Elements(frames) \subseteq [url : Url, nr : 0..MaxOpen]
  /\ active \subseteq Elements(tabs)
  /\ visible \subseteq Elements(frames)
  /\ opened \in 0..MaxOpen

(* Exactly one tab is active, and the page the user sees is its page.       *)
ActiveShown ==
  /\ Cardinality(active) = 1
  /\ {f.url : f \in visible} = {t.url : t \in active}
  /\ Cardinality(visible) = 1

(* Tabs and iframes are paired, one of each per url.                        *)
Paired ==
  \A u \in Url : Len(OfUrl(tabs, u)) = Len(OfUrl(frames, u))

(* Though every handler removes, activates and shows tabs and iframes by    *)
(* separate statements, no page goes on running without its tab, and what   *)
(* getActiveTab() finds by visibility is what the strip highlights.         *)
FramesFollowTabs == ActiveShown /\ Paired

(* The tabs implement the strip: the pages open are the tabs' urls, the     *)
(* page shown is the visible iframe's.                                      *)
Strip == INSTANCE TabStrip WITH
  open <- {t.url : t \in Elements(tabs)},
  shown <- IF visible = {} THEN Home ELSE (CHOOSE f \in visible : TRUE).url
StripSpec == Strip!Spec
================================================================================
