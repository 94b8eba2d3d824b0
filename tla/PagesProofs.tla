------------------------------ MODULE PagesProofs ------------------------------
(***************************************************************************)
(* Proofs about two pages of the browser.                                  *)
(*                                                                         *)
(* The tabs of the main page (TabPage), for any number of pages and tabs,  *)
(* as long as openTab is never asked for a new tab of an address           *)
(* (AllowNew = FALSE): the strip and the iframes are the same list of one  *)
(* element per address, and the handlers implement TabStrip.               *)
(*                                                                         *)
(* The editor of a WeChat menu (WxMenuEditor), from every menu it may be   *)
(* opened with and whatever is clicked, added or deleted.                  *)
(***************************************************************************)
EXTENDS MCPages, FiniteSetTheorems, WellFoundedInduction, TLAPS

--------------------------------------------------------------------------------
(* Induction, in a form that needs no operator parameter, and what is left  *)
(* of a list from which entries are removed.                                *)

Below == {ss \in Nat \X Nat : ss[1] < ss[2]}

LEMMA BelowWF == IsWellFoundedOn(Below, Nat)
BY NatLessThanWellFounded DEF OpToRel, Below

LEMMA Induction ==
  ASSUME NEW S, 0 \in S, \A n \in Nat : n \in S => n + 1 \in S
  PROVE  Nat \subseteq S
<1> DEFINE T == Nat \ S
<1>1. SUFFICES ASSUME T # {} PROVE FALSE
  OBVIOUS
<1>2. PICK x \in T : \A y \in T : <<y, x>> \notin Below
  <2>1. T \subseteq Nat
    OBVIOUS
  <2> HIDE DEF T
  <2>2. QED
    BY <1>1, <2>1, BelowWF, WFMin
<1>3. x # 0 /\ x \in Nat
  OBVIOUS
<1>4. x - 1 \in Nat /\ (x - 1) + 1 = x
  BY <1>3
<1>5. x - 1 \in T
  BY <1>4
<1>6. <<x - 1, x>> \in Below
  BY <1>3, <1>4 DEF Below
<1>7. QED
  BY <1>2, <1>5, <1>6

UpTo(s, keep, n, f) ==
  f = [i \in 0..n |-> IF i = 0 THEN <<>>
                      ELSE IF s[i] \in keep THEN Append(f[i - 1], s[i]) ELSE f[i - 1]]

LEMMA UpToExists ==
  ASSUME NEW s, NEW keep
  PROVE  \A n \in Nat : \E f : UpTo(s, keep, n, f)
<1> DEFINE S == {n \in Nat : \E f : UpTo(s, keep, n, f)}
<1>1. 0 \in S
  <2>1. UpTo(s, keep, 0, [i \in 0..0 |-> <<>>])
    BY DEF UpTo
  <2>2. QED
    BY <2>1
<1>2. ASSUME NEW n \in Nat, n \in S PROVE n + 1 \in S
  <2>1. PICK f : UpTo(s, keep, n, f)
    BY <1>2
  <2> DEFINE last == IF s[n + 1] \in keep THEN Append(f[n], s[n + 1]) ELSE f[n]
             g == [i \in 0..n + 1 |-> IF i = n + 1 THEN last ELSE f[i]]
  <2>2. ASSUME NEW i \in 0..n + 1
        PROVE  g[i] = IF i = 0 THEN <<>>
                      ELSE IF s[i] \in keep THEN Append(g[i - 1], s[i]) ELSE g[i - 1]
    <3>1. CASE i = n + 1
      <4>1. g[i] = last /\ g[i - 1] = f[n] /\ i # 0
        BY <3>1
      <4> QED
        BY <3>1, <4>1
    <3>2. CASE i # n + 1 /\ i # 0
      <4>1. g[i] = f[i] /\ g[i - 1] = f[i - 1] /\ i \in 0..n
        BY <3>2
      <4>2. f[i] = IF s[i] \in keep THEN Append(f[i - 1], s[i]) ELSE f[i - 1]
        BY <2>1, <3>2, <4>1 DEF UpTo
      <4> QED
        BY <3>2, <4>1, <4>2
    <3>3. CASE i = 0
      <4>1. g[i] = f[i] /\ i \in 0..n
        BY <3>3
      <4>2. f[i] = <<>>
        BY <2>1, <3>3, <4>1 DEF UpTo
      <4> QED
        BY <3>3, <4>1, <4>2
    <3>4. QED
      BY <3>1, <3>2, <3>3
  <2>3. UpTo(s, keep, n + 1, g)
    <3> DEFINE h == [i \in 0..n + 1 |-> IF i = 0 THEN <<>>
                      ELSE IF s[i] \in keep THEN Append(g[i - 1], s[i]) ELSE g[i - 1]]
    <3>1. \A i \in 0..n + 1 : g[i] = h[i]
      BY <2>2
    <3>2. g = h
      BY <3>1
    <3>3. QED
      BY <3>2 DEF UpTo
  <2>4. QED
    BY <2>3
<1>3. QED
  <2> HIDE DEF S
  <2>1. Nat \subseteq S
    BY <1>1, <1>2, Induction
  <2> QED
    BY <2>1 DEF S

LEMMA SelectedIsUpTo ==
  ASSUME NEW s, NEW keep, Len(s) \in Nat
  PROVE  \E f : UpTo(s, keep, Len(s), f) /\ Selected(s, keep) = f[Len(s)]
<1>1. \E f : UpTo(s, keep, Len(s), f)
  BY UpToExists
<1>2. QED
  BY <1>1 DEF Selected, UpTo

(* No two entries are equal. *)
Distinct(s) == \A i, j \in 1..Len(s) : s[i] = s[j] => i = j

LEMMA ElementsAre ==
  ASSUME NEW E, NEW s \in Seq(E)
  PROVE  /\ Elements(s) = {s[i] : i \in 1..Len(s)} /\ Elements(s) \subseteq E
         /\ Len(s) \in Nat
BY DEF Elements, ToSet

LEMMA AppendOne ==
  ASSUME NEW E, NEW s \in Seq(E), NEW e \in E
  PROVE  /\ Append(s, e) \in Seq(E)
         /\ Elements(Append(s, e)) = Elements(s) \cup {e}
         /\ Distinct(s) /\ e \notin Elements(s) => Distinct(Append(s, e))
         /\ Len(s) >= 1 => Len(Append(s, e)) >= 1 /\ Append(s, e)[1] = s[1]
         /\ s = <<>> => Len(Append(s, e)) = 1 /\ Append(s, e)[1] = e
<1> DEFINE r == Append(s, e)
<1>1. /\ r \in Seq(E) /\ Len(s) \in Nat /\ Len(r) = Len(s) + 1
      /\ \A i \in 1..Len(s) : r[i] = s[i]
      /\ r[Len(s) + 1] = e
  OBVIOUS
<1>2. /\ Elements(r) = {r[i] : i \in 1..Len(r)}
      /\ Elements(s) = {s[i] : i \in 1..Len(s)}
  BY <1>1, ElementsAre
<1> HIDE DEF r
<1>3. \A i \in 1..Len(r) : i \in 1..Len(s) \/ i = Len(s) + 1
  BY <1>1
<1>4. Len(s) + 1 \in 1..Len(r) /\ \A i \in 1..Len(s) : i \in 1..Len(r)
  BY <1>1
<1>5. Elements(r) = Elements(s) \cup {e}
  BY <1>1, <1>2, <1>3, <1>4
<1>6. Distinct(s) /\ e \notin Elements(s) => Distinct(r)
  <2>1. SUFFICES ASSUME Distinct(s), e \notin Elements(s),
                        NEW i \in 1..Len(r), NEW j \in 1..Len(r), r[i] = r[j]
                 PROVE  i = j
    BY DEF Distinct
  <2>2. CASE i \in 1..Len(s) /\ j \in 1..Len(s)
    BY <1>1, <2>1, <2>2 DEF Distinct
  <2>3. CASE i = Len(s) + 1 /\ j \in 1..Len(s)
    BY <1>1, <1>2, <2>1, <2>3
  <2>4. CASE j = Len(s) + 1 /\ i \in 1..Len(s)
    BY <1>1, <1>2, <2>1, <2>4
  <2>5. QED
    BY <1>3, <2>2, <2>3, <2>4
<1>7. Len(s) >= 1 => Len(r) >= 1 /\ r[1] = s[1]
  BY <1>1
<1>8. s = <<>> => Len(r) = 1 /\ r[1] = e
  BY <1>1
<1>9. QED
  BY <1>1, <1>5, <1>6, <1>7, <1>8 DEF r

(* Selecting keeps exactly the wanted elements; it makes no duplicates and  *)
(* leaves a first entry that is wanted in its place.                        *)
LEMMA SelectedGives ==
  ASSUME NEW E, NEW s \in Seq(E), NEW keep
  PROVE  /\ Selected(s, keep) \in Seq(E)
         /\ Elements(Selected(s, keep)) = Elements(s) \cap keep
         /\ Distinct(s) => Distinct(Selected(s, keep))
         /\ Len(s) >= 1 /\ s[1] \in keep =>
              Len(Selected(s, keep)) >= 1 /\ Selected(s, keep)[1] = s[1]
<1>1. PICK f : UpTo(s, keep, Len(s), f) /\ Selected(s, keep) = f[Len(s)]
  BY SelectedIsUpTo
<1> DEFINE P(i) == /\ f[i] \in Seq(E)
                   /\ Elements(f[i]) = {s[j] : j \in 1..i} \cap keep
                   /\ Distinct(s) => Distinct(f[i])
                   /\ i >= 1 /\ s[1] \in keep => Len(f[i]) >= 1 /\ f[i][1] = s[1]
           S == {i \in Nat : i <= Len(s) => P(i)}
<1>2. 0 \in S
  <2>1. f[0] = <<>>
    BY <1>1 DEF UpTo
  <2>2. /\ Elements(<<>>) = {} /\ {s[j] : j \in 1..0} = {} /\ <<>> \in Seq(E)
        /\ Distinct(<<>>)
    <3>1. 1..0 = {} /\ Len(<<>>) = 0 /\ <<>> \in Seq(E)
      OBVIOUS
    <3>2. Elements(<<>>) = {}
      BY <3>1 DEF Elements, ToSet
    <3>3. QED
      BY <3>1, <3>2 DEF Distinct
  <2>3. P(0)
    BY <2>1, <2>2
  <2>4. QED
    BY <2>3
<1>3. ASSUME NEW i \in Nat, i \in S PROVE i + 1 \in S
  <2>1. SUFFICES ASSUME i + 1 <= Len(s) PROVE P(i + 1)
    OBVIOUS
  <2>2. P(i) /\ i + 1 \in 0..Len(s) /\ i + 1 # 0 /\ (i + 1) - 1 = i
    BY <1>3, <2>1
  <2>3. f[i + 1] = IF s[i + 1] \in keep THEN Append(f[i], s[i + 1]) ELSE f[i]
    BY <1>1, <2>2 DEF UpTo
  <2> DEFINE r == f[i]  e == s[i + 1]  t == f[i + 1]
  <2>4. e \in E
    BY <2>2
  <2>5. {s[j] : j \in 1..(i + 1)} = {s[j] : j \in 1..i} \cup {e}
    BY <2>2
  <2>6. Distinct(s) => e \notin {s[j] : j \in 1..i}
    <3>1. SUFFICES ASSUME Distinct(s), NEW j \in 1..i, s[j] = e PROVE FALSE
      OBVIOUS
    <3>2. j \in 1..Len(s) /\ i + 1 \in 1..Len(s) /\ j # i + 1
      BY <2>2, <3>1
    <3>3. QED
      BY <3>1, <3>2 DEF Distinct
  <2>7. CASE e \in keep
    <3>1. t = Append(r, e) /\ r \in Seq(E)
      BY <2>2, <2>3, <2>7
    <3>2. Elements(r) = {s[j] : j \in 1..i} \cap keep
      BY <2>2
    <3>3. /\ t \in Seq(E) /\ Elements(t) = Elements(r) \cup {e}
          /\ Distinct(r) /\ e \notin Elements(r) => Distinct(t)
          /\ Len(r) >= 1 => Len(t) >= 1 /\ t[1] = r[1]
          /\ r = <<>> => Len(t) = 1 /\ t[1] = e
      BY <2>4, <3>1, AppendOne
    <3>4. Elements(t) = {s[j] : j \in 1..(i + 1)} \cap keep
      BY <2>5, <2>7, <3>2, <3>3
    <3>5. Distinct(s) => Distinct(t)
      BY <2>2, <2>6, <3>2, <3>3
    <3>6. s[1] \in keep => Len(t) >= 1 /\ t[1] = s[1]
      <4>1. CASE i = 0
        <5>1. r = <<>> /\ e = s[1]
          BY <1>1, <4>1 DEF UpTo
        <5>2. QED
          BY <3>3, <5>1
      <4>2. CASE i # 0
        <5>1. i >= 1
          BY <4>2
        <5>2. QED
          BY <2>2, <3>3, <5>1
      <4>3. QED
        BY <4>1, <4>2
    <3>7. QED
      BY <3>3, <3>4, <3>5, <3>6
  <2>8. CASE e \notin keep
    <3>1. t = r
      BY <2>3, <2>8
    <3>2. s[1] \in keep => i >= 1
      <4>1. i = 0 => e = s[1]
        OBVIOUS
      <4>2. QED
        BY <2>8, <4>1
    <3>3. {s[j] : j \in 1..(i + 1)} \cap keep = {s[j] : j \in 1..i} \cap keep
      BY <2>5, <2>8
    <3>4. QED
      BY <2>2, <3>1, <3>2, <3>3
  <2>9. QED
    BY <2>7, <2>8
<1>4. P(Len(s))
  <2> HIDE DEF S
  <2>1. Nat \subseteq S
    BY <1>2, <1>3, Induction
  <2>2. Len(s) \in S
    BY <2>1
  <2> QED
    BY <2>2 DEF S
<1>5. Elements(s) = {s[j] : j \in 1..Len(s)}
  BY ElementsAre
<1>6. QED
  BY <1>1, <1>4, <1>5

--------------------------------------------------------------------------------
(* The inductive invariant.                                                 *)

TabType == [url : Url, nr : 0..MaxOpen]

(* One element per address, the home page's first. *)
OnePerUrl ==
  /\ tabs \in Seq(TabType) /\ Len(tabs) >= 1 /\ tabs[1] = El(Home, 0)
  /\ Distinct(tabs)
  /\ \A e, g \in Elements(tabs) : e.url = g.url => e = g

(* The iframes are the tabs' and stand in their order; one of them is the   *)
(* active tab and the visible iframe.                                       *)
InStep ==
  /\ frames = tabs /\ visible = active
  /\ \E t \in Elements(tabs) : active = {t}

TabInv == OnePerUrl /\ InStep /\ opened \in 0..MaxOpen

--------------------------------------------------------------------------------
(* What the handlers find by the address of a tab.                          *)

LEMMA TabsAre ==
  ASSUME OnePerUrl
  PROVE  /\ Elements(tabs) = {tabs[i] : i \in 1..Len(tabs)}
         /\ Elements(tabs) \subseteq TabType /\ Len(tabs) \in Nat
         /\ tabs[1] \in Elements(tabs)
<1>1. /\ Elements(tabs) = {tabs[i] : i \in 1..Len(tabs)}
      /\ Elements(tabs) \subseteq TabType /\ Len(tabs) \in Nat
  BY ElementsAre DEF OnePerUrl
<1>2. 1 \in 1..Len(tabs)
  BY <1>1 DEF OnePerUrl
<1>3. QED
  BY <1>1, <1>2

LEMMA OfUrlOfNone ==
  ASSUME OnePerUrl, NEW u, \A e \in Elements(tabs) : e.url # u
  PROVE  OfUrl(tabs, u) = <<>>
<1> DEFINE s == OfUrl(tabs, u)
<1>1. s \in Seq(TabType) /\ Elements(s) = {}
  <2> DEFINE keep == {e \in Elements(tabs) : e.url = u}
  <2>1. keep = {} /\ s = Selected(tabs, keep) /\ tabs \in Seq(TabType)
    BY DEF OfUrl, OnePerUrl
  <2> HIDE DEF keep, s
  <2>2. s \in Seq(TabType) /\ Elements(s) = Elements(tabs) \cap keep
    BY <2>1, SelectedGives
  <2>3. QED
    BY <2>1, <2>2
<1> HIDE DEF s
<1>2. Elements(s) = {s[i] : i \in 1..Len(s)} /\ Len(s) \in Nat
  BY <1>1, ElementsAre
<1>3. Len(s) = 0
  <2>1. SUFFICES ASSUME Len(s) # 0 PROVE FALSE
    OBVIOUS
  <2>2. 1 \in 1..Len(s)
    BY <1>2, <2>1
  <2>3. QED
    BY <1>1, <1>2, <2>2
<1>4. QED
  BY <1>1, <1>3 DEF s

LEMMA OfUrlOfOne ==
  ASSUME OnePerUrl, NEW t \in Elements(tabs)
  PROVE  /\ OfUrl(tabs, t.url) # <<>>
         /\ Head(OfUrl(tabs, t.url)) = t /\ Last(OfUrl(tabs, t.url)) = t
<1> DEFINE s == OfUrl(tabs, t.url)
<1>1. s \in Seq(TabType) /\ Elements(s) = {t}
  BY SelectedGives DEF OfUrl, OnePerUrl
<1> HIDE DEF s
<1>2. Elements(s) = {s[i] : i \in 1..Len(s)} /\ Len(s) \in Nat
  BY <1>1, ElementsAre
<1>3. Len(s) # 0
  <2>1. SUFFICES ASSUME Len(s) = 0 PROVE FALSE
    OBVIOUS
  <2>2. 1..Len(s) = {}
    BY <2>1
  <2>3. QED
    BY <1>1, <1>2, <2>2
<1>4. 1 \in 1..Len(s) /\ Len(s) \in 1..Len(s)
  BY <1>2, <1>3
<1>5. s[1] = t /\ s[Len(s)] = t
  BY <1>1, <1>2, <1>4
<1>6. Head(s) = s[1] /\ Last(s) = s[Len(s)] /\ s # <<>>
  BY <1>1, <1>3 DEF Last
<1>7. QED
  BY <1>5, <1>6 DEF s

(* Showing the iframe of a tab shows the tab's own. *)
LEMMA ShowsItsOwn ==
  ASSUME OnePerUrl, NEW t \in Elements(tabs), NEW before
  PROVE  ShowFirst(tabs, t.url, before) = {t} /\ ShowLast(tabs, t.url, before) = {t}
BY OfUrlOfOne DEF ShowFirst, ShowLast

(* setActiveTab leaves one tab active and its iframe visible. *)
LEMMA SetGives ==
  ASSUME TabInv, NEW t \in Elements(tabs)
  PROVE  /\ ActiveAfterSet(t) = {t}
         /\ VisibleAfterSet(t, frames, active, visible) = {t}
<1>1. OnePerUrl /\ frames = tabs /\ visible = active
  BY DEF TabInv, InStep
<1>2. PICK a \in Elements(tabs) : active = {a}
  BY DEF TabInv, InStep
<1>3. ShowLast(frames, t.url, visible) = {t}
  BY <1>1, ShowsItsOwn
<1>4. QED
  BY <1>1, <1>2, <1>3 DEF ActiveAfterSet, VisibleAfterSet

(* Removing elements other than the first keeps one element per address. *)
LEMMA RemovalKeeps ==
  ASSUME OnePerUrl, NEW gone, tabs[1] \notin gone, tabs' = Without(tabs, gone)
  PROVE  OnePerUrl' /\ Elements(tabs') = Elements(tabs) \ gone
<1> DEFINE keep == Elements(tabs) \ gone
<1>1. tabs[1] \in keep
  BY TabsAre
<1>2. tabs' = Selected(tabs, keep)
  BY DEF Without
<1> HIDE DEF keep
<1>3. /\ tabs \in Seq(TabType) /\ Len(tabs) >= 1 /\ Distinct(tabs)
      /\ tabs[1] = El(Home, 0)
  BY DEF OnePerUrl
<1>4. /\ tabs' \in Seq(TabType) /\ Elements(tabs') = Elements(tabs) \cap keep
      /\ Distinct(tabs') /\ Len(tabs') >= 1 /\ tabs'[1] = tabs[1]
  <2> DEFINE r == Selected(tabs, keep)
  <2>1. /\ r \in Seq(TabType) /\ Elements(r) = Elements(tabs) \cap keep
        /\ Distinct(r) /\ Len(r) >= 1 /\ r[1] = tabs[1]
    BY <1>1, <1>3, SelectedGives
  <2>2. tabs' = r
    BY <1>2
  <2> HIDE DEF r
  <2>3. QED
    BY <2>1, <2>2
<1>5. \A e, g \in Elements(tabs') : e.url = g.url => e = g
  BY <1>4 DEF OnePerUrl
<1>6. QED
  BY <1>3, <1>4, <1>5 DEF OnePerUrl, keep

--------------------------------------------------------------------------------
(* The handlers keep the invariant; what each does to the strip.            *)

shownUrl == IF visible = {} THEN Home ELSE (CHOOSE f \in visible : TRUE).url
openUrls == {t.url : t \in Elements(tabs)}

LEMMA ShownIs ==
  ASSUME NEW t, active = {t}, visible = active
  PROVE  shownUrl = t.url
BY DEF shownUrl

LEMMA ShownIsNext ==
  ASSUME NEW t, active' = {t}, visible' = active'
  PROVE  shownUrl' = t.url
BY DEF shownUrl

(* Activating a tab by a click or by setActiveTab. *)
LEMMA ActivateStep ==
  ASSUME TabInv, NEW t \in Elements(tabs), active' = {t}, visible' = {t},
         UNCHANGED <<tabs, frames, opened>>
  PROVE  /\ TabInv'
         /\ t.url \in Url /\ openUrls' = openUrls \cup {t.url} /\ shownUrl' = t.url
<1>1. TabInv'
  BY DEF TabInv, OnePerUrl, InStep
<1>2. t.url \in Url /\ openUrls' = openUrls \cup {t.url}
  BY TabsAre DEF TabInv, TabType, openUrls
<1>3. QED
  BY <1>1, <1>2, ShownIsNext

LEMMA ActiveTabStep ==
  ASSUME TabInv, NEW i \in 1..Len(tabs), ActiveTab(i)
  PROVE  /\ TabInv'
         /\ \E u \in Url : openUrls' = openUrls \cup {u} /\ shownUrl' = u
<1>1. tabs[i] \in Elements(tabs)
  BY TabsAre DEF TabInv
<1>2. active' = {tabs[i]} /\ visible' = {tabs[i]} /\ UNCHANGED <<tabs, frames, opened>>
  BY <1>1, ShowsItsOwn DEF ActiveTab, TabInv, InStep
<1>3. QED
  BY <1>1, <1>2, ActivateStep

LEMMA RefreshStep ==
  ASSUME TabInv, NEW i \in 1..Len(tabs), RefreshCurrentTab(i)
  PROVE  /\ TabInv'
         /\ \E u \in Url : openUrls' = openUrls \cup {u} /\ shownUrl' = u
<1>1. tabs[i] \in Elements(tabs)
  BY TabsAre DEF TabInv
<1>2. active' = {tabs[i]} /\ visible' = {tabs[i]} /\ UNCHANGED <<tabs, frames, opened>>
  BY <1>1, SetGives DEF RefreshCurrentTab
<1>3. QED
  BY <1>1, <1>2, ActivateStep

(* openTab shows the address, in the tab it has or in a new one. *)
LEMMA OpenTabStep ==
  ASSUME TabInv, NEW u \in Url, OpenTab(u, FALSE)
  PROVE  TabInv' /\ openUrls' = openUrls \cup {u} /\ shownUrl' = u
<1>0. OnePerUrl /\ frames = tabs /\ visible = active /\ opened \in 0..MaxOpen
  BY DEF TabInv, InStep
<1>1. CASE \E t \in Elements(tabs) : t.url = u
  <2>1. PICK t \in Elements(tabs) : t.url = u
    BY <1>1
  <2>2. Found(u, FALSE) /\ Head(OfUrl(tabs, u)) = t
    BY <1>0, <2>1, OfUrlOfOne DEF Found
  <2>3. ShowFirst(frames, u, visible) = {t}
    BY <1>0, <2>1, ShowsItsOwn
  <2>4. /\ UNCHANGED <<tabs, frames, opened>>
        /\ IF t \in active THEN UNCHANGED <<active, visible>>
           ELSE active' = {t} /\ visible' = {t}
    BY <2>2, <2>3 DEF OpenTab
  <2>5. active' = {t} /\ visible' = {t}
    BY <1>0, <2>4 DEF TabInv, InStep
  <2>6. QED
    BY <2>1, <2>4, <2>5, ActivateStep
<1>2. CASE \A t \in Elements(tabs) : t.url # u
  <2> DEFINE e == El(u, opened + 1)
  <2>1. ~Found(u, FALSE)
    BY <1>0, <1>2, OfUrlOfNone DEF Found
  <2>2. /\ opened < MaxOpen /\ opened' = opened + 1
        /\ tabs' = Append(tabs, e) /\ frames' = Append(frames, e)
        /\ active' = {e} /\ visible' = {e}
    BY <2>1 DEF OpenTab
  <2>3. opened' \in 0..MaxOpen /\ e \in TabType /\ e.url = u
    <3>1. opened + 1 \in 0..MaxOpen
      BY <1>0, <2>2, TabAssumption
    <3>2. QED
      BY <2>2, <3>1 DEF TabType, El
  <2> HIDE DEF e
  <2>4. /\ tabs \in Seq(TabType) /\ Len(tabs) >= 1 /\ Distinct(tabs)
        /\ tabs[1] = El(Home, 0) /\ e \notin Elements(tabs)
    BY <1>0, <1>2, <2>3 DEF OnePerUrl
  <2> DEFINE r == Append(tabs, e)
  <2>5. /\ r \in Seq(TabType) /\ Elements(r) = Elements(tabs) \cup {e}
        /\ Distinct(r) /\ Len(r) >= 1 /\ r[1] = El(Home, 0)
    BY <2>3, <2>4, AppendOne
  <2>6. \A a, b \in Elements(r) : a.url = b.url => a = b
    BY <1>0, <1>2, <2>3, <2>5 DEF OnePerUrl
  <2>7. tabs' = r
    BY <2>2
  <2> HIDE DEF r
  <2>8. OnePerUrl'
    BY <2>5, <2>6, <2>7 DEF OnePerUrl
  <2>9. InStep'
    BY <1>0, <2>2, <2>5, <2>7 DEF InStep
  <2>10. openUrls' = openUrls \cup {u}
    BY <2>3, <2>5, <2>7 DEF openUrls
  <2>11. shownUrl' = u
    BY <2>2, <2>3, ShownIsNext
  <2>12. QED
    BY <2>3, <2>8, <2>9, <2>10, <2>11 DEF TabInv
<1>3. QED
  BY <1>1, <1>2

(* Tabs that are closed take their own iframes with them: the elements of   *)
(* their addresses are theirs.                                              *)
LEMMA GoneAre ==
  ASSUME TabInv, NEW closing \in SUBSET Elements(tabs)
  PROVE  {f \in Elements(frames) : \E e \in closing : e.url = f.url} = closing
BY DEF TabInv, OnePerUrl, InStep

(* Closing tabs other than the first, one that stays being active after.    *)
LEMMA ClosingStep ==
  ASSUME TabInv, NEW closing \in SUBSET Elements(tabs), tabs[1] \notin closing,
         NEW t \in Elements(tabs) \ closing,
         tabs' = Without(tabs, closing), frames' = Without(frames, closing),
         active' = {t}, visible' = {t}, opened' = opened
  PROVE  /\ TabInv' /\ Elements(tabs') = Elements(tabs) \ closing
         /\ openUrls' = openUrls \ {e.url : e \in closing}
         /\ shownUrl' = t.url /\ t.url \in openUrls'
         /\ Home \notin {e.url : e \in closing}
<1>0. OnePerUrl /\ frames = tabs /\ opened \in 0..MaxOpen
  BY DEF TabInv, InStep
<1>1. OnePerUrl' /\ Elements(tabs') = Elements(tabs) \ closing
  BY <1>0, RemovalKeeps
<1>2. InStep'
  BY <1>0, <1>1 DEF InStep
<1>3. openUrls' = openUrls \ {e.url : e \in closing}
  BY <1>0, <1>1 DEF openUrls, OnePerUrl
<1>4. shownUrl' = t.url /\ t.url \in openUrls'
  BY <1>1, ShownIsNext DEF openUrls
<1>5. Home \notin {e.url : e \in closing}
  <2>1. tabs[1] \in Elements(tabs) /\ tabs[1].url = Home
    BY <1>0, TabsAre DEF OnePerUrl, El
  <2>2. QED
    BY <1>0, <2>1 DEF OnePerUrl
<1>6. QED
  BY <1>0, <1>1, <1>2, <1>3, <1>4, <1>5 DEF TabInv

(* What a handler that closes tabs does to the strip (TabStrip!Close). *)
Closes(pages) ==
  /\ Home \notin pages /\ pages \subseteq openUrls
  /\ openUrls' = openUrls \ pages
  /\ shownUrl' \in IF shownUrl \in pages THEN openUrls' ELSE {shownUrl}

(* ... and one that keeps the first tab and one other (TabStrip!Keep). *)
Keeps(pages, u) ==
  /\ u \in pages /\ Home \in pages /\ pages \subseteq openUrls
  /\ openUrls' = pages /\ shownUrl' = u

(* Two places of the strip never hold the same element. *)
LEMMA PlacesDiffer ==
  ASSUME OnePerUrl, NEW i \in 1..Len(tabs), NEW j \in 1..Len(tabs), i # j
  PROVE  tabs[i] # tabs[j]
BY DEF OnePerUrl, Distinct

LEMMA CloseTabStep ==
  ASSUME TabInv, NEW i \in 1..Len(tabs), CloseTab(i)
  PROVE  TabInv' /\ \E pages : Closes(pages)
<1> DEFINE t == tabs[i]
           heir == IF i < Len(tabs) THEN tabs[i + 1] ELSE tabs[i - 1]
<1>0. /\ OnePerUrl /\ frames = tabs /\ visible = active
      /\ Len(tabs) \in Nat /\ i > 1
  BY TabsAre DEF TabInv, InStep, CloseTab
<1>1. t \in Elements(tabs) /\ heir \in Elements(tabs) /\ heir # t /\ tabs[1] # t
  <2>1. /\ 1 \in 1..Len(tabs) /\ i # 1
        /\ i < Len(tabs) => i + 1 \in 1..Len(tabs) /\ i + 1 # i
        /\ i - 1 \in 1..Len(tabs) /\ i - 1 # i
    BY <1>0
  <2>2. /\ tabs[1] # t /\ t \in Elements(tabs)
        /\ i < Len(tabs) => tabs[i + 1] # t /\ tabs[i + 1] \in Elements(tabs)
        /\ tabs[i - 1] # t /\ tabs[i - 1] \in Elements(tabs)
    BY <1>0, <2>1, TabsAre, PlacesDiffer
  <2>3. QED
    BY <2>2
<1>2. OfUrl(frames, t.url) # <<>> /\ Head(OfUrl(frames, t.url)) = t
  BY <1>0, <1>1, OfUrlOfOne
<1>3. ShowFirst(frames, heir.url, visible) = {heir}
  BY <1>0, <1>1, ShowsItsOwn
<1>4. /\ tabs' = Without(tabs, {t}) /\ frames' = Without(frames, {t})
      /\ IF t \in active
         THEN active' = (active \ {t}) \cup {heir} /\ visible' = {heir} \ {t}
         ELSE active' = active /\ visible' = visible \ {t}
      /\ opened' = opened
  BY <1>2, <1>3 DEF CloseTab
<1> HIDE DEF t, heir
<1>5. PICK a \in Elements(tabs) : active = {a}
  BY DEF TabInv, InStep
<1> DEFINE b == IF a = t THEN heir ELSE a
<1>6. b \in Elements(tabs) \ {t} /\ active' = {b} /\ visible' = {b}
  BY <1>0, <1>1, <1>4, <1>5
<1> DEFINE pages == {e.url : e \in {t}}
<1>7. /\ TabInv' /\ openUrls' = openUrls \ pages
      /\ shownUrl' = b.url /\ b.url \in openUrls' /\ Home \notin pages
  BY <1>1, <1>4, <1>6, ClosingStep
<1>8. shownUrl = a.url
  BY <1>0, <1>5, ShownIs
<1>9. Closes(pages)
  <2>1. pages \subseteq openUrls
    BY <1>1 DEF openUrls
  <2>2. shownUrl \notin pages => b = a
    BY <1>8
  <2>3. QED
    BY <1>7, <1>8, <2>1, <2>2 DEF Closes
<1>10. QED
  BY <1>7, <1>9

(* closeLeftTabs and closeRightTabs: the tab of the menu is not closed. *)
LEMMA CloseAroundStep ==
  ASSUME TabInv, NEW t \in Elements(tabs), NEW closing \in SUBSET Elements(tabs),
         t \notin closing, tabs[1] \notin closing, CloseAround(t, closing)
  PROVE  TabInv' /\ \E pages : Closes(pages)
<1>0. OnePerUrl /\ frames = tabs /\ visible = active
  BY DEF TabInv, InStep
<1> DEFINE pages == {e.url : e \in closing}
<1>1. {f \in Elements(frames) : f.url \in pages} = closing
  BY <1>0 DEF OnePerUrl
<1>2. PICK a \in Elements(tabs) : active = {a}
  BY DEF TabInv, InStep
<1>3. /\ ActiveAfterSet(t) = {t}
      /\ VisibleAfterSet(t, frames, active, visible) = {t}
  BY SetGives
<1> DEFINE b == IF a \in closing THEN t ELSE a
<1>4. /\ tabs' = Without(tabs, closing) /\ frames' = Without(frames, closing)
      /\ active' = {b} \ closing /\ visible' = {b} \ closing /\ opened' = opened
  <2>1. closing \cap active # {} <=> a \in closing
    BY <1>2
  <2>2. QED
    BY <1>0, <1>1, <1>2, <1>3, <2>1 DEF CloseAround
<1>5. b \in Elements(tabs) \ closing /\ active' = {b} /\ visible' = {b}
  BY <1>4
<1>6. /\ TabInv' /\ openUrls' = openUrls \ pages
      /\ shownUrl' = b.url /\ b.url \in openUrls' /\ Home \notin pages
  BY <1>4, <1>5, ClosingStep
<1>7. shownUrl = a.url
  BY <1>0, <1>2, ShownIs
<1>8. Closes(pages)
  <2>1. pages \subseteq openUrls
    BY DEF openUrls
  <2>2. shownUrl \notin pages => b = a
    BY <1>7
  <2>3. QED
    BY <1>6, <1>7, <2>1, <2>2 DEF Closes
<1>9. QED
  BY <1>6, <1>8

LEMMA CloseLeftStep ==
  ASSUME TabInv, NEW i \in 1..Len(tabs), CloseLeftTabs(i)
  PROVE  TabInv' /\ \E pages : Closes(pages)
<1> DEFINE closing == {tabs[j] : j \in 2..(i - 1)}
<1>0. OnePerUrl /\ Len(tabs) \in Nat /\ 1 \in 1..Len(tabs)
  BY TabsAre DEF TabInv
<1>1. \A j \in 2..(i - 1) : j \in 1..Len(tabs) /\ j # i /\ j # 1
  BY <1>0
<1>2. /\ tabs[i] \in Elements(tabs) /\ closing \subseteq Elements(tabs)
      /\ tabs[i] \notin closing /\ tabs[1] \notin closing
  BY <1>0, <1>1, TabsAre, PlacesDiffer
<1>3. CloseAround(tabs[i], closing)
  BY DEF CloseLeftTabs
<1> HIDE DEF closing
<1>4. QED
  BY <1>2, <1>3, CloseAroundStep

LEMMA CloseRightStep ==
  ASSUME TabInv, NEW i \in 1..Len(tabs), CloseRightTabs(i)
  PROVE  TabInv' /\ \E pages : Closes(pages)
<1> DEFINE closing == {tabs[j] : j \in (i + 1)..Len(tabs)}
<1>0. OnePerUrl /\ Len(tabs) \in Nat /\ 1 \in 1..Len(tabs)
  BY TabsAre DEF TabInv
<1>1. \A j \in (i + 1)..Len(tabs) : j \in 1..Len(tabs) /\ j # i /\ j # 1
  BY <1>0
<1>2. /\ tabs[i] \in Elements(tabs) /\ closing \subseteq Elements(tabs)
      /\ tabs[i] \notin closing /\ tabs[1] \notin closing
  BY <1>0, <1>1, TabsAre, PlacesDiffer
<1>3. CloseAround(tabs[i], closing)
  BY DEF CloseRightTabs
<1> HIDE DEF closing
<1>4. QED
  BY <1>2, <1>3, CloseAroundStep

LEMMA CloseOtherStep ==
  ASSUME TabInv, NEW i \in 1..Len(tabs), CloseOtherTabs(i)
  PROVE  TabInv' /\ \E pages : \E u : Keeps(pages, u)
<1> DEFINE t == tabs[i]
           closing == {tabs[j] : j \in 2..Len(tabs)} \ {t}
<1>0. /\ OnePerUrl /\ frames = tabs /\ visible = active
      /\ Len(tabs) \in Nat /\ 1 \in 1..Len(tabs)
  BY TabsAre DEF TabInv, InStep
<1>1. \A j \in 2..Len(tabs) : j \in 1..Len(tabs) /\ j # 1
  BY <1>0
<1>2. /\ t \in Elements(tabs) /\ closing \subseteq Elements(tabs)
      /\ tabs[1] \notin closing /\ tabs[1] \in Elements(tabs)
      /\ Elements(tabs) \ closing = {tabs[1], t}
  <2>1. /\ t \in Elements(tabs) /\ closing \subseteq Elements(tabs)
        /\ tabs[1] \notin closing /\ tabs[1] \in Elements(tabs)
    BY <1>0, <1>1, TabsAre, PlacesDiffer
  <2>2. \A j \in 1..Len(tabs) : j = 1 \/ j \in 2..Len(tabs)
    BY <1>0
  <2>3. Elements(tabs) \ closing \subseteq {tabs[1], t}
    BY <1>0, <2>2, TabsAre
  <2>4. QED
    BY <2>1, <2>3
<1>3. /\ ActiveAfterSet(t) = {t}
      /\ VisibleAfterSet(t, frames, active, visible) = {t}
  BY <1>2, SetGives
<1>4. {f \in Elements(frames) : \E e \in closing : e.url = f.url} = closing
  BY <1>2, GoneAre
<1>5. /\ tabs' = Without(tabs, closing) /\ frames' = Without(frames, closing)
      /\ active' = {t} /\ visible' = {t} \ closing /\ opened' = opened
  <2> DEFINE cl == {tabs[j] : j \in 2..Len(tabs)} \ ActiveAfterSet(t)
             gone == {f \in Elements(frames) : \E e \in cl : e.url = f.url}
  <2>1. cl = closing
    BY <1>3
  <2>2. gone = closing
    BY <1>4, <2>1
  <2>3. /\ tabs' = Without(tabs, cl) /\ frames' = Without(frames, gone)
        /\ active' = ActiveAfterSet(t) /\ opened' = opened
        /\ visible' = VisibleAfterSet(t, frames, active, visible) \ gone
    BY DEF CloseOtherTabs
  <2> HIDE DEF cl, gone, closing, t
  <2>4. QED
    BY <1>3, <2>1, <2>2, <2>3
<1>6. t \notin closing
  OBVIOUS
<1> HIDE DEF t, closing
<1>7. /\ TabInv' /\ Elements(tabs') = Elements(tabs) \ closing
      /\ openUrls' = openUrls \ {e.url : e \in closing} /\ shownUrl' = t.url
  <2>1. visible' = {t} /\ t \in Elements(tabs) \ closing
    BY <1>2, <1>5, <1>6
  <2>2. QED
    BY <1>2, <1>5, <2>1, ClosingStep
<1>8. Keeps({Home, t.url}, t.url)
  <2>1. tabs[1].url = Home
    BY <1>0 DEF OnePerUrl, El
  <2>2. openUrls' = {Home, t.url}
    BY <1>2, <1>7, <2>1 DEF openUrls
  <2>3. Home \in openUrls /\ t.url \in openUrls
    BY <1>2, <2>1 DEF openUrls
  <2>4. QED
    BY <1>7, <2>2, <2>3 DEF Keeps
<1>9. QED
  BY <1>7, <1>8

(* What is left of the iframes is the first one alone. *)
LEMMA OnlyFirst ==
  ASSUME NEW E, NEW s \in Seq(E), Distinct(s), Len(s) >= 1,
         NEW e, Elements(s) = {e}
  PROVE  s = <<e>>
<1>1. Elements(s) = {s[i] : i \in 1..Len(s)} /\ Len(s) \in Nat
  BY ElementsAre
<1>2. 1 \in 1..Len(s) /\ s[1] = e
  <2>1. 1 \in 1..Len(s)
    BY <1>1
  <2>2. QED
    BY <1>1, <2>1
<1>3. Len(s) = 1
  <2>1. SUFFICES ASSUME Len(s) # 1 PROVE FALSE
    OBVIOUS
  <2>2. 2 \in 1..Len(s)
    <3>1. Len(s) \in Nat /\ Len(s) >= 1 /\ Len(s) # 1
      BY <1>1, <2>1
    <3>2. QED
      BY <3>1
  <2>3. s[2] = e
    BY <1>1, <2>2
  <2>4. QED
    BY <1>2, <2>2, <2>3 DEF Distinct
<1>4. QED
  BY <1>2, <1>3

LEMMA CloseAllStep ==
  ASSUME TabInv, CloseAllTabs
  PROVE  TabInv' /\ Keeps({Home}, Home)
<1> DEFINE t == tabs[1]
           closing == {tabs[j] : j \in 2..Len(tabs)}
<1>0. /\ OnePerUrl /\ frames = tabs /\ visible = active
      /\ Len(tabs) \in Nat /\ 1 \in 1..Len(tabs)
  BY TabsAre DEF TabInv, InStep
<1>1. \A j \in 2..Len(tabs) : j \in 1..Len(tabs) /\ j # 1
  BY <1>0
<1>2. /\ t \in Elements(tabs) /\ closing \subseteq Elements(tabs) /\ t \notin closing
      /\ Elements(tabs) \ closing = {t}
  <2>1. t \in Elements(tabs) /\ closing \subseteq Elements(tabs) /\ t \notin closing
    BY <1>0, <1>1, TabsAre, PlacesDiffer
  <2>2. \A j \in 1..Len(tabs) : j = 1 \/ j \in 2..Len(tabs)
    BY <1>0
  <2>3. QED
    BY <1>0, <2>1, <2>2, TabsAre
<1>3. {f \in Elements(frames) : \E e \in closing : e.url = f.url} = closing
  BY <1>2, GoneAre
<1>4. /\ tabs' = <<t>> /\ frames' = Without(frames, closing)
      /\ active' = (active \ closing) \cup {t}
      /\ visible' = {f \in Elements(frames') : f \in visible \/ f.url = t.url}
      /\ opened' = opened
  BY <1>3 DEF CloseAllTabs
<1>5. t = El(Home, 0) /\ t.url = Home /\ t \in TabType
  BY <1>0, <1>2, TabsAre DEF OnePerUrl, El
<1> HIDE DEF t, closing
<1>6. frames' = <<t>>
  <2> DEFINE keep == Elements(tabs) \ closing  r == Selected(tabs, keep)
  <2>1. tabs \in Seq(TabType) /\ Distinct(tabs) /\ Len(tabs) >= 1 /\ tabs[1] \in keep
    BY <1>0, <1>2 DEF OnePerUrl, t
  <2>2. r \in Seq(TabType) /\ Elements(r) = Elements(tabs) \cap keep
        /\ Distinct(r) /\ Len(r) >= 1
    <3> HIDE DEF keep
    <3>1. QED
      BY <2>1, SelectedGives
  <2>3. Elements(r) = {t}
    BY <1>2, <2>2
  <2>4. frames' = r
    BY <1>0, <1>4 DEF Without
  <2> HIDE DEF r
  <2>5. QED
    BY <2>2, <2>3, <2>4, OnlyFirst
<1>7. /\ <<t>> \in Seq(TabType) /\ Len(<<t>>) = 1 /\ <<t>>[1] = t
      /\ Elements(<<t>>) = {t}
  <2>1. <<t>> \in Seq(TabType) /\ Len(<<t>>) = 1 /\ <<t>>[1] = t /\ 1..1 = {1}
    BY <1>5
  <2>2. Elements(<<t>>) = {<<t>>[i] : i \in 1..Len(<<t>>)}
    BY <2>1, ElementsAre
  <2>3. Elements(<<t>>) = {t}
    BY <2>1, <2>2
  <2>4. QED
    BY <2>1, <2>3
<1>8. OnePerUrl'
  <2>1. Distinct(<<t>>)
    BY <1>7 DEF Distinct
  <2>2. QED
    BY <1>4, <1>5, <1>7, <2>1 DEF OnePerUrl
<1>9. active' = {t} /\ visible' = {t}
  <2>1. active \subseteq Elements(tabs)
    BY DEF TabInv, InStep
  <2>2. QED
    BY <1>2, <1>4, <1>6, <1>7, <2>1
<1>10. TabInv'
  BY <1>4, <1>6, <1>7, <1>8, <1>9 DEF TabInv, InStep
<1>11. Keeps({Home}, Home)
  <2>1. openUrls' = {Home}
    BY <1>4, <1>5, <1>7 DEF openUrls
  <2>2. shownUrl' = Home
    BY <1>5, <1>9, ShownIsNext
  <2>3. Home \in openUrls
    BY <1>2, <1>5 DEF openUrls
  <2>4. QED
    BY <2>1, <2>2, <2>3 DEF Keeps
<1>12. QED
  BY <1>10, <1>11

--------------------------------------------------------------------------------
(* The theorems.                                                            *)

LEMMA InitGives ==
  ASSUME Init
  PROVE  TabInv /\ openUrls = {Home} /\ shownUrl = Home
<1> DEFINE t == El(Home, 0)
<1>1. /\ tabs = <<t>> /\ active = {t} /\ frames = <<t>> /\ visible = {t}
      /\ opened = 0 /\ t.url = Home
  BY DEF Init, El
<1>2. t \in TabType /\ opened \in 0..MaxOpen
  <2>1. 0 \in 0..MaxOpen
    BY TabAssumption
  <2>2. QED
    BY <1>1, <2>1, TabAssumption DEF TabType, El
<1> HIDE DEF t
<1>3. <<t>> \in Seq(TabType) /\ Len(<<t>>) = 1 /\ <<t>>[1] = t /\ 1..1 = {1}
  BY <1>2
<1>4. Elements(<<t>>) = {t}
  <2>1. Elements(<<t>>) = {<<t>>[i] : i \in 1..Len(<<t>>)}
    BY <1>3, ElementsAre
  <2>2. QED
    BY <1>3, <2>1
<1>5. OnePerUrl
  <2>1. Distinct(<<t>>)
    BY <1>3 DEF Distinct
  <2>2. QED
    BY <1>1, <1>3, <1>4, <2>1 DEF OnePerUrl, t
<1>6. InStep
  BY <1>1, <1>4 DEF InStep
<1>7. openUrls = {Home} /\ shownUrl = Home
  BY <1>1, <1>4, ShownIs DEF openUrls
<1>8. QED
  BY <1>2, <1>5, <1>6, <1>7 DEF TabInv

(* Every handler shows an address, closes some, or keeps two at most. *)
StripStep ==
  \/ \E u \in Url : openUrls' = openUrls \cup {u} /\ shownUrl' = u
  \/ \E pages : Closes(pages)
  \/ \E pages : \E u : Keeps(pages, u)

LEMMA NextStep ==
  ASSUME TabInv, Next, AllowNew = FALSE
  PROVE  TabInv' /\ StripStep
<1>1. ASSUME NEW u \in Url, NEW isNew \in (IF AllowNew THEN BOOLEAN ELSE {FALSE}),
             OpenTab(u, isNew)
      PROVE  TabInv' /\ StripStep
  <2>1. OpenTab(u, FALSE)
    BY <1>1
  <2>2. QED
    BY <2>1, OpenTabStep DEF StripStep
<1>2. ASSUME NEW i \in 1..Len(tabs),
             ActiveTab(i) \/ RefreshCurrentTab(i) \/ CloseTab(i) \/ CloseLeftTabs(i)
             \/ CloseRightTabs(i) \/ CloseOtherTabs(i)
      PROVE  TabInv' /\ StripStep
  BY <1>2, ActiveTabStep, RefreshStep, CloseTabStep, CloseLeftStep, CloseRightStep,
     CloseOtherStep DEF StripStep
<1>3. ASSUME CloseAllTabs PROVE TabInv' /\ StripStep
  BY <1>3, CloseAllStep DEF StripStep
<1>4. QED
  BY <1>1, <1>2, <1>3 DEF Next

LEMMA StutterStep ==
  ASSUME TabInv, UNCHANGED vars
  PROVE  TabInv' /\ openUrls' = openUrls /\ shownUrl' = shownUrl
BY DEF vars, TabInv, OnePerUrl, InStep, openUrls, shownUrl

(* The invariant holds of every behaviour without openTab(..., true). *)
THEOREM TabsInductive == AllowNew = FALSE /\ Spec => []TabInv
<1>1. Init => TabInv
  BY InitGives
<1>2. TabInv /\ AllowNew = FALSE /\ [Next]_vars => TabInv'
  BY NextStep, StutterStep
<1>3. ASSUME AllowNew = FALSE PROVE Spec => []TabInv
  <2>1. TabInv /\ [Next]_vars => TabInv'
    BY <1>2, <1>3
  <2>2. QED
    BY <1>1, <2>1, PTL DEF Spec
<1>4. QED
  BY <1>3

(* Every variable of the page has its type. *)
THEOREM TabsTypeCorrect == AllowNew = FALSE /\ Spec => []TypeOK
<1>1. TabInv => TypeOK
  <2>1. SUFFICES ASSUME TabInv PROVE TypeOK
    OBVIOUS
  <2>2. Elements(tabs) \subseteq TabType /\ frames = tabs /\ visible = active
    BY <2>1, TabsAre DEF TabInv, InStep
  <2>3. active \subseteq Elements(tabs)
    BY <2>1 DEF TabInv, InStep
  <2>4. QED
    BY <2>1, <2>2, <2>3 DEF TypeOK, TabType, TabInv
<1>2. QED
  BY <1>1, TabsInductive, PTL

(* One tab is active and its iframe is the one shown; tabs and iframes stay *)
(* paired, one of each per address.                                         *)
THEOREM FramesFollow == AllowNew = FALSE /\ Spec => []FramesFollowTabs
<1>1. TabInv => ActiveShown
  <2>1. SUFFICES ASSUME TabInv PROVE ActiveShown
    OBVIOUS
  <2>2. PICK t \in Elements(tabs) : active = {t}
    BY <2>1 DEF TabInv, InStep
  <2>3. visible = active /\ Cardinality({t}) = 1
    BY <2>1, FS_Singleton DEF TabInv, InStep
  <2>4. QED
    BY <2>2, <2>3 DEF ActiveShown
<1>2. TabInv => Paired
  BY DEF TabInv, InStep, Paired
<1>3. TabInv => FramesFollowTabs
  BY <1>1, <1>2 DEF FramesFollowTabs
<1>4. QED
  BY <1>3, TabsInductive, PTL

LEMMA StripMapped ==
  /\ Strip!Init <=> openUrls = {Home} /\ shownUrl = Home
  /\ StripStep => Strip!Next
  /\ openUrls' = openUrls /\ shownUrl' = shownUrl =>
       UNCHANGED <<openUrls, shownUrl>>
<1>1. Strip!Init <=> openUrls = {Home} /\ shownUrl = Home
  BY DEF Strip!Init, openUrls, shownUrl
<1>2. ASSUME NEW u \in Url, openUrls' = openUrls \cup {u}, shownUrl' = u
      PROVE  Strip!Next
  BY <1>2 DEF Strip!Next, Strip!Show, openUrls, shownUrl
<1>3. ASSUME NEW pages, Closes(pages) PROVE Strip!Next
  <2>1. pages \in SUBSET openUrls
    BY <1>3 DEF Closes
  <2>2. Strip!Close(pages)
    BY <1>3 DEF Closes, Strip!Close, openUrls, shownUrl
  <2>3. QED
    BY <2>1, <2>2 DEF Strip!Next, openUrls
<1>4. ASSUME NEW pages, NEW u, Keeps(pages, u) PROVE Strip!Next
  <2>1. pages \in SUBSET openUrls /\ u \in pages
    BY <1>4 DEF Keeps
  <2>2. Strip!Keep(pages, u)
    BY <1>4 DEF Keeps, Strip!Keep, openUrls, shownUrl
  <2>3. QED
    BY <2>1, <2>2 DEF Strip!Next, openUrls
<1>5. QED
  BY <1>1, <1>2, <1>3, <1>4 DEF StripStep

(* The page implements the strip: each handler is a step of TabStrip.      *)
THEOREM ImplementsStrip == AllowNew = FALSE /\ Spec => StripSpec
<1>1. Init => Strip!Init
  BY InitGives, StripMapped
<1>2. ASSUME AllowNew = FALSE PROVE Spec => StripSpec
  <2>1. TabInv /\ [Next]_vars => [Strip!Next]_<<openUrls, shownUrl>>
    BY <1>2, NextStep, StutterStep, StripMapped
  <2>2. Spec => []TabInv
    BY <1>2, TabsInductive
  <2>3. QED
    BY <1>1, <2>1, <2>2, PTL DEF Spec, StripSpec, Strip!Spec, openUrls, shownUrl
<1>3. QED
  BY <1>2

--------------------------------------------------------------------------------
(* The selection of entries whose places are known. *)

Places(s, keep, m, cs) ==
  /\ cs \in [1..m -> 1..Len(s)]
  /\ \A q, t \in 1..m : q < t => cs[q] < cs[t]
  /\ \A q \in 1..m : s[cs[q]] \in keep
  /\ \A i \in 1..Len(s) : s[i] \in keep => \E q \in 1..m : cs[q] = i

LEMMA SelectedAt ==
  ASSUME NEW E, NEW s \in Seq(E), NEW keep,
         NEW m \in Nat, NEW cs, Places(s, keep, m, cs)
  PROVE  /\ Selected(s, keep) \in Seq(E) /\ Len(Selected(s, keep)) = m
         /\ \A q \in 1..m : Selected(s, keep)[q] = s[cs[q]]
<1>0. Len(s) \in Nat
  OBVIOUS
<1> /\ cs \in [1..m -> 1..Len(s)]
    /\ \A q, t \in 1..m : q < t => cs[q] < cs[t]
    /\ \A q \in 1..m : s[cs[q]] \in keep
    /\ \A i \in 1..Len(s) : s[i] \in keep => \E q \in 1..m : cs[q] = i
  BY DEF Places
<1>1. PICK f : UpTo(s, keep, Len(s), f) /\ Selected(s, keep) = f[Len(s)]
  BY <1>0, SelectedIsUpTo
<1> DEFINE Passed(i, k) == /\ \A q \in 1..k : cs[q] <= i
                           /\ \A q \in k + 1..m : cs[q] > i
                           /\ f[i] = [q \in 1..k |-> s[cs[q]]]
           P(i) == \E k \in 0..m : Passed(i, k)
           S == {i \in Nat : i <= Len(s) => P(i)}
<1> HIDE DEF Passed, P
<1>2. 0 \in S
  <2>1. f[0] = <<>>
    BY <1>0, <1>1 DEF UpTo
  <2>2. [q \in 1..0 |-> s[cs[q]]] = <<>>
    OBVIOUS
  <2>3. \A q \in 0 + 1..m : cs[q] > 0
    OBVIOUS
  <2>4. Passed(0, 0)
    BY <2>1, <2>2, <2>3 DEF Passed
  <2>5. P(0)
    BY <2>4 DEF P
  <2>6. QED
    BY <2>5
<1>3. ASSUME NEW i \in Nat, i \in S PROVE i + 1 \in S
  <2>1. SUFFICES ASSUME i + 1 <= Len(s) PROVE P(i + 1)
    OBVIOUS
  <2>2. i + 1 \in 1..Len(s) /\ i + 1 \in 0..Len(s) /\ (i + 1) - 1 = i /\ i + 1 # 0
    BY <1>0, <2>1
  <2>21. P(i)
    BY <1>0, <1>3, <2>1
  <2>3. PICK k \in 0..m : Passed(i, k)
    BY <2>21 DEF P
  <2>30. /\ \A q \in 1..k : cs[q] <= i
         /\ \A q \in k + 1..m : cs[q] > i
         /\ f[i] = [q \in 1..k |-> s[cs[q]]]
    BY <2>3 DEF Passed
  <2>4. f[i + 1] = IF s[i + 1] \in keep THEN Append(f[i], s[i + 1]) ELSE f[i]
    <3> HIDE DEF S
    <3>1. f[i + 1] = IF i + 1 = 0 THEN <<>>
                     ELSE IF s[i + 1] \in keep
                          THEN Append(f[(i + 1) - 1], s[i + 1]) ELSE f[(i + 1) - 1]
      BY <1>1, <2>2 DEF UpTo
    <3>2. QED
      BY <2>2, <3>1
  <2>5. CASE s[i + 1] \in keep
    <3>1. PICK q \in 1..m : cs[q] = i + 1
      BY <2>2, <2>5
    <3>2. q > k
      BY <2>30, <3>1
    <3>3. q = k + 1
      <4>1. SUFFICES ASSUME q > k + 1 PROVE FALSE
        BY <3>2
      <4>2. k + 1 \in 1..m /\ k + 1 \in k + 1..m
        BY <4>1
      <4>3. cs[k + 1] < cs[q] /\ cs[k + 1] > i
        BY <2>30, <4>1, <4>2
      <4>4. cs[k + 1] \in Nat
        BY <4>2
      <4>5. QED
        BY <3>1, <4>3, <4>4
    <3>4. k + 1 \in 0..m
      BY <3>3
    <3>5. \A t \in 1..k + 1 : cs[t] <= i + 1
      <4>1. SUFFICES ASSUME NEW t \in 1..k + 1 PROVE cs[t] <= i + 1
        OBVIOUS
      <4>2. CASE t = k + 1
        BY <3>1, <3>3, <4>2
      <4>3. CASE t \in 1..k
        <5>1. cs[t] <= i /\ cs[t] \in Nat
          BY <2>30, <4>3
        <5>2. QED
          BY <5>1
      <4>4. QED
        BY <4>2, <4>3
    <3>6. \A t \in (k + 1) + 1..m : cs[t] > i + 1
      <4>1. SUFFICES ASSUME NEW t \in (k + 1) + 1..m PROVE cs[t] > i + 1
        OBVIOUS
      <4>2. t \in 1..m /\ q < t
        BY <3>3
      <4>3. QED
        BY <3>1, <4>2
    <3>7. f[i + 1] = [t \in 1..k + 1 |-> s[cs[t]]]
      <4> DEFINE g == [t \in 1..k |-> s[cs[t]]]
                 h == [t \in 1..k + 1 |-> s[cs[t]]]
      <4>1. g \in Seq(E) /\ Len(g) = k
        OBVIOUS
      <4>2. h \in Seq(E) /\ Len(h) = k + 1
        BY <3>4
      <4>3. Append(g, s[i + 1]) = h
        <5>1. /\ Append(g, s[i + 1]) \in Seq(E)
              /\ Len(Append(g, s[i + 1])) = k + 1
          BY <2>2, <4>1
        <5>2. ASSUME NEW t \in 1..k + 1 PROVE Append(g, s[i + 1])[t] = h[t]
          <6>1. CASE t = k + 1
            BY <3>1, <3>3, <4>1, <6>1
          <6>2. CASE t \in 1..k
            BY <4>1, <6>2
          <6>3. QED
            BY <6>1, <6>2
        <5> HIDE DEF g, h
        <5>3. QED
          BY <4>2, <5>1, <5>2
      <4>4. QED
        BY <2>30, <2>4, <2>5, <4>3
    <3>8. Passed(i + 1, k + 1)
      BY <3>5, <3>6, <3>7 DEF Passed
    <3>9. QED
      BY <3>4, <3>8 DEF P
  <2>6. CASE s[i + 1] \notin keep
    <3>1. \A t \in k + 1..m : cs[t] > i + 1
      <4>1. SUFFICES ASSUME NEW t \in k + 1..m PROVE cs[t] > i + 1
        OBVIOUS
      <4>2. t \in 1..m /\ cs[t] > i /\ cs[t] \in Nat
        BY <2>30
      <4>3. cs[t] # i + 1
        BY <2>6, <4>2
      <4>4. \A c, j \in Nat : c > j /\ c # j + 1 => c > j + 1
        OBVIOUS
      <4>5. QED
        BY <4>2, <4>3, <4>4
    <3>2. \A t \in 1..k : cs[t] <= i + 1
      <4>1. SUFFICES ASSUME NEW t \in 1..k PROVE cs[t] <= i + 1
        OBVIOUS
      <4>2. cs[t] <= i /\ cs[t] \in Nat
        BY <2>30
      <4>3. cs[t] <= i + 1
        BY <4>2
      <4>4. QED
        BY <4>3
    <3>3. Passed(i + 1, k)
      BY <2>30, <2>4, <2>6, <3>1, <3>2 DEF Passed
    <3>4. QED
      BY <3>3 DEF P
  <2>7. QED
    BY <2>5, <2>6
<1>4. P(Len(s))
  <2> HIDE DEF S
  <2>1. Nat \subseteq S
    BY <1>2, <1>3, Induction
  <2>2. Len(s) \in S
    BY <1>0, <2>1
  <2> QED
    BY <1>0, <2>2 DEF S
<1>5. PICK k \in 0..m : Passed(Len(s), k)
  BY <1>4 DEF P
<1>6. k = m
  <2>1. SUFFICES ASSUME k < m PROVE FALSE
    OBVIOUS
  <2>2. m \in k + 1..m /\ m \in 1..m
    BY <2>1
  <2>3. cs[m] > Len(s) /\ cs[m] \in 1..Len(s)
    BY <1>5, <2>2 DEF Passed
  <2>4. QED
    BY <1>0, <2>3
<1>7. Selected(s, keep) = [q \in 1..m |-> s[cs[q]]]
  BY <1>1, <1>5, <1>6 DEF Passed
<1>8. QED
  BY <1>7

--------------------------------------------------------------------------------
(* The inductive invariant of the menu editor.                              *)

EntryType == [nr : Nat, subs : Seq(Nat)]
LiType == [nr : Nat, row : NoAlt..2, col : Int]
MenuType == [nr : Nat, alt : NoAlt..2, subs : Seq(LiType), plus : BOOLEAN]

Typed ==
  /\ button \in Seq(EntryType) /\ strip \in Seq(MenuType)
  /\ ix \in Nat /\ selected \in Nat /\ panel \in Nat /\ made \in 0..MaxMade

(* The plus of the first level is the last element if it is there at all,   *)
(* and leaves room for the menus still to come.                             *)
HasPlus == Len(strip) # 0 /\ strip[Len(strip)].nr = 0
PlusLast ==
  /\ HasPlus => ix <= 2 /\ Len(strip) <= ix + 1
  /\ ~HasPlus => Len(strip) <= 3
  /\ \A p \in 1..Len(strip) : p # Len(strip) => strip[p].nr # 0

Counted == ix <= 3 /\ Len(button) = ix /\ PlusLast

(* Alts are positions in the array, no two alike. *)
AltsDiffer ==
  /\ \A p \in 1..Len(strip) : strip[p].alt < ix
  /\ \A p, q \in 1..Len(strip) :
       strip[p].alt = strip[q].alt /\ strip[p].alt # NoAlt => p = q

(* The ids of a list of sub-menus; lists without a common id, and such that *)
(* their ids have been given out: the place is in the array, if its menu is *)
(* still there.                                                             *)
HasId(lis, row, col) ==
  /\ row # NoAlt
  /\ \E q \in 1..Len(lis) : lis[q].row = row /\ lis[q].col = col
IdsDiffer(lis) ==
  \A q, t \in 1..Len(lis) :
    lis[q].row = lis[t].row /\ lis[q].col = lis[t].col /\ lis[q].row # NoAlt => q = t
IdsApart ==
  /\ \A p \in 1..Len(strip) : IdsDiffer(strip[p].subs)
  /\ \A p, r \in 1..Len(strip) : \A row, col \in Int :
       HasId(strip[p].subs, row, col) /\ HasId(strip[r].subs, row, col) => p = r

Given(bt, row, col) ==
  /\ row \in 0..Len(bt) - 1 /\ col \in Nat
  /\ bt[row + 1] = Hole \/ col < Len(bt[row + 1].subs)
IdsGiven ==
  \A p \in 1..Len(strip) : \A row, col \in Int :
    HasId(strip[p].subs, row, col) => Given(button, row, col)

(* The ids of a menu's items are the places of its entry's sub-menus, from    *)
(* left to right, and leave out nothing but the holes.                       *)
Mirrors(lis, subs, row) ==
  /\ \A q \in 1..Len(lis) :
       /\ lis[q].row = row /\ lis[q].col \in 0..Len(subs) - 1
       /\ lis[q].nr = subs[lis[q].col + 1] /\ lis[q].nr # 0
  /\ \A q, t \in 1..Len(lis) : q < t => lis[q].col < lis[t].col
  /\ \A c \in 1..Len(subs) :
       subs[c] # 0 => \E q \in 1..Len(lis) : lis[q].col + 1 = c

(* As long as no menu was deleted, elements and entries stand in the same    *)
(* order; and as long as the columns have one digit, so that deletions find  *)
(* their entries, the items and the panel mirror the entries.                *)
Aligned ==
  /\ Len(strip) = IF ix < 3 THEN ix + 1 ELSE ix
  /\ \A p \in 1..ix :
       /\ strip[p].nr = button[p].nr /\ strip[p].nr # 0 /\ strip[p].alt = p - 1
       /\ Len(strip[p].subs) <= 5
  /\ ix < 3 => strip[ix + 1] = PlusMenu

Mirrored ==
  /\ \A p \in 1..ix : Mirrors(strip[p].subs, button[p].subs, p - 1)
  /\ selected # 0 => panel = selected

EditorInv ==
  /\ Typed /\ Counted /\ AltsDiffer /\ IdsApart /\ IdsGiven
  /\ MenusKept => Aligned
  /\ MenusKept /\ ColumnsOfOneDigit => Mirrored

--------------------------------------------------------------------------------
(* Lists of sub-menus.                                                      *)

LEMMA Removed ==
  ASSUME NEW E, NEW s \in Seq(E), NEW i \in 1..Len(s)
  PROVE  /\ RemoveAt(s, i) \in Seq(E) /\ Len(RemoveAt(s, i)) = Len(s) - 1
         /\ \A j \in 1..Len(s) - 1 :
              RemoveAt(s, i)[j] = s[IF j < i THEN j ELSE j + 1]
<1> DEFINE a == SubSeq(s, 1, i - 1)
           b == SubSeq(s, i + 1, Len(s))
<1>1. /\ a \in Seq(E) /\ Len(a) = i - 1
      /\ \A j \in 1..i - 1 : a[j] = s[j]
  OBVIOUS
<1>2. /\ b \in Seq(E) /\ Len(b) = Len(s) - i
      /\ \A j \in 1..Len(s) - i : b[j] = s[i + j]
  OBVIOUS
<1>3. RemoveAt(s, i) = a \o b
  BY DEF RemoveAt
<1> HIDE DEF a, b
<1>4. a \o b \in Seq(E) /\ Len(a \o b) = Len(s) - 1
  <2>0. a \in Seq(E) /\ b \in Seq(E)
    BY <1>1, <1>2
  <2>1. a \o b \in Seq(E) /\ Len(a \o b) = Len(a) + Len(b)
    BY <2>0
  <2>2. Len(a) + Len(b) = Len(s) - 1
    BY <1>1, <1>2
  <2>3. QED
    BY <2>1, <2>2
<1>5. ASSUME NEW j \in 1..Len(s) - 1
      PROVE  (a \o b)[j] = s[IF j < i THEN j ELSE j + 1]
  <2>1. CASE j < i
    BY <1>1, <1>2, <2>1
  <2>2. CASE ~(j < i)
    <3>1. (a \o b)[j] = b[j - (i - 1)] /\ j - (i - 1) \in 1..Len(s) - i
      BY <1>1, <1>2, <2>2
    <3>2. b[j - (i - 1)] = s[i + (j - (i - 1))] /\ i + (j - (i - 1)) = j + 1
      BY <1>2, <3>1
    <3>3. QED
      BY <2>2, <3>1, <3>2
  <2>3. QED
    BY <2>1, <2>2
<1>6. QED
  BY <1>3, <1>4, <1>5

LEMMA AppendGives ==
  ASSUME NEW E, NEW s \in Seq(E), NEW x \in E
  PROVE  /\ Append(s, x) \in Seq(E) /\ Len(Append(s, x)) = Len(s) + 1
         /\ \A j \in 1..Len(s) : Append(s, x)[j] = s[j]
         /\ Append(s, x)[Len(s) + 1] = x
OBVIOUS

LEMMA PrependGives ==
  ASSUME NEW E, NEW s \in Seq(E), NEW x \in E
  PROVE  /\ <<x>> \o s \in Seq(E) /\ Len(<<x>> \o s) = Len(s) + 1
         /\ \A j \in 1..Len(s) : (<<x>> \o s)[j + 1] = s[j]
         /\ (<<x>> \o s)[1] = x
<1>1. <<x>> \in Seq(E) /\ Len(<<x>>) = 1 /\ <<x>>[1] = x
  OBVIOUS
<1>2. QED
  BY <1>1

(* An item without an id adds none, in front or at the end. *)
LEMMA AppendIds ==
  ASSUME NEW lis \in Seq(LiType), NEW li \in LiType, li.row = NoAlt
  PROVE  /\ \A row, col \in Int :
              HasId(Append(lis, li), row, col) => HasId(lis, row, col)
         /\ IdsDiffer(lis) => IdsDiffer(Append(lis, li))
<1> DEFINE new == Append(lis, li)
<1>1. /\ Len(lis) \in Nat /\ Len(new) = Len(lis) + 1
      /\ \A j \in 1..Len(lis) : new[j] = lis[j]
      /\ new[Len(lis) + 1] = li
  BY AppendGives
<1> HIDE DEF new
<1>2. \A j \in 1..Len(new) : new[j].row # NoAlt => j \in 1..Len(lis) /\ new[j] = lis[j]
  BY <1>1
<1>3. \A row, col \in Int : HasId(new, row, col) => HasId(lis, row, col)
  BY <1>2 DEF HasId
<1>4. IdsDiffer(lis) => IdsDiffer(new)
  <2>1. SUFFICES ASSUME IdsDiffer(lis), NEW q \in 1..Len(new), NEW t \in 1..Len(new),
                        new[q].row = new[t].row, new[q].col = new[t].col,
                        new[q].row # NoAlt
                 PROVE  q = t
    BY DEF IdsDiffer
  <2>2. /\ q \in 1..Len(lis) /\ new[q] = lis[q]
        /\ t \in 1..Len(lis) /\ new[t] = lis[t]
    BY <1>2, <2>1
  <2>3. QED
    BY <2>1, <2>2 DEF IdsDiffer
<1>5. QED
  BY <1>3, <1>4 DEF new

LEMMA PrependIds ==
  ASSUME NEW lis \in Seq(LiType), NEW li \in LiType, li.row = NoAlt
  PROVE  /\ \A row, col \in Int :
              HasId(<<li>> \o lis, row, col) => HasId(lis, row, col)
         /\ IdsDiffer(lis) => IdsDiffer(<<li>> \o lis)
<1> DEFINE new == <<li>> \o lis
<1>1. /\ Len(lis) \in Nat /\ Len(new) = Len(lis) + 1
      /\ \A j \in 1..Len(lis) : new[j + 1] = lis[j]
      /\ new[1] = li
  BY PrependGives
<1> HIDE DEF new
<1>2. ASSUME NEW j \in 1..Len(new), new[j].row # NoAlt
      PROVE  j - 1 \in 1..Len(lis) /\ new[j] = lis[j - 1]
  <2>1. j # 1
    BY <1>1, <1>2
  <2>2. j - 1 \in 1..Len(lis) /\ (j - 1) + 1 = j
    BY <1>1, <2>1
  <2>3. QED
    BY <1>1, <2>2
<1>3. \A row, col \in Int : HasId(new, row, col) => HasId(lis, row, col)
  BY <1>2 DEF HasId
<1>4. IdsDiffer(lis) => IdsDiffer(new)
  <2>1. SUFFICES ASSUME IdsDiffer(lis), NEW q \in 1..Len(new), NEW t \in 1..Len(new),
                        new[q].row = new[t].row, new[q].col = new[t].col,
                        new[q].row # NoAlt
                 PROVE  q = t
    BY DEF IdsDiffer
  <2>2. /\ q - 1 \in 1..Len(lis) /\ new[q] = lis[q - 1]
        /\ t - 1 \in 1..Len(lis) /\ new[t] = lis[t - 1]
    BY <1>2, <2>1
  <2>3. q - 1 = t - 1
    BY <2>1, <2>2 DEF IdsDiffer
  <2>4. QED
    BY <2>3
<1>5. QED
  BY <1>3, <1>4 DEF new

(* The last item gets an id nobody has. *)
LEMMA WithLastGives ==
  ASSUME NEW lis \in Seq(LiType), NEW li \in LiType, Len(lis) # 0
  PROVE  /\ WithLast(lis, li) \in Seq(LiType)
         /\ Len(WithLast(lis, li)) = Len(lis) /\ Len(lis) \in Nat
         /\ \A j \in 1..Len(lis) :
              WithLast(lis, li)[j] = IF j = Len(lis) THEN li ELSE lis[j]
BY DEF WithLast

LEMMA WithLastIds ==
  ASSUME NEW lis \in Seq(LiType), NEW li \in LiType, Len(lis) # 0,
         ~HasId(lis, li.row, li.col)
  PROVE  /\ \A row, col \in Int :
              HasId(WithLast(lis, li), row, col) =>
                HasId(lis, row, col) \/ (row = li.row /\ col = li.col)
         /\ IdsDiffer(lis) => IdsDiffer(WithLast(lis, li))
<1> DEFINE new == WithLast(lis, li)
<1>1. /\ Len(new) = Len(lis) /\ Len(lis) \in Nat
      /\ \A j \in 1..Len(lis) : new[j] = IF j = Len(lis) THEN li ELSE lis[j]
  BY WithLastGives
<1> HIDE DEF new
<1>2. ASSUME NEW row \in Int, NEW col \in Int, HasId(new, row, col)
      PROVE  HasId(lis, row, col) \/ (row = li.row /\ col = li.col)
  <2>1. PICK j \in 1..Len(lis) : new[j].row = row /\ new[j].col = col
    BY <1>1, <1>2 DEF HasId
  <2>2. QED
    BY <1>1, <1>2, <2>1 DEF HasId
<1>3. IdsDiffer(lis) => IdsDiffer(new)
  <2>1. SUFFICES ASSUME IdsDiffer(lis), NEW q \in 1..Len(lis), NEW t \in 1..Len(lis),
                        new[q].row = new[t].row, new[q].col = new[t].col,
                        new[q].row # NoAlt
                 PROVE  q = t
    BY <1>1 DEF IdsDiffer
  <2>2. CASE q # Len(lis) /\ t # Len(lis)
    <3>1. new[q] = lis[q] /\ new[t] = lis[t]
      BY <1>1, <2>2
    <3>2. QED
      BY <2>1, <3>1 DEF IdsDiffer
  <2>3. CASE q = Len(lis) /\ t # Len(lis)
    <3>1. new[q] = li /\ new[t] = lis[t]
      BY <1>1, <2>3
    <3>2. QED
      BY <2>1, <3>1 DEF HasId
  <2>4. CASE q # Len(lis) /\ t = Len(lis)
    <3>1. new[q] = lis[q] /\ new[t] = li
      BY <1>1, <2>4
    <3>2. QED
      BY <2>1, <3>1 DEF HasId
  <2>5. QED
    BY <2>2, <2>3, <2>4
<1>4. QED
  BY <1>2, <1>3 DEF new

LEMMA RemovedIds ==
  ASSUME NEW lis \in Seq(LiType), NEW i \in 1..Len(lis)
  PROVE  /\ \A row, col \in Int :
              HasId(RemoveAt(lis, i), row, col) => HasId(lis, row, col)
         /\ IdsDiffer(lis) => IdsDiffer(RemoveAt(lis, i))
<1> DEFINE new == RemoveAt(lis, i)
           at(j) == IF j < i THEN j ELSE j + 1
<1>1. /\ Len(new) = Len(lis) - 1 /\ Len(lis) \in Nat
      /\ \A j \in 1..Len(lis) - 1 : new[j] = lis[at(j)]
  BY Removed
<1> HIDE DEF new
<1>2. \A j \in 1..Len(new) : at(j) \in 1..Len(lis) /\ new[j] = lis[at(j)]
  BY <1>1
<1>3. \A q, t \in 1..Len(new) : at(q) = at(t) => q = t
  OBVIOUS
<1> HIDE DEF at
<1>4. \A row, col \in Int : HasId(new, row, col) => HasId(lis, row, col)
  BY <1>2 DEF HasId
<1>5. IdsDiffer(lis) => IdsDiffer(new)
  <2>1. SUFFICES ASSUME IdsDiffer(lis), NEW q \in 1..Len(new), NEW t \in 1..Len(new),
                        new[q].row = new[t].row, new[q].col = new[t].col,
                        new[q].row # NoAlt
                 PROVE  q = t
    BY DEF IdsDiffer
  <2>2. at(q) = at(t)
    BY <1>2, <2>1 DEF IdsDiffer
  <2>3. QED
    BY <1>3, <2>2
<1>6. QED
  BY <1>4, <1>5 DEF new

(* The entry of a menu and its items, when an item and a sub-menu are made,  *)
(* and when an item is deleted and its sub-menu becomes a hole.              *)
LEMMA MirrorsAppended ==
  ASSUME NEW lis \in Seq(LiType), NEW subs \in Seq(Nat), NEW row,
         Mirrors(lis, subs, row), NEW n \in Nat, n # 0
  PROVE  Mirrors(Append(lis, Li(n, row, Len(subs))), Append(subs, n), row)
<1> DEFINE li == Li(n, row, Len(subs))
           new == Append(lis, li)
           entry == Append(subs, n)
<1>1. /\ Len(lis) \in Nat /\ Len(new) = Len(lis) + 1
      /\ \A j \in 1..Len(lis) : new[j] = lis[j]
      /\ new[Len(lis) + 1] = li
  OBVIOUS
<1>2. /\ Len(subs) \in Nat /\ Len(entry) = Len(subs) + 1
      /\ \A j \in 1..Len(subs) : entry[j] = subs[j]
      /\ entry[Len(subs) + 1] = n
  OBVIOUS
<1>3. li.row = row /\ li.col = Len(subs) /\ li.nr = n
  BY DEF Li
<1> HIDE DEF li, new, entry
<1>4. ASSUME NEW q \in 1..Len(new)
      PROVE  /\ new[q].row = row /\ new[q].col \in 0..Len(entry) - 1
             /\ new[q].nr = entry[new[q].col + 1] /\ new[q].nr # 0
  <2>1. CASE q = Len(lis) + 1
    BY <1>1, <1>2, <1>3, <2>1
  <2>2. CASE q \in 1..Len(lis)
    <3>1. /\ new[q] = lis[q] /\ lis[q].row = row /\ lis[q].col \in 0..Len(subs) - 1
          /\ lis[q].nr = subs[lis[q].col + 1] /\ lis[q].nr # 0
      BY <1>1, <2>2 DEF Mirrors
    <3>2. lis[q].col + 1 \in 1..Len(subs)
      BY <1>2, <3>1
    <3>3. QED
      BY <1>2, <3>1, <3>2
  <2>3. QED
    BY <1>1, <2>1, <2>2
<1>5. ASSUME NEW q \in 1..Len(new), NEW t \in 1..Len(new), q < t
      PROVE  new[q].col < new[t].col
  <2>1. q \in 1..Len(lis) /\ new[q] = lis[q]
    BY <1>1, <1>5
  <2>2. CASE t = Len(lis) + 1
    <3>1. lis[q].col \in 0..Len(subs) - 1
      BY <2>1 DEF Mirrors
    <3>2. QED
      BY <1>1, <1>2, <1>3, <2>1, <2>2, <3>1
  <2>3. CASE t \in 1..Len(lis)
    BY <1>1, <1>5, <2>1, <2>3 DEF Mirrors
  <2>4. QED
    BY <1>1, <2>2, <2>3
<1>6. ASSUME NEW c \in 1..Len(entry), entry[c] # 0
      PROVE  \E q \in 1..Len(new) : new[q].col + 1 = c
  <2>1. CASE c = Len(subs) + 1
    <3>1. Len(lis) + 1 \in 1..Len(new) /\ new[Len(lis) + 1].col + 1 = c
      BY <1>1, <1>3, <2>1
    <3>2. QED
      BY <3>1
  <2>2. CASE c \in 1..Len(subs)
    <3>1. subs[c] # 0
      BY <1>2, <1>6, <2>2
    <3>2. PICK q \in 1..Len(lis) : lis[q].col + 1 = c
      BY <2>2, <3>1 DEF Mirrors
    <3>3. q \in 1..Len(new) /\ new[q] = lis[q]
      BY <1>1
    <3>4. QED
      BY <3>2, <3>3
  <2>3. QED
    BY <1>2, <2>1, <2>2
<1>7. Mirrors(new, entry, row)
  BY <1>4, <1>5, <1>6 DEF Mirrors
<1>8. QED
  BY <1>7 DEF new, entry, li

LEMMA MirrorsRemoved ==
  ASSUME NEW lis \in Seq(LiType), NEW subs \in Seq(Nat), NEW row,
         Mirrors(lis, subs, row), NEW i \in 1..Len(lis)
  PROVE  Mirrors(RemoveAt(lis, i), [subs EXCEPT ![lis[i].col + 1] = 0], row)
<1> DEFINE new == RemoveAt(lis, i)
           at(j) == IF j < i THEN j ELSE j + 1
           entry == [subs EXCEPT ![lis[i].col + 1] = 0]
<1>1. /\ Len(new) = Len(lis) - 1 /\ Len(lis) \in Nat
      /\ \A j \in 1..Len(lis) - 1 : new[j] = lis[at(j)]
  BY Removed
<1>2. /\ Len(subs) \in Nat /\ Len(entry) = Len(subs)
      /\ \A j \in 1..Len(subs) : entry[j] = IF j = lis[i].col + 1 THEN 0 ELSE subs[j]
  OBVIOUS
<1> HIDE DEF new, entry
<1>3. \A j \in 1..Len(new) : at(j) \in 1..Len(lis) /\ at(j) # i /\ new[j] = lis[at(j)]
  BY <1>1
<1>4. \A q, t \in 1..Len(new) : q < t => at(q) < at(t)
  BY <1>1
<1>5. \A k \in 1..Len(lis) : k # i => \E j \in 1..Len(new) : at(j) = k
  <2>1. SUFFICES ASSUME NEW k \in 1..Len(lis), k # i
                 PROVE  \E j \in 1..Len(new) : at(j) = k
    OBVIOUS
  <2>2. CASE k < i
    <3>1. k \in 1..Len(new) /\ at(k) = k
      BY <1>1, <2>2
    <3>2. QED
      BY <3>1
  <2>3. CASE ~(k < i)
    <3>1. k - 1 \in 1..Len(new) /\ at(k - 1) = k
      BY <1>1, <2>1, <2>3
    <3>2. QED
      BY <3>1
  <2>4. QED
    BY <2>2, <2>3
<1>6. \A k \in 1..Len(lis) : lis[k].col \in Int
  <2>1. \A k \in 1..Len(lis) : lis[k] \in LiType
    OBVIOUS
  <2>2. QED
    BY <2>1 DEF LiType
<1>7. \A k \in 1..Len(lis) : k # i => lis[k].col # lis[i].col
  <2>1. SUFFICES ASSUME NEW k \in 1..Len(lis), k # i PROVE lis[k].col # lis[i].col
    OBVIOUS
  <2>2. k < i \/ i < k
    BY <2>1
  <2>3. lis[k].col < lis[i].col \/ lis[i].col < lis[k].col
    BY <2>2 DEF Mirrors
  <2>4. \A x, y \in Int : x < y \/ y < x => x # y
    OBVIOUS
  <2>5. QED
    BY <1>6, <2>3, <2>4
<1> HIDE DEF at
<1>8. ASSUME NEW q \in 1..Len(new)
      PROVE  /\ new[q].row = row /\ new[q].col \in 0..Len(entry) - 1
             /\ new[q].nr = entry[new[q].col + 1] /\ new[q].nr # 0
  <2> DEFINE k == at(q)
  <2>1. k \in 1..Len(lis) /\ k # i /\ new[q] = lis[k]
    BY <1>3
  <2> HIDE DEF k
  <2>2. /\ lis[k].row = row /\ lis[k].col \in 0..Len(subs) - 1
        /\ lis[k].nr = subs[lis[k].col + 1] /\ lis[k].nr # 0
        /\ lis[i].col \in 0..Len(subs) - 1 /\ lis[k].col # lis[i].col
    BY <1>7, <2>1 DEF Mirrors
  <2>3. lis[k].col + 1 \in 1..Len(subs) /\ lis[k].col + 1 # lis[i].col + 1
    <3>1. \A n \in Nat : \A x, y \in 0..n - 1 :
            x + 1 \in 1..n /\ (x # y => x + 1 # y + 1)
      OBVIOUS
    <3>2. Len(subs) \in Nat
      OBVIOUS
    <3>3. QED
      BY <2>2, <3>1, <3>2
  <2>4. QED
    BY <1>2, <2>1, <2>2, <2>3
<1>9. ASSUME NEW q \in 1..Len(new), NEW t \in 1..Len(new), q < t
      PROVE  new[q].col < new[t].col
  BY <1>3, <1>4, <1>9 DEF Mirrors
<1>10. ASSUME NEW c \in 1..Len(entry), entry[c] # 0
       PROVE  \E q \in 1..Len(new) : new[q].col + 1 = c
  <2>1. c \in 1..Len(subs) /\ subs[c] # 0 /\ c # lis[i].col + 1
    BY <1>2, <1>10
  <2>2. PICK k \in 1..Len(lis) : lis[k].col + 1 = c
    BY <2>1 DEF Mirrors
  <2>3. k # i
    BY <2>1, <2>2
  <2>4. PICK j \in 1..Len(new) : at(j) = k
    BY <1>5, <2>3
  <2>5. new[j] = lis[k]
    BY <1>3, <2>4
  <2>6. QED
    BY <2>2, <2>5
<1>11. Mirrors(new, entry, row)
  BY <1>8, <1>9, <1>10 DEF Mirrors
<1>12. QED
  BY <1>11 DEF new, entry

(* Of a mirrored entry, what is saved is what is shown. *)
LEMMA MirrorsShow ==
  ASSUME NEW lis \in Seq(LiType), NEW subs \in Seq(Nat), NEW row,
         Mirrors(lis, subs, row)
  PROVE  Selected(subs, ToSet(subs) \ {0}) = [q \in 1..Len(lis) |-> lis[q].nr]
<1> DEFINE m == Len(lis)
           cs == [q \in 1..m |-> lis[q].col + 1]
           keep == ToSet(subs) \ {0}
<1>1. m \in Nat /\ Len(subs) \in Nat
  OBVIOUS
<1>2. \A q \in 1..m : /\ lis[q].col \in 0..Len(subs) - 1
                      /\ lis[q].nr = subs[lis[q].col + 1] /\ lis[q].nr # 0
  BY DEF Mirrors
<1>3. \A q \in 1..m : lis[q].col + 1 \in 1..Len(subs)
  BY <1>1, <1>2
<1>4. cs \in [1..m -> 1..Len(subs)]
  BY <1>3
<1>5. \A i \in 1..Len(subs) : subs[i] \in keep <=> subs[i] # 0
  BY DEF ToSet
<1> HIDE DEF keep
<1>6. \A q, t \in 1..m : q < t => cs[q] < cs[t]
  <2>1. SUFFICES ASSUME NEW q \in 1..m, NEW t \in 1..m, q < t PROVE cs[q] < cs[t]
    OBVIOUS
  <2>2. lis[q].col < lis[t].col
    BY <2>1 DEF Mirrors
  <2>3. \A x, y \in 0..Len(subs) - 1 : x < y => x + 1 < y + 1
    OBVIOUS
  <2>4. lis[q].col + 1 < lis[t].col + 1
    BY <1>2, <2>2, <2>3
  <2>5. QED
    BY <2>4
<1>7. \A q \in 1..m : subs[cs[q]] \in keep
  BY <1>2, <1>3, <1>5
<1>8. \A i \in 1..Len(subs) : subs[i] \in keep => \E q \in 1..m : cs[q] = i
  <2>1. SUFFICES ASSUME NEW i \in 1..Len(subs), subs[i] \in keep
                 PROVE  \E q \in 1..m : cs[q] = i
    OBVIOUS
  <2>2. PICK q \in 1..Len(lis) : lis[q].col + 1 = i
    BY <1>5, <2>1 DEF Mirrors
  <2>3. QED
    BY <2>2
<1>9. \A q \in 1..m : subs[cs[q]] = lis[q].nr /\ lis[q].nr \in Nat
  <2>1. SUFFICES ASSUME NEW q \in 1..m
                 PROVE  subs[cs[q]] = lis[q].nr /\ lis[q].nr \in Nat
    OBVIOUS
  <2>2. cs[q] = lis[q].col + 1
    BY <2>1
  <2>3. lis[q] \in LiType
    BY <2>1
  <2> HIDE DEF cs
  <2>4. lis[q].nr \in Nat
    BY <2>3 DEF LiType
  <2>5. QED
    BY <1>2, <2>1, <2>2, <2>4
<1> HIDE DEF cs, m
<1>0. subs \in Seq(Nat)
  OBVIOUS
<1>10. /\ Selected(subs, keep) \in Seq(Nat) /\ Len(Selected(subs, keep)) = m
       /\ \A q \in 1..m : Selected(subs, keep)[q] = subs[cs[q]]
  <2>1. Places(subs, keep, m, cs)
    BY <1>4, <1>6, <1>7, <1>8 DEF Places
  <2>2. QED
    BY <1>0, <1>1, <2>1, SelectedAt
<1>11. Selected(subs, keep) = [q \in 1..m |-> lis[q].nr]
  <2> DEFINE x == Selected(subs, keep)
             y == [q \in 1..m |-> lis[q].nr]
  <2>0. \A q \in 1..m : x[q] = lis[q].nr
    BY <1>9, <1>10
  <2> HIDE DEF x
  <2>1. y \in Seq(Nat) /\ Len(y) = m /\ \A q \in 1..m : y[q] = x[q]
    BY <1>1, <1>9, <2>0
  <2>2. x \in Seq(Nat) /\ Len(x) = m
    BY <1>10 DEF x
  <2> HIDE DEF x, y
  <2>3. Len(x) = Len(y) /\ \A q \in 1..Len(x) : x[q] = y[q]
    BY <2>1, <2>2
  <2>4. x = y
    BY <2>1, <2>2, <2>3
  <2>5. QED
    BY <2>4 DEF x, y
<1>12. QED
  BY <1>11 DEF keep, m

--------------------------------------------------------------------------------
(* What the parts of the invariant need of a step.  origin gives for each    *)
(* element of the strip the one it was before the step, or 0.                *)

LEMMA HolesStay ==
  ASSUME \A i \in 1..Len(button) : i \in 1..Len(button') /\ (button[i] = Hole => button'[i] = Hole),
         MenusKept'
  PROVE  MenusKept
BY DEF MenusKept

LEMMA LongStay ==
  ASSUME \A i \in 1..Len(button) :
           /\ i \in 1..Len(button')
           /\ Len(button'[i].subs) <= 10 => Len(button[i].subs) <= 10,
         ColumnsOfOneDigit'
  PROVE  ColumnsOfOneDigit
BY DEF ColumnsOfOneDigit

(* A column of one digit is read whole.                                      *)
LEMMA OneDigit == ASSUME NEW n \in Int, n < 10 PROVE FirstDigit(n) = n
BY DEF FirstDigit

LEMMA GivenStays ==
  ASSUME Typed, Typed', Len(button) <= Len(button'),
         \A i \in 1..Len(button) :
           button'[i] = Hole \/ /\ button[i] # Hole
                                /\ Len(button[i].subs) <= Len(button'[i].subs),
         NEW row \in Int, NEW col \in Int, Given(button, row, col)
  PROVE  Given(button', row, col)
<1>1. /\ row \in 0..Len(button) - 1 /\ col \in Nat
      /\ button[row + 1] = Hole \/ col < Len(button[row + 1].subs)
  BY DEF Given
<1>2. Len(button) \in Nat /\ Len(button') \in Nat
  BY DEF Typed
<1>3. row + 1 \in 1..Len(button) /\ row + 1 \in 1..Len(button') /\ row \in 0..Len(button') - 1
  BY <1>1, <1>2
<1>4. CASE button'[row + 1] = Hole
  BY <1>1, <1>3, <1>4 DEF Given
<1>5. CASE button[row + 1] # Hole /\ Len(button[row + 1].subs) <= Len(button'[row + 1].subs)
  <2> DEFINE x == Len(button[row + 1].subs)
             y == Len(button'[row + 1].subs)
  <2>1. button[row + 1] \in EntryType /\ button'[row + 1] \in EntryType
    BY <1>3 DEF Typed
  <2>2. x \in Nat /\ y \in Nat /\ x <= y /\ col < x
    BY <1>1, <1>5, <2>1 DEF EntryType
  <2> HIDE DEF x, y
  <2>3. col < y
    BY <1>1, <2>2
  <2>4. QED
    BY <1>1, <1>3, <2>3 DEF Given, y
<1>6. QED
  BY <1>3, <1>4, <1>5

Origin(origin) ==
  /\ origin \in [1..Len(strip') -> 0..Len(strip)]
  /\ \A p, r \in 1..Len(strip') : origin[p] = origin[r] /\ origin[p] # 0 => p = r

(* Ids and alts come from the elements of before, but for one, of a. *)
GivenOn == \A row, col \in Int : Given(button, row, col) => Given(button', row, col)
IdsFrom(origin, a, r1, c1) ==
  \A p \in 1..Len(strip') :
    /\ IdsDiffer(strip'[p].subs)
    /\ \A row, col \in Int :
         HasId(strip'[p].subs, row, col) =>
           \/ origin[p] # 0 /\ HasId(strip[origin[p]].subs, row, col)
           \/ p = a /\ row = r1 /\ col = c1
AltsFrom(origin, a) ==
  \A p \in 1..Len(strip') :
    \/ strip'[p].alt = NoAlt
    \/ origin[p] # 0 /\ strip'[p].alt = strip[origin[p]].alt
    \/ p = a /\ strip'[p].alt = ix /\ ix' = ix + 1

LEMMA IdsKept ==
  ASSUME Typed, Typed', IdsApart, IdsGiven,
         NEW origin, Origin(origin), NEW a, NEW r1 \in Int, NEW c1 \in Int,
         ~Given(button, r1, c1),
         a \in 1..Len(strip') => Given(button', r1, c1),
         GivenOn, IdsFrom(origin, a, r1, c1)
  PROVE  IdsApart' /\ IdsGiven'
<1>1. ASSUME NEW p \in 1..Len(strip'), NEW row \in Int, NEW col \in Int,
             HasId(strip'[p].subs, row, col)
      PROVE  \/ /\ origin[p] \in 1..Len(strip) /\ Given(button, row, col)
                /\ HasId(strip[origin[p]].subs, row, col)
             \/ p = a /\ row = r1 /\ col = c1
  <2>1. CASE origin[p] # 0 /\ HasId(strip[origin[p]].subs, row, col)
    <3>1. origin[p] \in 0..Len(strip)
      BY DEF Origin
    <3>2. origin[p] \in 1..Len(strip)
      BY <2>1, <3>1
    <3>3. QED
      BY <2>1, <3>2 DEF IdsGiven
  <2>2. QED
    BY <1>1, <2>1 DEF IdsFrom
<1>2. IdsGiven'
  <2>1. SUFFICES ASSUME NEW p \in 1..Len(strip'), NEW row \in Int, NEW col \in Int,
                        HasId(strip'[p].subs, row, col)
                 PROVE  Given(button', row, col)
    BY DEF IdsGiven
  <2>2. QED
    BY <1>1, <2>1 DEF GivenOn
<1>3. ASSUME NEW p \in 1..Len(strip'), NEW r \in 1..Len(strip'),
             NEW row \in Int, NEW col \in Int,
             HasId(strip'[p].subs, row, col), HasId(strip'[r].subs, row, col)
      PROVE  p = r
  <2>1. CASE Given(button, row, col)
    <3>1. ~(row = r1 /\ col = c1)
      BY <2>1
    <3>2. /\ origin[p] \in 1..Len(strip) /\ HasId(strip[origin[p]].subs, row, col)
          /\ origin[r] \in 1..Len(strip) /\ HasId(strip[origin[r]].subs, row, col)
      BY <1>1, <1>3, <3>1
    <3>3. origin[p] = origin[r] /\ origin[p] # 0
      BY <3>2 DEF IdsApart
    <3>4. QED
      BY <3>3 DEF Origin
  <2>2. CASE ~Given(button, row, col)
    BY <1>1, <1>3, <2>2
  <2>3. QED
    BY <2>1, <2>2
<1>4. IdsApart'
  BY <1>3 DEF IdsApart, IdsFrom
<1>5. QED
  BY <1>2, <1>4

LEMMA AltsKept ==
  ASSUME Typed, Typed', AltsDiffer, NEW origin, Origin(origin), NEW a, ix <= ix',
         AltsFrom(origin, a)
  PROVE  AltsDiffer'
<1>0. /\ ix \in Nat /\ ix' \in Nat /\ NoAlt = -1
      /\ \A p \in 1..Len(strip') : strip'[p] \in MenuType
      /\ \A p \in 1..Len(strip) : strip[p] \in MenuType
  BY DEF Typed, NoAlt
<1>1. \A p \in 1..Len(strip') : strip'[p].alt \in Int
  BY <1>0 DEF MenuType
<1>2. \A p \in 1..Len(strip) : strip[p].alt \in Int /\ strip[p].alt < ix
  BY <1>0 DEF MenuType, AltsDiffer
<1>3. \A p \in 1..Len(strip') : origin[p] # 0 => origin[p] \in 1..Len(strip)
  <2>1. \A p \in 1..Len(strip') : origin[p] \in 0..Len(strip)
    BY DEF Origin
  <2>2. QED
    BY <2>1
<1>4. ASSUME NEW p \in 1..Len(strip') PROVE strip'[p].alt < ix'
  <2>1. CASE strip'[p].alt = NoAlt
    BY <1>0, <2>1
  <2>2. CASE origin[p] # 0 /\ strip'[p].alt = strip[origin[p]].alt
    <3> DEFINE x == strip[origin[p]].alt
    <3>1. x \in Int /\ x < ix
      BY <1>2, <1>3, <2>2
    <3> HIDE DEF x
    <3>2. x < ix'
      BY <1>0, <3>1
    <3>3. QED
      BY <2>2, <3>2 DEF x
  <2>3. CASE strip'[p].alt = ix /\ ix' = ix + 1
    BY <1>0, <2>3
  <2>4. QED
    BY <2>1, <2>2, <2>3 DEF AltsFrom
<1>5. ASSUME NEW p \in 1..Len(strip'), NEW r \in 1..Len(strip'),
             strip'[p].alt = strip'[r].alt, strip'[p].alt # NoAlt
      PROVE  p = r
  <2>1. \A q \in 1..Len(strip') :
          origin[q] # 0 /\ strip'[q].alt = strip[origin[q]].alt => strip'[q].alt # ix
    <3>1. \A x \in Int : x < ix => x # ix
      BY <1>0
    <3>2. QED
      BY <1>2, <1>3, <3>1
  <2>2. CASE strip'[p].alt = ix
    BY <1>5, <2>1, <2>2 DEF AltsFrom
  <2>3. CASE strip'[p].alt # ix
    <3>1. /\ origin[p] # 0 /\ strip'[p].alt = strip[origin[p]].alt
          /\ origin[r] # 0 /\ strip'[r].alt = strip[origin[r]].alt
      BY <1>5, <2>3 DEF AltsFrom
    <3>2. origin[p] = origin[r]
      BY <1>3, <1>5, <3>1 DEF AltsDiffer
    <3>3. QED
      BY <3>1, <3>2 DEF Origin
  <2>4. QED
    BY <2>2, <2>3
<1>6. QED
  BY <1>4, <1>5 DEF AltsDiffer

--------------------------------------------------------------------------------
(* The plus of the first level.                                             *)

LEMMA MadeMore ==
  ASSUME made \in 0..MaxMade, made < MaxMade, made' = made + 1
  PROVE  made' \in 0..MaxMade /\ Next1 \in Nat /\ Next1 # 0
<1>1. MaxMade \in Nat /\ made \in Nat
  BY EditorAssumption DEF EditorAssumption
<1>2. QED
  BY <1>1 DEF Next1

LEMMA FrontGives ==
  ASSUME NEW E, NEW s \in Seq(E), Len(s) # 0
  PROVE  /\ Front(s) \in Seq(E) /\ Len(Front(s)) = Len(s) - 1
         /\ \A p \in 1..Len(s) - 1 : Front(s)[p] = s[p]
<1>1. Len(s) - 1 \in Nat /\ Len(s) - 1 <= Len(s)
  OBVIOUS
<1> DEFINE n == Len(s) - 1
<1>2. SubSeq(s, 1, n) = [p \in 1..n |-> s[p]]
  BY <1>1
<1>3. \A p \in 1..n : s[p] \in E
  BY <1>1
<1>4. [p \in 1..n |-> s[p]] \in Seq(E) /\ Len([p \in 1..n |-> s[p]]) = n
  BY <1>1, <1>3
<1>5. QED
  BY <1>2, <1>4 DEF Front

LEMMA AddMenuGives ==
  ASSUME Typed, Counted, AddMenu
  PROVE  LET n == Len(strip) IN
         /\ Typed' /\ ix' = ix + 1 /\ ix <= 2 /\ n \in Nat /\ n # 0 /\ n <= ix + 1
         /\ strip[n].nr = 0
         /\ Len(strip') = IF ix = 2 THEN n ELSE n + 1
         /\ \A p \in 1..n : p # n => /\ strip'[p].nr = strip[p].nr
                                     /\ strip'[p].subs = strip[p].subs
         /\ strip'[n].nr = Next1 /\ strip'[n].subs = <<>>
         /\ ix # 2 => /\ strip'[n + 1].nr = 0 /\ strip'[n + 1].subs = strip[n].subs
                      /\ strip'[n + 1].plus = strip[n].plus
         /\ \A p \in 1..Len(strip') :
              strip'[p].alt = IF p = ix + 1 THEN ix
                              ELSE IF p = n THEN NoAlt
                              ELSE IF p = n + 1 THEN strip[n].alt ELSE strip[p].alt
         /\ button' = Append(button, Entry(Next1, <<>>))
         /\ selected' = Next1 /\ panel' = Next1 /\ Next1 \in Nat /\ Next1 # 0
<1> DEFINE n == Len(strip)
           new == Menu(Next1, NoAlt, <<>>, TRUE)
           grown == Front(strip) \o <<new>>
           els == IF ix' = MenuLimit THEN grown ELSE grown \o <<Last(strip)>>
<1>1. /\ strip \in Seq(MenuType) /\ button \in Seq(EntryType) /\ ix \in Nat
      /\ made \in 0..MaxMade /\ n \in Nat /\ Len(button) \in Nat
  BY DEF Typed
<1>2. strip # <<>> /\ strip[n].nr = 0 /\ ix' = ix + 1 /\ made < MaxMade
  BY DEF AddMenu, Last
<1>3. n # 0 /\ ix <= 2 /\ n <= ix + 1
  BY <1>1, <1>2 DEF Counted, PlusLast, HasPlus
<1>4. ix' <= MenuLimit /\ (ix' = MenuLimit <=> ix = 2)
  BY <1>1, <1>2, <1>3 DEF MenuLimit
<1>5. /\ strip' = IF ix' <= Len(els) THEN [els EXCEPT ![ix'].alt = ix' - 1] ELSE els
      /\ button' = Append(button, Entry(Next1, <<>>))
      /\ selected' = Next1 /\ panel' = Next1 /\ made' = made + 1
  BY <1>4 DEF AddMenu, Pushed
<1>6. made' \in 0..MaxMade /\ Next1 \in Nat /\ Next1 # 0
  BY <1>1, <1>2, <1>5, MadeMore
<1>7. /\ new \in MenuType /\ new.nr = Next1 /\ new.subs = <<>> /\ new.alt = NoAlt
  BY <1>6 DEF Menu, MenuType, NoAlt
<1> HIDE DEF new
<1>8. /\ grown \in Seq(MenuType) /\ Len(grown) = n
      /\ \A p \in 1..n : grown[p] = IF p = n THEN new ELSE strip[p]
  <2> DEFINE front == Front(strip)
  <2>1. /\ front \in Seq(MenuType) /\ Len(front) = n - 1
        /\ \A p \in 1..n - 1 : front[p] = strip[p]
    BY <1>1, <1>3, FrontGives
  <2>2. grown = front \o <<new>>
    OBVIOUS
  <2> HIDE DEF front, grown
  <2>3. <<new>> \in Seq(MenuType) /\ Len(<<new>>) = 1 /\ <<new>>[1] = new
    BY <1>7
  <2>4. front \o <<new>> \in Seq(MenuType) /\ Len(front \o <<new>>) = (n - 1) + 1
    BY <2>1, <2>3
  <2>5. ASSUME NEW p \in 1..n
        PROVE  (front \o <<new>>)[p] = IF p = n THEN new ELSE strip[p]
    BY <1>1, <1>3, <2>1, <2>3
  <2>6. QED
    BY <1>1, <2>2, <2>4, <2>5
<1>9. Last(strip) = strip[n] /\ strip[n] \in MenuType
  BY <1>1, <1>3 DEF Last
<1>10. /\ els \in Seq(MenuType) /\ Len(els) = IF ix = 2 THEN n ELSE n + 1
       /\ \A p \in 1..Len(els) : els[p] = IF p = n THEN new
                                          ELSE IF p = n + 1 THEN strip[n] ELSE strip[p]
  <2>1. CASE ix = 2
    <3>1. els = grown
      BY <1>4, <2>1
    <3> HIDE DEF els, grown
    <3>2. QED
      BY <1>1, <1>8, <2>1, <3>1
  <2>2. CASE ix # 2
    <3>1. els = grown \o <<strip[n]>>
      BY <1>4, <1>9, <2>2
    <3> HIDE DEF els, grown
    <3>2. /\ grown \o <<strip[n]>> \in Seq(MenuType)
          /\ Len(grown \o <<strip[n]>>) = n + 1
          /\ \A p \in 1..n : (grown \o <<strip[n]>>)[p] = grown[p]
          /\ (grown \o <<strip[n]>>)[n + 1] = strip[n]
      BY <1>1, <1>8, <1>9
    <3>3. QED
      BY <1>1, <1>8, <2>2, <3>1, <3>2
  <2>3. QED
    BY <2>1, <2>2
<1> HIDE DEF els, grown
<1>11. /\ strip' \in Seq(MenuType) /\ Len(strip') = Len(els)
       /\ \A p \in 1..Len(els) :
            /\ strip'[p].nr = els[p].nr /\ strip'[p].subs = els[p].subs
            /\ strip'[p].plus = els[p].plus
            /\ strip'[p].alt = IF p = ix + 1 THEN ix ELSE els[p].alt
  <2>1. ix' - 1 = ix /\ ix \in NoAlt..2
    BY <1>1, <1>2, <1>3 DEF NoAlt
  <2>2. CASE ix' <= Len(els)
    <3>1. strip' = [els EXCEPT ![ix'] = [els[ix'] EXCEPT !.alt = ix]]
      BY <1>5, <2>1, <2>2
    <3>2. ix' \in 1..Len(els) /\ els[ix'] \in MenuType
      BY <1>1, <1>2, <1>10, <2>2
    <3> DEFINE m == [els[ix'] EXCEPT !.alt = ix]
    <3>3. /\ m \in MenuType /\ m.nr = els[ix'].nr /\ m.subs = els[ix'].subs
          /\ m.plus = els[ix'].plus /\ m.alt = ix
      BY <2>1, <3>2 DEF MenuType
    <3> HIDE DEF m
    <3>4. /\ strip' \in Seq(MenuType) /\ Len(strip') = Len(els)
          /\ \A p \in 1..Len(els) : strip'[p] = IF p = ix' THEN m ELSE els[p]
      BY <1>10, <3>1, <3>2, <3>3 DEF m
    <3>5. QED
      BY <1>2, <3>3, <3>4
  <2>3. CASE ~(ix' <= Len(els))
    <3>1. strip' = els
      BY <1>5, <2>3
    <3>2. \A p \in 1..Len(els) : p # ix + 1
      BY <1>1, <1>2, <1>10, <2>3
    <3>3. QED
      BY <1>10, <3>1, <3>2
  <2>4. QED
    BY <2>2, <2>3
<1>12. Typed'
  <2>1. Entry(Next1, <<>>) \in EntryType
    BY <1>6 DEF Entry, EntryType
  <2>2. button' \in Seq(EntryType)
    BY <1>1, <1>5, <2>1
  <2>3. ix' \in Nat
    BY <1>1, <1>2
  <2>4. QED
    BY <1>5, <1>6, <1>11, <2>2, <2>3 DEF Typed
<1>13. Len(strip') = IF ix = 2 THEN n ELSE n + 1
  BY <1>10, <1>11
<1>14. \A p \in 1..n : p # n => strip'[p].nr = strip[p].nr /\ strip'[p].subs = strip[p].subs
  BY <1>1, <1>10, <1>11
<1>15. strip'[n].nr = Next1 /\ strip'[n].subs = <<>>
  BY <1>1, <1>3, <1>7, <1>10, <1>11
<1>16. ix # 2 => /\ strip'[n + 1].nr = 0 /\ strip'[n + 1].subs = strip[n].subs
                 /\ strip'[n + 1].plus = strip[n].plus
  BY <1>1, <1>2, <1>10, <1>11
<1>17. \A p \in 1..Len(strip') :
         strip'[p].alt = IF p = ix + 1 THEN ix
                         ELSE IF p = n THEN NoAlt
                         ELSE IF p = n + 1 THEN strip[n].alt ELSE strip[p].alt
  BY <1>1, <1>7, <1>10, <1>11
<1>18. QED
  BY <1>1, <1>2, <1>3, <1>5, <1>6, <1>12, <1>13, <1>14, <1>15, <1>16, <1>17

LEMMA AddMenuKeeps == ASSUME EditorInv, AddMenu PROVE EditorInv'
<1> DEFINE n == Len(strip)
<1>0. /\ Typed /\ Counted /\ AltsDiffer /\ IdsApart /\ IdsGiven
      /\ MenusKept => Aligned
      /\ MenusKept /\ ColumnsOfOneDigit => Mirrored
  BY DEF EditorInv
<1>1. /\ Typed' /\ ix' = ix + 1 /\ ix <= 2 /\ n \in Nat /\ n # 0 /\ n <= ix + 1
      /\ strip[n].nr = 0
      /\ Len(strip') = IF ix = 2 THEN n ELSE n + 1
      /\ \A p \in 1..n : p # n => /\ strip'[p].nr = strip[p].nr
                                  /\ strip'[p].subs = strip[p].subs
      /\ strip'[n].nr = Next1 /\ strip'[n].subs = <<>>
      /\ ix # 2 => /\ strip'[n + 1].nr = 0 /\ strip'[n + 1].subs = strip[n].subs
                   /\ strip'[n + 1].plus = strip[n].plus
      /\ \A p \in 1..Len(strip') :
           strip'[p].alt = IF p = ix + 1 THEN ix
                           ELSE IF p = n THEN NoAlt
                           ELSE IF p = n + 1 THEN strip[n].alt ELSE strip[p].alt
      /\ button' = Append(button, Entry(Next1, <<>>))
      /\ selected' = Next1 /\ panel' = Next1 /\ Next1 \in Nat /\ Next1 # 0
  BY <1>0, AddMenuGives
<1>2. /\ ix \in Nat /\ Len(button) = ix /\ button \in Seq(EntryType)
      /\ \A p \in 1..n : p # n => strip[p].nr # 0
  BY <1>0 DEF Typed, Counted, PlusLast
<1>3. /\ Entry(Next1, <<>>) \in EntryType /\ Entry(Next1, <<>>) # Hole
      /\ Entry(Next1, <<>>).nr = Next1 /\ Entry(Next1, <<>>).subs = <<>>
  BY <1>1 DEF Entry, EntryType, Hole
<1>4. /\ Len(button') = ix + 1 /\ button'[ix + 1] = Entry(Next1, <<>>)
      /\ \A i \in 1..ix : button'[i] = button[i]
  BY <1>1, <1>2, <1>3, AppendGives
<1>5. Counted'
  <2>1. ix' <= 3 /\ Len(button') = ix'
    BY <1>1, <1>2, <1>4
  <2>2. CASE ix = 2
    <3>1. Len(strip') = n /\ ~HasPlus'
      BY <1>1, <2>2 DEF HasPlus
    <3>2. \A p \in 1..Len(strip') : p # Len(strip') => strip'[p].nr # 0
      BY <1>1, <1>2, <3>1
    <3>3. Len(strip') <= 3
      BY <1>1, <2>2, <3>1
    <3>4. QED
      BY <2>1, <3>1, <3>2, <3>3 DEF Counted, PlusLast
  <2>3. CASE ix # 2
    <3>1. Len(strip') = n + 1 /\ HasPlus'
      BY <1>1, <2>3 DEF HasPlus
    <3>2. \A p \in 1..Len(strip') : p # Len(strip') => strip'[p].nr # 0
      <4>1. SUFFICES ASSUME NEW p \in 1..n PROVE strip'[p].nr # 0
        BY <1>1, <3>1
      <4>2. CASE p = n
        BY <1>1, <4>2
      <4>3. CASE p # n
        BY <1>1, <1>2, <4>3
      <4>4. QED
        BY <4>2, <4>3
    <3>3. ix' <= 2 /\ Len(strip') <= ix' + 1
      BY <1>1, <1>2, <2>3, <3>1
    <3>4. QED
      BY <2>1, <3>1, <3>2, <3>3 DEF Counted, PlusLast
  <2>4. QED
    BY <2>2, <2>3
<1> DEFINE origin == [p \in 1..Len(strip') |-> IF p < n THEN p ELSE IF p = n THEN 0 ELSE n]
<1>6. /\ Origin(origin)
      /\ \A p \in 1..Len(strip') : origin[p] = IF p < n THEN p ELSE IF p = n THEN 0 ELSE n
  <2>1. Len(strip') \in Nat /\ Len(strip') <= n + 1
    BY <1>1
  <2>2. \A p \in 1..Len(strip') : (IF p < n THEN p ELSE IF p = n THEN 0 ELSE n) \in 0..n
    BY <1>1
  <2>3. QED
    BY <1>1, <2>1, <2>2 DEF Origin
<1> HIDE DEF origin
<1>7. \A p \in 1..Len(strip') :
        \/ origin[p] # 0 /\ strip'[p].subs = strip[origin[p]].subs
        \/ origin[p] = 0 /\ strip'[p].subs = <<>>
  <2>1. ASSUME NEW p \in 1..Len(strip')
        PROVE  \/ origin[p] # 0 /\ strip'[p].subs = strip[origin[p]].subs
               \/ origin[p] = 0 /\ strip'[p].subs = <<>>
    <3>1. CASE p < n
      <4>1. origin[p] = p /\ p # 0 /\ p \in 1..n /\ p # n
        BY <1>1, <1>6, <3>1
      <4>2. strip'[p].subs = strip[p].subs
        BY <1>1, <4>1
      <4>3. QED
        BY <4>1, <4>2
    <3>2. CASE p = n
      BY <1>1, <1>6, <3>2
    <3>3. CASE p > n
      <4>1. ix # 2 /\ p = n + 1
        BY <1>1, <3>3
      <4>2. origin[p] = n /\ n # 0
        BY <1>1, <1>6, <4>1
      <4>3. QED
        BY <1>1, <4>1, <4>2
    <3>4. QED
      BY <1>1, <3>1, <3>2, <3>3
  <2>2. QED
    BY <2>1
<1>8. AltsDiffer'
  <2>1. ASSUME NEW p \in 1..Len(strip')
        PROVE  \/ strip'[p].alt = NoAlt
               \/ origin[p] # 0 /\ strip'[p].alt = strip[origin[p]].alt
               \/ p = ix + 1 /\ strip'[p].alt = ix /\ ix' = ix + 1
    <3>1. strip'[p].alt = IF p = ix + 1 THEN ix
                          ELSE IF p = n THEN NoAlt
                          ELSE IF p = n + 1 THEN strip[n].alt ELSE strip[p].alt
      BY <1>1
    <3>2. p < n \/ p = n \/ p = n + 1
      BY <1>1
    <3>3. QED
      BY <1>1, <1>6, <3>1, <3>2
  <2>2. ix <= ix'
    BY <1>1, <1>2
  <2>3. AltsFrom(origin, ix + 1) /\ Origin(origin)
    BY <1>6, <2>1 DEF AltsFrom
  <2>4. Typed /\ Typed' /\ AltsDiffer
    BY <1>0, <1>1
  <2>5. QED
    BY <2>2, <2>3, <2>4, AltsKept
<1>9. IdsApart' /\ IdsGiven'
  <2>1. \A row, col \in Int : Given(button, row, col) => Given(button', row, col)
    <3>1. Len(button) <= Len(button')
      BY <1>2, <1>4
    <3>2. \A i \in 1..Len(button) :
            button'[i] = Hole \/ /\ button[i] # Hole
                                 /\ Len(button[i].subs) <= Len(button'[i].subs)
      <4>1. \A i \in 1..Len(button) : button'[i] = button[i] /\ Len(button[i].subs) \in Nat
        BY <1>2, <1>4 DEF EntryType
      <4>2. QED
        BY <4>1
    <3>3. QED
      BY <1>0, <1>1, <3>1, <3>2, GivenStays
  <2>2. ~Given(button, -1, 0) /\ -1 \in Int /\ 0 \in Int
    BY DEF Given
  <2>3. 0 \notin 1..Len(strip')
    OBVIOUS
  <2>4. \A p \in 1..Len(strip') : IdsDiffer(strip'[p].subs)
    <3>1. IdsDiffer(<<>>)
      BY DEF IdsDiffer
    <3>2. \A p \in 1..Len(strip') : origin[p] # 0 => origin[p] \in 1..Len(strip)
      BY <1>1, <1>6
    <3>3. QED
      BY <1>0, <1>7, <3>1, <3>2 DEF IdsApart
  <2>5. \A p \in 1..Len(strip') : \A row, col \in Int :
          HasId(strip'[p].subs, row, col) =>
            \/ origin[p] # 0 /\ HasId(strip[origin[p]].subs, row, col)
            \/ p = 0 /\ row = -1 /\ col = 0
    <3>1. \A row, col \in Int : ~HasId(<<>>, row, col)
      BY DEF HasId
    <3>2. QED
      BY <1>7, <3>1
  <2>6. IdsFrom(origin, 0, -1, 0) /\ GivenOn /\ Origin(origin)
    BY <1>6, <2>1, <2>4, <2>5 DEF IdsFrom, GivenOn
  <2>7. Typed /\ Typed' /\ IdsApart /\ IdsGiven
    BY <1>0, <1>1
  <2>8. QED
    BY <2>2, <2>3, <2>6, <2>7, IdsKept
<1>10. ASSUME MenusKept' PROVE Aligned'
  <2>1. MenusKept
    <3>1. \A i \in 1..Len(button) :
            i \in 1..Len(button') /\ (button[i] = Hole => button'[i] = Hole)
      BY <1>2, <1>4
    <3>2. QED
      BY <1>10, <3>1, HolesStay
  <2>2. Aligned
    BY <1>0, <2>1
  <2>3. /\ n = ix + 1 /\ strip[ix + 1] = PlusMenu
        /\ \A p \in 1..ix :
             /\ strip[p].nr = button[p].nr /\ strip[p].nr # 0 /\ strip[p].alt = p - 1
             /\ Len(strip[p].subs) <= 5
    BY <1>1, <1>2, <2>2 DEF Aligned
  <2>4. Len(strip') = IF ix' < 3 THEN ix' + 1 ELSE ix'
    BY <1>1, <1>2, <2>3
  <2>5. ASSUME NEW p \in 1..ix'
        PROVE  /\ strip'[p].nr = button'[p].nr /\ strip'[p].nr # 0 /\ strip'[p].alt = p - 1
               /\ Len(strip'[p].subs) <= 5
    <3>1. p \in 1..Len(strip') /\ p \in 1..n
      BY <1>1, <1>2, <2>3, <2>4
    <3>2. CASE p = ix + 1
      <4>1. /\ strip'[p].nr = Next1 /\ strip'[p].subs = <<>> /\ strip'[p].alt = ix
            /\ button'[p].nr = Next1 /\ button'[p].subs = <<>> /\ ix = p - 1
        BY <1>1, <1>2, <1>3, <1>4, <2>3, <3>1, <3>2
      <4>2. Len(<<>>) <= 5
        OBVIOUS
      <4>3. QED
        BY <1>1, <4>1, <4>2
    <3>3. CASE p # ix + 1
      <4>1. p \in 1..ix /\ p # n /\ p # n + 1
        BY <1>1, <1>2, <2>3, <3>1, <3>3
      <4>2. /\ strip'[p].nr = strip[p].nr /\ strip'[p].subs = strip[p].subs
            /\ button'[p] = button[p] /\ strip'[p].alt = strip[p].alt
        BY <1>1, <1>4, <3>1, <3>3, <4>1
      <4>3. QED
        BY <2>3, <4>1, <4>2
    <3>4. QED
      BY <3>2, <3>3
  <2>6. ASSUME ix' < 3 PROVE strip'[ix' + 1] = PlusMenu
    <3>1. ix # 2 /\ Len(strip') = n + 1 /\ ix' + 1 = n + 1 /\ n + 1 \in 1..Len(strip')
      BY <1>1, <1>2, <2>3, <2>6
    <3>2. n + 1 # ix + 1 /\ n + 1 # n /\ strip[n] = PlusMenu
      BY <1>1, <1>2, <2>3
    <3>3. /\ strip'[n + 1].nr = PlusMenu.nr /\ strip'[n + 1].subs = PlusMenu.subs
          /\ strip'[n + 1].plus = PlusMenu.plus /\ strip'[n + 1].alt = PlusMenu.alt
      <4>1. strip'[n + 1].alt = strip[n].alt
        BY <1>1, <3>1, <3>2
      <4>2. PlusMenu.nr = 0
        BY DEF PlusMenu, Menu
      <4>3. QED
        BY <1>1, <3>1, <3>2, <4>1, <4>2
    <3>4. strip'[n + 1] \in MenuType /\ PlusMenu \in MenuType
      <4>1. strip'[n + 1] \in MenuType
        BY <1>1, <3>1 DEF Typed
      <4>2. <<>> \in Seq(LiType) /\ NoAlt \in NoAlt..2
        BY DEF NoAlt
      <4>3. PlusMenu \in MenuType
        BY <4>2 DEF PlusMenu, Menu, MenuType
      <4>4. QED
        BY <4>1, <4>3
    <3>5. QED
      BY <3>1, <3>3, <3>4 DEF MenuType
  <2>7. QED
    BY <2>4, <2>5, <2>6 DEF Aligned
<1>11. ASSUME MenusKept', ColumnsOfOneDigit' PROVE Mirrored'
  <2>1. \A i \in 1..Len(button) :
          i \in 1..Len(button') /\ button'[i] = button[i]
    BY <1>2, <1>4
  <2>2. MenusKept /\ ColumnsOfOneDigit
    BY <1>11, <2>1, HolesStay, LongStay
  <2>3. n = ix + 1 /\ \A p \in 1..ix : Mirrors(strip[p].subs, button[p].subs, p - 1)
    BY <1>0, <1>1, <1>2, <2>2 DEF Aligned, Mirrored
  <2>4. ASSUME NEW p \in 1..ix' PROVE Mirrors(strip'[p].subs, button'[p].subs, p - 1)
    <3>1. CASE p = ix + 1
      <4>1. strip'[p].subs = <<>> /\ button'[p].subs = <<>>
        BY <1>1, <1>3, <1>4, <2>3, <3>1
      <4>2. Mirrors(<<>>, <<>>, p - 1)
        BY DEF Mirrors
      <4>3. QED
        BY <4>1, <4>2
    <3>2. CASE p # ix + 1
      <4>1. p \in 1..ix /\ p \in 1..n /\ p # n
        BY <1>1, <1>2, <2>3, <3>2
      <4>2. strip'[p].subs = strip[p].subs /\ button'[p] = button[p]
        BY <1>1, <1>4, <4>1
      <4>3. QED
        BY <2>3, <4>1, <4>2
    <3>3. QED
      BY <3>1, <3>2
  <2>5. QED
    BY <1>1, <2>4 DEF Mirrored
<1>12. QED
  BY <1>1, <1>5, <1>8, <1>9, <1>10, <1>11 DEF EditorInv

--------------------------------------------------------------------------------
(* The plus of the second level.                                            *)

SubsSet(t, s, i, x) == t = [s EXCEPT ![i].subs = x]
PlusSet(t, s, i, b) == t = [s EXCEPT ![i].plus = b]

LEMMA SetSubs ==
  ASSUME NEW s \in Seq(MenuType), NEW i \in 1..Len(s), NEW x \in Seq(LiType),
         NEW t, SubsSet(t, s, i, x)
  PROVE  /\ t \in Seq(MenuType) /\ Len(t) = Len(s)
         /\ \A r \in 1..Len(s) :
              /\ r # i => t[r] = s[r]
              /\ t[r].nr = s[r].nr /\ t[r].alt = s[r].alt /\ t[r].plus = s[r].plus
              /\ t[r].subs = IF r = i THEN x ELSE s[r].subs
<1> DEFINE m == [s[i] EXCEPT !.subs = x]
<1>1. s[i] \in MenuType
  OBVIOUS
<1>2. /\ m \in MenuType /\ m.nr = s[i].nr /\ m.alt = s[i].alt
      /\ m.plus = s[i].plus /\ m.subs = x
  BY <1>1 DEF MenuType
<1> HIDE DEF m
<1>3. /\ [s EXCEPT ![i] = m] \in Seq(MenuType) /\ Len([s EXCEPT ![i] = m]) = Len(s)
      /\ \A r \in 1..Len(s) : [s EXCEPT ![i] = m][r] = IF r = i THEN m ELSE s[r]
  BY <1>2
<1>4. t = [s EXCEPT ![i] = m]
  BY DEF m, SubsSet
<1>5. /\ t \in Seq(MenuType) /\ Len(t) = Len(s)
      /\ \A r \in 1..Len(s) : t[r] = IF r = i THEN m ELSE s[r]
  BY <1>3, <1>4
<1>6. /\ t \in Seq(MenuType) /\ Len(t) = Len(s)
      /\ \A r \in 1..Len(s) :
           /\ r # i => t[r] = s[r]
           /\ t[r].nr = s[r].nr /\ t[r].alt = s[r].alt /\ t[r].plus = s[r].plus
           /\ t[r].subs = IF r = i THEN x ELSE s[r].subs
  BY <1>2, <1>5
<1>7. QED
  BY <1>6

LEMMA SetPlus ==
  ASSUME NEW s \in Seq(MenuType), NEW i \in 1..Len(s), NEW b \in BOOLEAN,
         NEW t, PlusSet(t, s, i, b)
  PROVE  /\ t \in Seq(MenuType) /\ Len(t) = Len(s)
         /\ \A r \in 1..Len(s) :
              /\ r # i => t[r] = s[r]
              /\ t[r].nr = s[r].nr /\ t[r].alt = s[r].alt /\ t[r].subs = s[r].subs
<1> DEFINE m == [s[i] EXCEPT !.plus = b]
<1>1. s[i] \in MenuType
  OBVIOUS
<1>2. m \in MenuType /\ m.nr = s[i].nr /\ m.alt = s[i].alt /\ m.subs = s[i].subs
  BY <1>1 DEF MenuType
<1> HIDE DEF m
<1>3. /\ [s EXCEPT ![i] = m] \in Seq(MenuType) /\ Len([s EXCEPT ![i] = m]) = Len(s)
      /\ \A r \in 1..Len(s) : [s EXCEPT ![i] = m][r] = IF r = i THEN m ELSE s[r]
  BY <1>2
<1>4. t = [s EXCEPT ![i] = m]
  BY DEF m, PlusSet
<1>5. /\ t \in Seq(MenuType) /\ Len(t) = Len(s)
      /\ \A r \in 1..Len(s) : t[r] = IF r = i THEN m ELSE s[r]
  BY <1>3, <1>4
<1>6. /\ t \in Seq(MenuType) /\ Len(t) = Len(s)
      /\ \A r \in 1..Len(s) :
           /\ r # i => t[r] = s[r]
           /\ t[r].nr = s[r].nr /\ t[r].alt = s[r].alt /\ t[r].subs = s[r].subs
  BY <1>2, <1>5
<1>7. QED
  BY <1>6

LEMMA SetEntry ==
  ASSUME NEW s \in Seq(EntryType), NEW i \in 1..Len(s), NEW x \in Seq(Nat),
         NEW t, SubsSet(t, s, i, x)
  PROVE  /\ t \in Seq(EntryType) /\ Len(t) = Len(s)
         /\ \A r \in 1..Len(s) : r # i => t[r] = s[r]
         /\ t[i].nr = s[i].nr /\ t[i].subs = x
<1> DEFINE m == [s[i] EXCEPT !.subs = x]
<1>1. s[i] \in EntryType
  OBVIOUS
<1>2. m \in EntryType /\ m.nr = s[i].nr /\ m.subs = x
  BY <1>1 DEF EntryType
<1> HIDE DEF m
<1>3. /\ [s EXCEPT ![i] = m] \in Seq(EntryType) /\ Len([s EXCEPT ![i] = m]) = Len(s)
      /\ \A r \in 1..Len(s) : [s EXCEPT ![i] = m][r] = IF r = i THEN m ELSE s[r]
  BY <1>2
<1>4. t = [s EXCEPT ![i] = m]
  BY DEF m, SubsSet
<1>5. QED
  BY <1>2, <1>3, <1>4

LEMMA TypedElements ==
  ASSUME Typed
  PROVE  /\ \A p \in 1..Len(strip) :
              /\ strip[p] \in MenuType /\ strip[p].nr \in Nat
              /\ strip[p].alt \in -1..2 /\ strip[p].subs \in Seq(LiType)
              /\ strip[p].plus \in BOOLEAN /\ Len(strip[p].subs) \in Nat
         /\ \A i \in 1..Len(button) :
              /\ button[i] \in EntryType /\ button[i].nr \in Nat
              /\ button[i].subs \in Seq(Nat) /\ Len(button[i].subs) \in Nat
         /\ Len(strip) \in Nat /\ Len(button) \in Nat
<1>1. strip \in Seq(MenuType) /\ button \in Seq(EntryType)
  BY DEF Typed
<1>2. \A p \in 1..Len(strip) : strip[p] \in MenuType
  BY <1>1
<1>3. \A i \in 1..Len(button) : button[i] \in EntryType
  BY <1>1
<1>4. QED
  BY <1>1, <1>2, <1>3 DEF MenuType, EntryType, NoAlt

(* An item without an id under the menu of p. *)
LEMMA AddItemKeeps ==
  ASSUME EditorInv, ~MenusKept, NEW p \in 1..Len(strip), made < MaxMade,
         made' = made + 1,
         SubsSet(strip', strip, p, Append(strip[p].subs, Li(Next1, NoAlt, NoAlt))),
         UNCHANGED <<button, selected, panel, ix>>
  PROVE  EditorInv'
<1> DEFINE item == Li(Next1, NoAlt, NoAlt)
           x == Append(strip[p].subs, item)
<1>0. Typed /\ Counted /\ AltsDiffer /\ IdsApart /\ IdsGiven
  BY DEF EditorInv
<1>1. /\ strip \in Seq(MenuType) /\ made \in 0..MaxMade
      /\ strip[p].subs \in Seq(LiType)
  BY <1>0, TypedElements DEF Typed
<1>2. made' \in 0..MaxMade /\ Next1 \in Nat
  BY <1>1, MadeMore
<1>3. item \in LiType /\ item.row = NoAlt
  BY <1>2 DEF Li, LiType, NoAlt
<1> HIDE DEF item
<1>4. x \in Seq(LiType)
  BY <1>1, <1>3
<1>5. /\ \A row, col \in Int : HasId(x, row, col) => HasId(strip[p].subs, row, col)
      /\ IdsDiffer(strip[p].subs) => IdsDiffer(x)
  BY <1>1, <1>3, AppendIds
<1> HIDE DEF x
<1>6. SubsSet(strip', strip, p, x)
  BY DEF x, item
<1>7. /\ strip' \in Seq(MenuType) /\ Len(strip') = Len(strip)
      /\ \A r \in 1..Len(strip) :
           /\ strip'[r].nr = strip[r].nr /\ strip'[r].alt = strip[r].alt
           /\ strip'[r].subs = IF r = p THEN x ELSE strip[r].subs
  BY <1>1, <1>4, <1>6, SetSubs
<1>8. Typed'
  BY <1>0, <1>2, <1>7 DEF Typed
<1>9. Counted' /\ AltsDiffer'
  <2>1. Counted'
    BY <1>0, <1>7, TypedElements DEF Counted, PlusLast, HasPlus
  <2>2. AltsDiffer'
    BY <1>0, <1>7 DEF AltsDiffer
  <2>3. QED
    BY <2>1, <2>2
<1>10. IdsApart' /\ IdsGiven'
  <2>1. \A r \in 1..Len(strip') : \A row, col \in Int :
          HasId(strip'[r].subs, row, col) => HasId(strip[r].subs, row, col)
    BY <1>5, <1>7
  <2>2. \A r \in 1..Len(strip') : IdsDiffer(strip'[r].subs)
    BY <1>0, <1>5, <1>7 DEF IdsApart
  <2>3. IdsApart'
    BY <1>0, <1>7, <2>1, <2>2 DEF IdsApart
  <2>4. IdsGiven'
    BY <1>0, <1>7, <2>1 DEF IdsGiven
  <2>5. QED
    BY <2>3, <2>4
<1>11. ~MenusKept'
  BY DEF MenusKept
<1>12. QED
  BY <1>8, <1>9, <1>10, <1>11 DEF EditorInv

(* The last of the items under the menu at a gets an id and an entry.  g is  *)
(* the strip with the new item, h the one in which the last item is numbered. *)
Grown(g, a, p) ==
  /\ g \in Seq(MenuType) /\ Len(g) = Len(strip) /\ Len(g[a].subs) # 0
  /\ \A r \in 1..Len(strip) :
       /\ r # a /\ r # p => g[r] = strip[r]
       /\ g[r].nr = strip[r].nr /\ g[r].alt = strip[r].alt
       /\ \A row, col \in Int :
            HasId(g[r].subs, row, col) => HasId(strip[r].subs, row, col)
       /\ IdsDiffer(strip[r].subs) => IdsDiffer(g[r].subs)

LEMMA NumberedKeeps ==
  ASSUME EditorInv, made < MaxMade, made' = made + 1, ix' = ix,
         NEW p \in 1..Len(strip), NEW a \in 1..Len(strip), a \in 1..Len(button),
         button[a] # Hole,
         NEW n \in Nat, NEW g, Grown(g, a, p), NEW li, li = Li(n, a - 1, Len(button[a].subs)),
         NEW h, SubsSet(h, g, a, WithLast(g[a].subs, li)),
         NEW b \in BOOLEAN, PlusSet(strip', h, p, b),
         SubsSet(button', button, a, Append(button[a].subs, n)),
         selected' = n, panel' = n,
         MenusKept => /\ a = p /\ n # 0 /\ Len(strip[a].subs) < 5
                      /\ WithLast(g[a].subs, li) = Append(strip[a].subs, li)
  PROVE  EditorInv'
<1> DEFINE c == Len(button[a].subs)
           x == WithLast(g[a].subs, li)
           e == Append(button[a].subs, n)
<1>0. /\ Typed /\ Counted /\ AltsDiffer /\ IdsApart /\ IdsGiven
      /\ MenusKept => Aligned
      /\ MenusKept /\ ColumnsOfOneDigit => Mirrored
  BY DEF EditorInv
<1>1. /\ strip \in Seq(MenuType) /\ button \in Seq(EntryType) /\ made \in 0..MaxMade
      /\ ix \in Nat /\ Len(button) = ix /\ ix <= 3 /\ Len(strip) \in Nat
  BY <1>0, TypedElements DEF Typed, Counted
<1>2. /\ button[a].subs \in Seq(Nat) /\ c \in Nat /\ strip[a].subs \in Seq(LiType)
  BY <1>0, TypedElements
<1>3. made' \in 0..MaxMade
  BY <1>1, MadeMore
<1>4. /\ li \in LiType /\ li.row = a - 1 /\ li.col = c /\ li.nr = n
      /\ a - 1 \in NoAlt..2 /\ a - 1 # NoAlt /\ a - 1 \in Int /\ c \in Int
  <2>1. a - 1 \in 0..2
    BY <1>1
  <2>2. QED
    BY <1>2, <2>1 DEF Li, LiType, NoAlt
<1>5. /\ e \in Seq(Nat) /\ Len(e) = c + 1
  BY <1>2
<1>6. /\ button' \in Seq(EntryType) /\ Len(button') = Len(button)
      /\ \A i \in 1..Len(button) : i # a => button'[i] = button[i]
      /\ button'[a].nr = button[a].nr /\ button'[a].subs = e
  <2> HIDE DEF e
  <2>1. SubsSet(button', button, a, e)
    BY DEF e
  <2>2. a \in 1..Len(button) /\ button \in Seq(EntryType) /\ e \in Seq(Nat)
    BY <1>1, <1>5
  <2>3. /\ button' \in Seq(EntryType) /\ Len(button') = Len(button)
        /\ button'[a].nr = button[a].nr /\ button'[a].subs = e
    BY <2>1, <2>2, SetEntry
  <2>4. ASSUME NEW i \in 1..Len(button), i # a PROVE button'[i] = button[i]
    BY <2>1, <2>2, <2>4, SetEntry
  <2>5. QED
    BY <2>3, <2>4
<1>7. /\ ~Given(button, a - 1, c) /\ Given(button', a - 1, c) /\ button'[a] # Hole
  <2>1. (a - 1) + 1 = a /\ a - 1 \in 0..Len(button) - 1
    BY <1>1
  <2>2. ~(c < Len(button[a].subs)) /\ c < Len(button'[a].subs)
    BY <1>2, <1>5, <1>6
  <2>3. button'[a].subs # Hole.subs
    <3>1. Len(Hole.subs) = 0
      BY DEF Hole
    <3>2. Len(button'[a].subs) = c + 1 /\ c + 1 # 0
      BY <1>2, <1>5, <1>6
    <3>3. QED
      BY <3>1, <3>2
  <2>4. button'[a] # Hole
    BY <2>3
  <2>5. QED
    BY <1>2, <1>6, <2>1, <2>2, <2>4 DEF Given
<1>8. /\ g \in Seq(MenuType) /\ Len(g) = Len(strip) /\ Len(g[a].subs) # 0
      /\ g[a].subs \in Seq(LiType)
      /\ \A r \in 1..Len(strip) :
           /\ r # a /\ r # p => g[r] = strip[r]
           /\ g[r].nr = strip[r].nr /\ g[r].alt = strip[r].alt
           /\ \A row, col \in Int :
                HasId(g[r].subs, row, col) => HasId(strip[r].subs, row, col)
           /\ IdsDiffer(strip[r].subs) => IdsDiffer(g[r].subs)
  <2>1. g \in Seq(MenuType) /\ Len(g) = Len(strip)
    BY DEF Grown
  <2>2. g[a] \in MenuType
    BY <2>1
  <2>3. QED
    BY <2>1, <2>2 DEF Grown, MenuType
<1>9. ~HasId(g[a].subs, a - 1, c)
  BY <1>0, <1>4, <1>7, <1>8 DEF IdsGiven
<1>10. /\ x \in Seq(LiType)
       /\ \A row, col \in Int :
            HasId(x, row, col) => \/ HasId(strip[a].subs, row, col)
                                  \/ row = a - 1 /\ col = c
       /\ IdsDiffer(strip[a].subs) => IdsDiffer(x)
  <2>1. x \in Seq(LiType)
    BY <1>4, <1>8, WithLastGives
  <2>2. ~HasId(g[a].subs, li.row, li.col)
    BY <1>4, <1>9
  <2>3. /\ \A row, col \in Int :
             HasId(x, row, col) => \/ HasId(g[a].subs, row, col)
                                   \/ row = li.row /\ col = li.col
        /\ IdsDiffer(g[a].subs) => IdsDiffer(x)
    BY <1>4, <1>8, <2>2, WithLastIds
  <2> HIDE DEF x
  <2>4. QED
    BY <1>4, <1>8, <2>1, <2>3
<1>11. /\ h \in Seq(MenuType) /\ Len(h) = Len(strip)
       /\ \A r \in 1..Len(strip) :
            /\ r # a => h[r] = g[r]
            /\ h[r].nr = g[r].nr /\ h[r].alt = g[r].alt
            /\ h[r].subs = IF r = a THEN x ELSE g[r].subs
  <2> HIDE DEF x
  <2>1. SubsSet(h, g, a, x)
    BY DEF x
  <2>2. a \in 1..Len(g)
    BY <1>8
  <2>3. QED
    BY <1>8, <1>10, <2>1, <2>2, SetSubs
<1> HIDE DEF x, e, c
<1>12. /\ strip' \in Seq(MenuType) /\ Len(strip') = Len(strip)
       /\ \A r \in 1..Len(strip) :
            /\ r # p => strip'[r] = h[r]
            /\ strip'[r].nr = h[r].nr /\ strip'[r].alt = h[r].alt
            /\ strip'[r].subs = h[r].subs
  <2>1. p \in 1..Len(h)
    BY <1>11
  <2>2. QED
    BY <1>11, <2>1, SetPlus
<1>13. \A r \in 1..Len(strip) :
         /\ r # a /\ r # p => strip'[r] = strip[r]
         /\ strip'[r].nr = strip[r].nr /\ strip'[r].alt = strip[r].alt
         /\ strip'[r].subs = IF r = a THEN x ELSE g[r].subs
  BY <1>8, <1>11, <1>12
<1>14. Typed'
  BY <1>0, <1>3, <1>6, <1>12 DEF Typed
<1>15. Counted'
  BY <1>0, <1>1, <1>6, <1>12, <1>13 DEF Counted, PlusLast, HasPlus
<1>16. AltsDiffer'
  BY <1>0, <1>12, <1>13 DEF AltsDiffer
<1>17. IdsApart' /\ IdsGiven'
  <2> DEFINE origin == [r \in 1..Len(strip') |-> r]
  <2>1. Origin(origin) /\ \A r \in 1..Len(strip') : origin[r] = r
    BY <1>1, <1>12 DEF Origin
  <2> HIDE DEF origin
  <2>2. ASSUME NEW r \in 1..Len(strip')
        PROVE  /\ IdsDiffer(strip'[r].subs)
               /\ \A row, col \in Int :
                    HasId(strip'[r].subs, row, col) =>
                      \/ origin[r] # 0 /\ HasId(strip[origin[r]].subs, row, col)
                      \/ r = a /\ row = a - 1 /\ col = c
    <3>1. r \in 1..Len(strip) /\ origin[r] = r /\ r # 0
      BY <1>12, <2>1
    <3>2. IdsDiffer(strip[r].subs)
      BY <1>0, <3>1 DEF IdsApart
    <3>3. CASE r = a
      BY <1>10, <1>13, <3>1, <3>2, <3>3
    <3>4. CASE r # a
      BY <1>8, <1>13, <3>1, <3>2, <3>4
    <3>5. QED
      BY <3>3, <3>4
  <2>3. IdsFrom(origin, a, a - 1, c)
    BY <2>2 DEF IdsFrom
  <2>4. GivenOn
    <3>1. Len(button) <= Len(button')
      BY <1>1, <1>6
    <3>2. ASSUME NEW i \in 1..Len(button)
          PROVE  button'[i] = Hole \/ /\ button[i] # Hole
                                      /\ Len(button[i].subs) <= Len(button'[i].subs)
      <4>1. CASE i = a
        BY <1>2, <1>5, <1>6, <4>1 DEF c
      <4>2. CASE i # a
        <5>1. button'[i] = button[i] /\ Len(button[i].subs) \in Nat
          BY <1>0, <1>6, <4>2, TypedElements
        <5>2. QED
          BY <5>1
      <4>3. QED
        BY <4>1, <4>2
    <3>3. QED
      BY <1>0, <1>14, <3>1, <3>2, GivenStays DEF GivenOn
  <2>5. Typed /\ Typed' /\ IdsApart /\ IdsGiven /\ a - 1 \in Int /\ c \in Int
    BY <1>0, <1>4, <1>14
  <2>6. QED
    BY <1>7, <2>1, <2>3, <2>4, <2>5, IdsKept
<1>18. ASSUME MenusKept' PROVE Aligned'
  <2>1. MenusKept
    <3>1. \A i \in 1..Len(button) :
            i \in 1..Len(button') /\ (button[i] = Hole => button'[i] = Hole)
      BY <1>6
    <3>2. QED
      BY <1>18, <3>1, HolesStay
  <2>2. /\ Len(strip) = IF ix < 3 THEN ix + 1 ELSE ix
        /\ \A r \in 1..ix :
             /\ strip[r].nr = button[r].nr /\ strip[r].nr # 0 /\ strip[r].alt = r - 1
             /\ Len(strip[r].subs) <= 5
        /\ ix < 3 => strip[ix + 1] = PlusMenu
    BY <1>0, <2>1 DEF Aligned
  <2>3. /\ a = p /\ n # 0 /\ x = Append(strip[a].subs, li) /\ Len(strip[a].subs) < 5
    BY <2>1 DEF x
  <2>4. a \in 1..ix
    BY <1>1
  <2>5. ASSUME NEW r \in 1..ix
        PROVE  /\ strip'[r].nr = button'[r].nr /\ strip'[r].nr # 0
               /\ strip'[r].alt = r - 1
               /\ Len(strip'[r].subs) <= 5
    <3>1. r \in 1..Len(strip) /\ r \in 1..Len(button)
      BY <1>1, <2>2
    <3>2. CASE r = a
      <4>1. strip'[r].subs = Append(strip[r].subs, li)
        BY <1>13, <2>3, <3>1, <3>2
      <4>2. Len(Append(strip[r].subs, li)) <= 5
        <5>1. Len(Append(strip[r].subs, li)) = Len(strip[r].subs) + 1
          BY <1>2, <1>4, <3>2
        <5>2. Len(strip[r].subs) \in Nat /\ Len(strip[r].subs) < 5
          BY <1>2, <2>3, <3>2
        <5>3. QED
          BY <5>1, <5>2
      <4>3. QED
        BY <1>6, <1>13, <2>2, <3>1, <3>2, <4>1, <4>2
    <3>3. CASE r # a
      <4>1. strip'[r] = strip[r] /\ button'[r] = button[r]
        BY <1>6, <1>13, <2>3, <3>1, <3>3
      <4>2. QED
        BY <2>2, <4>1
    <3>4. QED
      BY <3>2, <3>3
  <2>6. ASSUME ix < 3 PROVE strip'[ix + 1] = PlusMenu
    <3>1. ix + 1 \in 1..Len(strip) /\ ix + 1 # a
      BY <1>1, <2>2, <2>4, <2>6
    <3>2. strip'[ix + 1] = strip[ix + 1]
      BY <1>13, <2>3, <3>1
    <3>3. QED
      BY <2>2, <2>6, <3>2
  <2>7. QED
    BY <1>12, <2>2, <2>5, <2>6 DEF Aligned
<1>19. ASSUME MenusKept', ColumnsOfOneDigit' PROVE Mirrored'
  <2>1. ASSUME NEW i \in 1..Len(button)
        PROVE  /\ i \in 1..Len(button') /\ (button[i] = Hole => button'[i] = Hole)
               /\ Len(button'[i].subs) <= 10 => Len(button[i].subs) <= 10
    <3>1. CASE i = a
      <4>1. i \in 1..Len(button') /\ button[i] # Hole
        BY <1>6, <3>1
      <4>2. Len(button'[i].subs) = c + 1 /\ Len(button[i].subs) = c
        BY <1>5, <1>6, <3>1 DEF c
      <4>3. QED
        BY <1>2, <4>1, <4>2
    <3>2. CASE i # a
      BY <1>6, <3>2
    <3>3. QED
      BY <3>1, <3>2
  <2>2. MenusKept /\ ColumnsOfOneDigit
    BY <1>19, <2>1, HolesStay, LongStay
  <2>3. /\ ix <= Len(strip) /\ \A r \in 1..ix : Mirrors(strip[r].subs, button[r].subs, r - 1)
        /\ a = p /\ n # 0 /\ x = Append(strip[a].subs, li)
    BY <1>0, <1>1, <2>2 DEF Aligned, Mirrored, x
  <2>4. ASSUME NEW r \in 1..ix PROVE Mirrors(strip'[r].subs, button'[r].subs, r - 1)
    <3>1. r \in 1..Len(strip) /\ r \in 1..Len(button)
      BY <1>1, <2>3
    <3>2. CASE r = a
      <4>1. strip'[r].subs = Append(strip[r].subs, li) /\ button'[r].subs = e
        BY <1>6, <1>13, <2>3, <3>1, <3>2
      <4>2. Mirrors(strip[r].subs, button[r].subs, a - 1)
        BY <2>3, <3>2
      <4>3. Mirrors(Append(strip[r].subs, Li(n, a - 1, c)), Append(button[r].subs, n), a - 1)
        BY <1>2, <2>3, <3>2, <4>2, MirrorsAppended DEF c
      <4>4. QED
        BY <3>2, <4>1, <4>3 DEF e, c
    <3>3. CASE r # a
      <4>1. strip'[r] = strip[r] /\ button'[r] = button[r]
        BY <1>6, <1>13, <2>3, <3>1, <3>3
      <4>2. QED
        BY <2>3, <4>1
    <3>4. QED
      BY <3>2, <3>3
  <2>5. QED
    BY <2>4 DEF Mirrored
<1>20. QED
  BY <1>14, <1>15, <1>16, <1>17, <1>18, <1>19 DEF EditorInv

LEMMA WithLastAppended ==
  ASSUME NEW lis \in Seq(LiType), NEW x \in LiType, NEW li \in LiType
  PROVE  WithLast(Append(lis, x), li) = Append(lis, li) /\ Last(Append(lis, x)) = x
<1> DEFINE s == Append(lis, x)
           t == Append(lis, li)
           w == WithLast(s, li)
<1>1. /\ s \in Seq(LiType) /\ Len(s) = Len(lis) + 1 /\ Len(lis) \in Nat
      /\ \A j \in 1..Len(lis) : s[j] = lis[j]
      /\ s[Len(lis) + 1] = x
  BY AppendGives
<1>2. /\ t \in Seq(LiType) /\ Len(t) = Len(lis) + 1
      /\ \A j \in 1..Len(lis) : t[j] = lis[j]
      /\ t[Len(lis) + 1] = li
  BY AppendGives
<1> HIDE DEF s, t
<1>0. Len(s) # 0
  BY <1>1
<1>3. /\ w \in Seq(LiType) /\ Len(w) = Len(s)
      /\ \A j \in 1..Len(s) : w[j] = IF j = Len(s) THEN li ELSE s[j]
  BY <1>0, <1>1, WithLastGives
<1> HIDE DEF w
<1>4. ASSUME NEW j \in 1..Len(lis) + 1 PROVE w[j] = t[j]
  BY <1>1, <1>2, <1>3
<1>5. w = t
  BY <1>1, <1>2, <1>3, <1>4
<1>6. Last(s) = x
  BY <1>1 DEF Last
<1>7. QED
  BY <1>5, <1>6 DEF w, s, t

(* While no menu was deleted, the menu of p is the one its alt says. *)
LEMMA KeptAims ==
  ASSUME EditorInv, MenusKept, NEW p \in 1..Len(strip), strip[p].nr # 0 \/ strip[p].plus
  PROVE  p \in 1..ix /\ p \in 1..Len(button) /\ strip[p].alt = p - 1 /\ button[p] # Hole
<1>1. ix \in Nat /\ Len(button) = ix /\ Aligned
  BY DEF EditorInv, Typed, Counted
<1>2. p \in 1..ix
  <2>1. p <= IF ix < 3 THEN ix + 1 ELSE ix
    BY <1>1 DEF Aligned
  <2>2. ix < 3 => p # ix + 1
    BY <1>1 DEF Aligned, PlusMenu, Menu
  <2>3. QED
    BY <1>1, <2>1, <2>2
<1>3. QED
  BY <1>1, <1>2 DEF Aligned, MenusKept

Aimed(p, a) ==
  /\ a \in 1..Len(strip) /\ strip[a].plus /\ At(button, a - 1) # Hole
  /\ strip[p].subs = <<>> \/ p = a \/ strip[a].subs # <<>>

GetsItem(g, p, a) ==
  LET item == Li(Next1, NoAlt, NoAlt)
  IN IF strip[p].subs = <<>> THEN SubsSet(g, strip, a, <<item>> \o strip[a].subs)
     ELSE SubsSet(g, strip, p, Append(strip[p].subs, item))

LEMMA AddSubGives ==
  ASSUME Typed, NEW p \in 1..Len(strip), AddSub(p), NEW a, a = strip[p].alt + 1
  PROVE  /\ made < MaxMade /\ made' = made + 1 /\ ix' = ix
         /\ strip[p].plus /\ Len(strip[p].subs) < 5
         /\ ~Aimed(p, a) =>
              /\ GetsItem(strip', p, a) /\ strip[p].subs # <<>>
              /\ UNCHANGED <<button, selected, panel>>
         /\ Aimed(p, a) => \E g, h, n, b : b \in BOOLEAN /\
              /\ GetsItem(g, p, a) /\ n = Last(g[a].subs).nr
              /\ SubsSet(h, g, a, WithLast(g[a].subs, Li(n, a - 1, Len(button[a].subs))))
              /\ PlusSet(strip', h, p, b)
              /\ SubsSet(button', button, a, Append(button[a].subs, n))
              /\ selected' = n /\ panel' = n
<1> DEFINE alt == strip[p].alt
           first == strip[p].subs = <<>>
           aimed == /\ alt + 1 \in 1..Len(strip) /\ strip[alt + 1].plus
                    /\ At(button, alt) # Hole
                    /\ first \/ p = alt + 1 \/ strip[alt + 1].subs # <<>>
           item == Li(Next1, NoAlt, NoAlt)
           grown == IF first THEN [strip EXCEPT ![alt + 1].subs = <<item>> \o @]
                    ELSE [strip EXCEPT ![p].subs = Append(@, item)]
           subs == grown[alt + 1].subs
           n == Last(subs).nr
           numbered == [grown EXCEPT ![alt + 1].subs =
                          WithLast(@, Li(n, alt, NextCol(alt)))]
           b == first \/ Len(strip[p].subs) < SubLimit - 1
<1>1. alt \in Int /\ a - 1 = alt
  BY TypedElements
<1>2. /\ made < MaxMade /\ made' = made + 1 /\ ix' = ix
      /\ strip[p].plus /\ Len(strip[p].subs) < 5 /\ (aimed \/ ~first)
  BY DEF AddSub, SubLimit
<1>3. aimed <=> Aimed(p, a)
  BY <1>1 DEF Aimed
<1>4. GetsItem(grown, p, a)
  BY DEF GetsItem, SubsSet
<1>5. ~aimed => strip' = grown /\ UNCHANGED <<button, selected, panel>>
  BY DEF AddSub
<1>6. aimed => /\ strip' = [numbered EXCEPT ![p].plus = b]
               /\ button' = [button EXCEPT ![alt + 1].subs = Append(@, n)]
               /\ selected' = n /\ panel' = n
  BY DEF AddSub
<1> HIDE DEF aimed
<1>7. ASSUME aimed
      PROVE  \E g, h, nn, bb : bb \in BOOLEAN /\
              /\ GetsItem(g, p, a) /\ nn = Last(g[a].subs).nr
              /\ SubsSet(h, g, a, WithLast(g[a].subs, Li(nn, a - 1, Len(button[a].subs))))
              /\ PlusSet(strip', h, p, bb)
              /\ SubsSet(button', button, a, Append(button[a].subs, nn))
              /\ selected' = nn /\ panel' = nn
  <2>1. SubsSet(numbered, grown, a, WithLast(grown[a].subs, Li(n, a - 1, Len(button[a].subs))))
    <3> HIDE DEF grown, n
    <3>1. NextCol(alt) = Len(button[a].subs)
      BY DEF NextCol
    <3>2. QED
      BY <1>1, <3>1 DEF SubsSet
  <2>2. PlusSet(strip', numbered, p, b)
    <3> HIDE DEF numbered, b
    <3>1. QED
      BY <1>6, <1>7 DEF PlusSet
  <2>3. SubsSet(button', button, a, Append(button[a].subs, n))
    <3> HIDE DEF n
    <3>1. QED
      BY <1>6, <1>7 DEF SubsSet
  <2>4. b \in BOOLEAN
    OBVIOUS
  <2>5. n = Last(grown[a].subs).nr /\ selected' = n /\ panel' = n
    BY <1>6, <1>7
  <2> HIDE DEF b, n, numbered, grown
  <2>6. QED
    BY <1>4, <2>1, <2>2, <2>3, <2>4, <2>5
<1>8. ~aimed => GetsItem(strip', p, a)
  <2> HIDE DEF grown
  <2>1. QED
    BY <1>4, <1>5
<1>9. ~aimed => strip[p].subs # <<>>
  BY <1>2
<1>10. QED
  BY <1>2, <1>3, <1>5, <1>7, <1>8, <1>9

LEMMA AddSubKeeps ==
  ASSUME EditorInv, NEW p \in 1..Len(strip), AddSub(p)
  PROVE  EditorInv'
<1> DEFINE item == Li(Next1, NoAlt, NoAlt)
           a == strip[p].alt + 1
<1>0. Typed /\ strip \in Seq(MenuType) /\ made \in 0..MaxMade
  BY DEF EditorInv, Typed
<1>1. a \in Int /\ (a - 1) + 1 = a /\ strip[p].alt = a - 1
  <2>1. strip[p].alt \in -1..2
    BY <1>0, TypedElements
  <2>2. QED
    BY <2>1
<1>2. strip[p].plus => (MenusKept => p \in 1..ix /\ p \in 1..Len(button) /\ a = p /\ button[p] # Hole)
  BY <1>1, KeptAims
<1> HIDE DEF a
<1>3. /\ made < MaxMade /\ made' = made + 1 /\ ix' = ix
      /\ strip[p].plus /\ Len(strip[p].subs) < 5
      /\ ~Aimed(p, a) =>
           /\ GetsItem(strip', p, a) /\ strip[p].subs # <<>>
           /\ UNCHANGED <<button, selected, panel>>
      /\ Aimed(p, a) => \E g, h, n, b : b \in BOOLEAN /\
           /\ GetsItem(g, p, a) /\ n = Last(g[a].subs).nr
           /\ SubsSet(h, g, a, WithLast(g[a].subs, Li(n, a - 1, Len(button[a].subs))))
           /\ PlusSet(strip', h, p, b)
           /\ SubsSet(button', button, a, Append(button[a].subs, n))
           /\ selected' = n /\ panel' = n
  <2>1. a = strip[p].alt + 1
    BY DEF a
  <2>2. QED
    BY <1>0, <2>1, AddSubGives
<1>4. MenusKept => Aimed(p, a)
  <2>1. SUFFICES ASSUME MenusKept PROVE Aimed(p, a)
    OBVIOUS
  <2>2. p \in 1..Len(button) /\ a = p /\ button[p] # Hole /\ Len(button) \in Nat
    BY <1>0, <1>2, <1>3, <2>1, TypedElements
  <2>3. At(button, a - 1) = button[p]
    BY <2>2 DEF At
  <2>4. QED
    BY <1>3, <2>2, <2>3 DEF Aimed
<1>5. item \in LiType /\ item.row = NoAlt /\ item.nr = Next1 /\ Next1 \in Nat /\ Next1 # 0
  <2>1. Next1 \in Nat /\ Next1 # 0
    BY <1>0, <1>3, MadeMore
  <2>2. QED
    BY <2>1 DEF Li, LiType, NoAlt
<1>6. CASE ~Aimed(p, a)
  <2>1. SubsSet(strip', strip, p, Append(strip[p].subs, item))
    BY <1>3, <1>6 DEF GetsItem
  <2>2. QED
    BY <1>3, <1>4, <1>6, <2>1, AddItemKeeps
<1>7. CASE Aimed(p, a)
  <2>1. PICK g, h, n, b : b \in BOOLEAN /\
           /\ GetsItem(g, p, a) /\ n = Last(g[a].subs).nr
           /\ SubsSet(h, g, a, WithLast(g[a].subs, Li(n, a - 1, Len(button[a].subs))))
           /\ PlusSet(strip', h, p, b)
           /\ SubsSet(button', button, a, Append(button[a].subs, n))
           /\ selected' = n /\ panel' = n
    BY <1>3, <1>7
  <2>2. a \in 1..Len(strip) /\ a \in 1..Len(button) /\ button[a] # Hole
    <3>1. a \in 1..Len(strip) /\ At(button, a - 1) # Hole
      BY <1>7 DEF Aimed
    <3>2. a - 1 \in 0..Len(button) - 1 /\ At(button, a - 1) = button[a]
      BY <1>1, <3>1 DEF At
    <3>3. a \in 1..Len(button)
      BY <1>0, <1>1, <3>2, TypedElements
    <3>4. QED
      BY <3>1, <3>2, <3>3
  <2>3. strip[p].subs \in Seq(LiType) /\ strip[a].subs \in Seq(LiType)
    BY <1>0, <2>2, TypedElements
  <2>4. /\ g \in Seq(MenuType) /\ Len(g) = Len(strip) /\ Len(g[a].subs) # 0
        /\ \A r \in 1..Len(strip) :
             /\ r # a /\ r # p => g[r] = strip[r]
             /\ g[r].nr = strip[r].nr /\ g[r].alt = strip[r].alt
             /\ \/ g[r].subs = strip[r].subs
                \/ g[r].subs = Append(strip[r].subs, item)
                \/ g[r].subs = <<item>> \o strip[r].subs
        /\ a = p => g[a].subs = Append(strip[a].subs, item)
    <3>1. CASE strip[p].subs = <<>>
      <4> DEFINE x == <<item>> \o strip[a].subs
      <4>1. x \in Seq(LiType) /\ Len(x) = Len(strip[a].subs) + 1
        BY <1>5, <2>3, PrependGives
      <4>2. a = p => x = Append(strip[a].subs, item)
        <5>1. <<item>> \o <<>> = <<item>> /\ Append(<<>>, item) = <<item>>
          BY <1>5
        <5>2. QED
          BY <3>1, <5>1
      <4> HIDE DEF x
      <4>3. SubsSet(g, strip, a, x)
        BY <2>1, <3>1 DEF GetsItem, x
      <4>4. /\ g \in Seq(MenuType) /\ Len(g) = Len(strip)
            /\ \A r \in 1..Len(strip) :
                 /\ r # a => g[r] = strip[r]
                 /\ g[r].nr = strip[r].nr /\ g[r].alt = strip[r].alt
                 /\ g[r].subs = IF r = a THEN x ELSE strip[r].subs
        BY <1>0, <2>2, <4>1, <4>3, SetSubs
      <4>5. Len(g[a].subs) # 0
        BY <2>2, <2>3, <4>1, <4>4
      <4>6. \A r \in 1..Len(strip) :
              g[r].subs = strip[r].subs \/ g[r].subs = <<item>> \o strip[r].subs
        BY <4>4 DEF x
      <4>7. QED
        BY <2>2, <4>2, <4>4, <4>5, <4>6
    <3>2. CASE strip[p].subs # <<>>
      <4> DEFINE x == Append(strip[p].subs, item)
      <4>1. x \in Seq(LiType) /\ Len(x) = Len(strip[p].subs) + 1
        BY <1>5, <2>3, AppendGives
      <4> HIDE DEF x
      <4>3. SubsSet(g, strip, p, x)
        BY <2>1, <3>2 DEF GetsItem, x
      <4>4. /\ g \in Seq(MenuType) /\ Len(g) = Len(strip)
            /\ \A r \in 1..Len(strip) :
                 /\ r # p => g[r] = strip[r]
                 /\ g[r].nr = strip[r].nr /\ g[r].alt = strip[r].alt
                 /\ g[r].subs = IF r = p THEN x ELSE strip[r].subs
        BY <1>0, <4>1, <4>3, SetSubs
      <4>5. Len(g[a].subs) # 0
        <5>1. CASE a = p
          BY <2>2, <2>3, <4>1, <4>4, <5>1
        <5>2. CASE a # p
          <6>1. g[a].subs = strip[a].subs /\ strip[a].subs # <<>>
            BY <1>7, <2>2, <3>2, <4>4, <5>2 DEF Aimed
          <6>2. QED
            BY <2>3, <6>1
        <5>3. QED
          BY <5>1, <5>2
      <4>6. \A r \in 1..Len(strip) :
              g[r].subs = strip[r].subs \/ g[r].subs = Append(strip[r].subs, item)
        BY <4>4 DEF x
      <4>7. QED
        BY <2>2, <4>4, <4>5, <4>6 DEF x
    <3>3. QED
      BY <3>1, <3>2
  <2> HIDE DEF item
  <2>5. Grown(g, a, p)
    <3>1. ASSUME NEW r \in 1..Len(strip)
          PROVE  /\ \A row, col \in Int :
                      HasId(g[r].subs, row, col) => HasId(strip[r].subs, row, col)
                 /\ IdsDiffer(strip[r].subs) => IdsDiffer(g[r].subs)
      <4>1. strip[r].subs \in Seq(LiType)
        BY <1>0, TypedElements
      <4>2. CASE g[r].subs = Append(strip[r].subs, item)
        BY <1>5, <4>1, <4>2, AppendIds
      <4>3. CASE g[r].subs = <<item>> \o strip[r].subs
        BY <1>5, <4>1, <4>3, PrependIds
      <4>4. CASE g[r].subs = strip[r].subs
        BY <4>4
      <4>5. QED
        BY <2>4, <4>2, <4>3, <4>4
    <3>2. QED
      BY <2>4, <3>1 DEF Grown
  <2>6. n \in Nat
    <3>1. g[a] \in MenuType
      BY <2>2, <2>4
    <3>2. g[a].subs \in Seq(LiType)
      BY <3>1 DEF MenuType
    <3>3. Last(g[a].subs) \in LiType
      BY <2>4, <3>2 DEF Last
    <3>4. QED
      BY <2>1, <3>3 DEF LiType
  <2> DEFINE li == Li(n, a - 1, Len(button[a].subs))
  <2>7. MenusKept => /\ a = p /\ n # 0 /\ Len(strip[a].subs) < 5
                     /\ WithLast(g[a].subs, li) = Append(strip[a].subs, li)
    <3>1. SUFFICES ASSUME MenusKept
                   PROVE  /\ a = p /\ n # 0 /\ Len(strip[a].subs) < 5
                          /\ WithLast(g[a].subs, li) = Append(strip[a].subs, li)
      OBVIOUS
    <3>2. a = p /\ a \in 1..ix /\ ix <= 3
      BY <1>2, <1>3, <3>1 DEF EditorInv, Counted
    <3>3. li \in LiType
      <4>1. Len(button[a].subs) \in Nat
        BY <1>0, <2>2, TypedElements
      <4>2. a - 1 \in NoAlt..2
        BY <3>2 DEF EditorInv, Typed, NoAlt
      <4>3. QED
        BY <2>6, <4>1, <4>2 DEF Li, LiType
    <3> HIDE DEF li
    <3>4. g[a].subs = Append(strip[a].subs, item)
      BY <2>4, <3>2
    <3>5. /\ WithLast(Append(strip[a].subs, item), li) = Append(strip[a].subs, li)
          /\ Last(Append(strip[a].subs, item)) = item
      BY <1>5, <2>3, <3>3, WithLastAppended
    <3>6. n = Next1
      BY <1>5, <2>1, <3>4, <3>5
    <3>7. QED
      BY <1>3, <1>5, <3>2, <3>4, <3>5, <3>6
  <2>8. SubsSet(h, g, a, WithLast(g[a].subs, li))
    BY <2>1
  <2>9. li = Li(n, a - 1, Len(button[a].subs))
    OBVIOUS
  <2> HIDE DEF li
  <2>10. QED
    BY <1>3, <2>1, <2>2, <2>5, <2>6, <2>7, <2>8, <2>9, NumberedKeeps
<1>8. QED
  BY <1>6, <1>7

--------------------------------------------------------------------------------
(* Deletions.                                                               *)

LEMMA DelMenuKeeps == ASSUME EditorInv, DelMenu PROVE EditorInv'
<1>0. /\ Typed /\ Counted /\ AltsDiffer /\ IdsApart /\ IdsGiven
      /\ MenusKept => Aligned
      /\ MenusKept /\ ColumnsOfOneDigit => Mirrored
  BY DEF EditorInv
<1>1. PICK p \in 1..Len(strip) :
        /\ strip[p].nr = selected /\ selected # 0
        /\ strip' = RemoveAt(strip, p)
        /\ button' = HoleAt(button, strip[p].alt, Hole)
  BY DEF DelMenu
<1>2. selected' = 0 /\ panel' = 0 /\ ix' = ix /\ made' = made
  BY DEF DelMenu
<1> DEFINE n == Len(strip)
           at(r) == IF r < p THEN r ELSE r + 1
<1>3. /\ strip \in Seq(MenuType) /\ button \in Seq(EntryType) /\ n \in Nat
      /\ Len(button) = ix /\ ix \in Nat
  BY <1>0, TypedElements DEF Typed, Counted
<1>4. /\ strip' \in Seq(MenuType) /\ Len(strip') = n - 1
      /\ \A r \in 1..n - 1 : strip'[r] = strip[at(r)]
  BY <1>1, <1>3, Removed
<1>5. /\ \A r \in 1..n - 1 : at(r) \in 1..n /\ at(r) # p /\ at(r) # 0
      /\ \A r, t \in 1..n - 1 : at(r) = at(t) => r = t
      /\ p # n => at(n - 1) = n
      /\ p = n => \A r \in 1..n - 1 : at(r) # n
      /\ \A r \in 1..n - 1 : r # n - 1 => at(r) # n
  BY <1>3
<1>6. Hole \in EntryType
  BY DEF Hole, EntryType
<1>7. /\ button' \in Seq(EntryType) /\ Len(button') = Len(button)
      /\ \A i \in 1..Len(button) :
           button'[i] = IF i = strip[p].alt + 1 THEN Hole ELSE button[i]
  <2>1. strip[p].alt \in -1..2
    BY <1>0, TypedElements
  <2> DEFINE alt == strip[p].alt
  <2>2. CASE alt \in 0..Len(button) - 1
    <3>1. button' = [button EXCEPT ![alt + 1] = Hole]
      BY <1>1, <2>2 DEF HoleAt
    <3> HIDE DEF alt
    <3>2. QED
      BY <1>3, <1>6, <2>2, <3>1 DEF alt
  <2>3. CASE ~(alt \in 0..Len(button) - 1)
    <3>1. button' = button
      BY <1>1, <2>3 DEF HoleAt
    <3> DEFINE k == Len(button)
    <3>2. k \in Nat
      BY <1>3
    <3>3. ASSUME NEW i \in 1..k PROVE i # alt + 1
      <4> HIDE DEF k
      <4>1. ~(alt \in 0..k - 1)
        BY <2>3 DEF k
      <4> HIDE DEF alt
      <4>2. alt \in -1..2
        BY <2>1 DEF alt
      <4>3. QED
        BY <3>2, <4>1, <4>2
    <3>4. QED
      BY <1>3, <3>1, <3>3
  <2>4. QED
    BY <2>2, <2>3
<1> HIDE DEF at
<1>8. Typed'
  BY <1>0, <1>2, <1>4, <1>7 DEF Typed
<1>9. Counted'
  <2>1. ix' <= 3 /\ Len(button') = ix'
    BY <1>0, <1>2, <1>7 DEF Counted
  <2>2. /\ HasPlus => ix <= 2 /\ n <= ix + 1
        /\ ~HasPlus => n <= 3
        /\ \A r \in 1..n : r # n => strip[r].nr # 0
        /\ HasPlus <=> n # 0 /\ strip[n].nr = 0
    BY <1>0 DEF Counted, PlusLast, HasPlus
  <2>3. \A r \in 1..n - 1 : r # n - 1 => strip'[r].nr # 0
    BY <1>4, <1>5, <2>2
  <2>4. CASE HasPlus
    <3>1. p # n
      BY <1>1, <2>2, <2>4
    <3>2. n - 1 \in 1..n - 1
      BY <1>3, <3>1
    <3>3. strip'[n - 1].nr = 0
      BY <1>4, <1>5, <2>2, <2>4, <3>1, <3>2
    <3>4. Len(strip') # 0 /\ strip'[Len(strip')].nr = 0
      BY <1>4, <3>2, <3>3
    <3>5. HasPlus'
      BY <3>4 DEF HasPlus
    <3>6. ix' <= 2 /\ Len(strip') <= ix' + 1
      BY <1>2, <1>3, <1>4, <2>2, <2>4
    <3>7. QED
      BY <1>4, <2>1, <2>3, <3>5, <3>6 DEF Counted, PlusLast
  <2>5. CASE ~HasPlus
    <3>1. \A r \in 1..n : strip[r].nr # 0
      BY <1>3, <2>2, <2>5
    <3>2. \A r \in 1..n - 1 : strip'[r].nr # 0
      BY <1>4, <1>5, <3>1
    <3>3. ~HasPlus'
      <4>1. SUFFICES ASSUME HasPlus' PROVE FALSE
        OBVIOUS
      <4>2. n - 1 # 0 /\ strip'[n - 1].nr = 0
        BY <1>4, <4>1 DEF HasPlus
      <4>3. n - 1 \in 1..n - 1
        <5>1. p \in 1..n
          OBVIOUS
        <5>2. n \in Nat /\ n - 1 # 0
          BY <1>3, <4>2
        <5> HIDE DEF n
        <5>3. n >= 2 /\ n - 1 \in Int
          BY <5>1, <5>2
        <5>4. QED
          BY <5>2, <5>3
      <4>4. QED
        BY <3>2, <4>2, <4>3
    <3>4. Len(strip') <= 3
      BY <1>3, <1>4, <2>2, <2>5
    <3>5. QED
      BY <1>4, <2>1, <2>3, <3>3, <3>4 DEF Counted, PlusLast
  <2>6. QED
    BY <2>4, <2>5
<1> DEFINE origin == [r \in 1..Len(strip') |-> at(r)]
<1>10. /\ Origin(origin)
       /\ \A r \in 1..Len(strip') : /\ origin[r] # 0 /\ origin[r] \in 1..n
                                    /\ strip'[r] = strip[origin[r]]
  <2>1. \A r \in 1..Len(strip') : origin[r] = at(r) /\ r \in 1..n - 1
    BY <1>4
  <2>2. origin \in [1..Len(strip') -> 0..n]
    BY <1>3, <1>4, <1>5
  <2> HIDE DEF origin
  <2>3. QED
    BY <1>4, <1>5, <2>1, <2>2 DEF Origin
<1> HIDE DEF origin
<1>11. AltsDiffer'
  <2>1. AltsFrom(origin, 0) /\ ix <= ix'
    BY <1>2, <1>3, <1>10 DEF AltsFrom
  <2>2. QED
    BY <1>0, <1>8, <1>10, <2>1, AltsKept
<1>12. IdsApart' /\ IdsGiven'
  <2>1. IdsFrom(origin, 0, -1, 0)
    BY <1>0, <1>10 DEF IdsFrom, IdsApart
  <2>2. GivenOn
    <3>1. Len(button) <= Len(button')
      BY <1>3, <1>7
    <3>2. \A i \in 1..Len(button) :
            button'[i] = Hole \/ /\ button[i] # Hole
                                 /\ Len(button[i].subs) <= Len(button'[i].subs)
      <4>1. \A i \in 1..Len(button) : Len(button[i].subs) \in Nat
        BY <1>0, TypedElements
      <4>2. QED
        BY <1>7, <4>1
    <3>3. QED
      BY <1>0, <1>8, <3>1, <3>2, GivenStays DEF GivenOn
  <2>3. ~Given(button, -1, 0) /\ -1 \in Int /\ 0 \in Int /\ 0 \notin 1..Len(strip')
    BY DEF Given
  <2>4. QED
    BY <1>0, <1>8, <1>10, <2>1, <2>2, <2>3, IdsKept
<1>13. ~MenusKept'
  <2>1. SUFFICES ASSUME MenusKept' PROVE FALSE
    OBVIOUS
  <2>2. MenusKept
    <3>1. \A i \in 1..Len(button) :
            i \in 1..Len(button') /\ (button[i] = Hole => button'[i] = Hole)
      BY <1>7
    <3>2. QED
      BY <2>1, <3>1, HolesStay
  <2>3. p \in 1..Len(button) /\ strip[p].alt = p - 1
    BY <1>1, <2>2, KeptAims
  <2>4. p = strip[p].alt + 1
    BY <2>3
  <2>5. button'[p] = Hole
    BY <1>7, <2>3, <2>4
  <2>6. QED
    BY <1>7, <2>1, <2>3, <2>5 DEF MenusKept
<1>14. QED
  BY <1>8, <1>9, <1>11, <1>12, <1>13 DEF EditorInv

LEMMA ZeroAt ==
  ASSUME NEW s \in Seq(Nat), NEW k
  PROVE  [s EXCEPT ![k] = 0] \in Seq(Nat) /\ Len([s EXCEPT ![k] = 0]) = Len(s)
<1> DEFINE t == [s EXCEPT ![k] = 0]
<1>1. t = [j \in 1..Len(s) |-> IF j = k THEN 0 ELSE s[j]]
  OBVIOUS
<1>2. \A j \in 1..Len(s) : (IF j = k THEN 0 ELSE s[j]) \in Nat
  OBVIOUS
<1>3. Len(s) \in Nat
  OBVIOUS
<1> HIDE DEF t
<1>4. t \in Seq(Nat) /\ Len(t) = Len(s)
  BY <1>1, <1>2, <1>3
<1>5. QED
  BY <1>4 DEF t

LEMMA DelSubKeeps == ASSUME EditorInv, DelSub PROVE EditorInv'
<1>0. /\ Typed /\ Counted /\ AltsDiffer /\ IdsApart /\ IdsGiven
      /\ MenusKept => Aligned
      /\ MenusKept /\ ColumnsOfOneDigit => Mirrored
  BY DEF EditorInv
<1> DEFINE Deletes(p, q) ==
             /\ strip[p].subs[q].nr = selected /\ selected # 0
             /\ SubsSet(strip', strip, p, RemoveAt(strip[p].subs, q))
             /\ button' = IF At(button, strip[p].subs[q].row) = Hole THEN button
                          ELSE [button EXCEPT ![strip[p].subs[q].row + 1].subs =
                                  HoleAt(@, FirstDigit(strip[p].subs[q].col), 0)]
             /\ panel' \in {panel, 0}
<1>a. \E p \in 1..Len(strip) : \E q \in 1..Len(strip[p].subs) : Deletes(p, q)
  BY DEF DelSub, SubsSet
<1> HIDE DEF Deletes
<1>b. PICK p \in 1..Len(strip) : \E q \in 1..Len(strip[p].subs) : Deletes(p, q)
  BY <1>a
<1>c. PICK q \in 1..Len(strip[p].subs) : Deletes(p, q)
  BY <1>b
<1>1. /\ strip[p].subs[q].nr = selected /\ selected # 0
      /\ SubsSet(strip', strip, p, RemoveAt(strip[p].subs, q))
      /\ button' = IF At(button, strip[p].subs[q].row) = Hole THEN button
                   ELSE [button EXCEPT ![strip[p].subs[q].row + 1].subs =
                           HoleAt(@, FirstDigit(strip[p].subs[q].col), 0)]
      /\ panel' \in {panel, 0}
  BY <1>c DEF Deletes
<1>2. selected' = 0 /\ panel' \in Nat /\ ix' = ix /\ made' = made
  BY <1>0, <1>1 DEF DelSub, Typed
<1> DEFINE old == strip[p].subs
           li == old[q]
           x == RemoveAt(old, q)
           row == li.row
           digit == FirstDigit(li.col)
           e == HoleAt(button[row + 1].subs, digit, 0)
<1>3. /\ strip \in Seq(MenuType) /\ button \in Seq(EntryType)
      /\ old \in Seq(LiType) /\ Len(button) = ix /\ ix \in Nat /\ Len(strip) \in Nat
  BY <1>0, TypedElements DEF Typed, Counted
<1>4. li \in LiType /\ row \in -1..2 /\ li.col \in Int
  <2>1. li \in LiType
    BY <1>3
  <2>2. QED
    BY <2>1 DEF LiType, NoAlt
<1>5. /\ x \in Seq(LiType) /\ Len(x) = Len(old) - 1
      /\ \A r1, c1 \in Int : HasId(x, r1, c1) => HasId(old, r1, c1)
      /\ IdsDiffer(old) => IdsDiffer(x)
  BY <1>3, Removed, RemovedIds
<1> HIDE DEF x
<1>6. /\ strip' \in Seq(MenuType) /\ Len(strip') = Len(strip)
      /\ \A r \in 1..Len(strip) :
           /\ r # p => strip'[r] = strip[r]
           /\ strip'[r].nr = strip[r].nr /\ strip'[r].alt = strip[r].alt
           /\ strip'[r].subs = IF r = p THEN x ELSE strip[r].subs
  <2>1. SubsSet(strip', strip, p, x)
    BY <1>1 DEF x
  <2>2. QED
    BY <1>3, <1>5, <2>1, SetSubs
<1>7. At(button, row) # Hole =>
        /\ row + 1 \in 1..Len(button) /\ button[row + 1] # Hole
        /\ button[row + 1].subs \in Seq(Nat)
        /\ e \in Seq(Nat) /\ Len(e) = Len(button[row + 1].subs)
        /\ digit \in 0..Len(button[row + 1].subs) - 1
             => e = [button[row + 1].subs EXCEPT ![digit + 1] = 0]
        /\ SubsSet(button', button, row + 1, e)
  <2>1. SUFFICES ASSUME At(button, row) # Hole
        PROVE  /\ row + 1 \in 1..Len(button) /\ button[row + 1] # Hole
               /\ button[row + 1].subs \in Seq(Nat)
               /\ e \in Seq(Nat) /\ Len(e) = Len(button[row + 1].subs)
               /\ digit \in 0..Len(button[row + 1].subs) - 1
                    => e = [button[row + 1].subs EXCEPT ![digit + 1] = 0]
               /\ SubsSet(button', button, row + 1, e)
    OBVIOUS
  <2>2. row \in 0..Len(button) - 1 /\ button[row + 1] # Hole
    BY <2>1 DEF At
  <2>3. row + 1 \in 1..Len(button)
    BY <1>3, <1>4, <2>2
  <2> DEFINE subs == button[row + 1].subs
  <2>4. subs \in Seq(Nat)
    BY <1>0, <2>3, TypedElements
  <2>5. SubsSet(button', button, row + 1, e)
    BY <1>1, <2>1 DEF SubsSet
  <2>6. /\ e \in Seq(Nat) /\ Len(e) = Len(subs)
        /\ digit \in 0..Len(subs) - 1 => e = [subs EXCEPT ![digit + 1] = 0]
    <3> DEFINE col == digit
    <3> HIDE DEF subs, col
    <3>1. e = IF col \in 0..Len(subs) - 1 THEN [subs EXCEPT ![col + 1] = 0] ELSE subs
      BY DEF HoleAt, subs, col
    <3> HIDE DEF e
    <3>2. /\ [subs EXCEPT ![col + 1] = 0] \in Seq(Nat)
          /\ Len([subs EXCEPT ![col + 1] = 0]) = Len(subs)
      BY <2>4, ZeroAt
    <3>3. QED
      BY <2>4, <3>1, <3>2 DEF col
  <2>7. QED
    BY <2>2, <2>3, <2>4, <2>5, <2>6
<1> HIDE DEF e, row, digit
<1>8. /\ button' \in Seq(EntryType) /\ Len(button') = Len(button)
      /\ \A i \in 1..Len(button) :
           \/ button'[i] = button[i]
           \/ /\ i = row + 1 /\ button[i] # Hole /\ At(button, row) # Hole
              /\ button'[i].nr = button[i].nr /\ button'[i].subs = e
              /\ Len(e) = Len(button[i].subs)
      /\ At(button, row) # Hole => \A i \in 1..Len(button) : i # row + 1 => button'[i] = button[i]
  <2>1. CASE At(button, row) = Hole
    <3>1. button' = button
      BY <1>1, <2>1 DEF row
    <3>2. QED
      BY <1>3, <2>1, <3>1
  <2>2. CASE At(button, row) # Hole
    <3> DEFINE i == row + 1
    <3>1. /\ i \in 1..Len(button) /\ button[i] # Hole /\ e \in Seq(Nat)
          /\ Len(e) = Len(button[i].subs) /\ SubsSet(button', button, i, e)
      BY <1>7, <2>2
    <3> HIDE DEF i
    <3>0. button \in Seq(EntryType)
      BY <1>3
    <3>2. /\ button' \in Seq(EntryType) /\ Len(button') = Len(button)
          /\ button'[i].nr = button[i].nr /\ button'[i].subs = e
      BY <3>0, <3>1, SetEntry
    <3>3. ASSUME NEW j \in 1..Len(button), j # i PROVE button'[j] = button[j]
      BY <3>0, <3>1, <3>3, SetEntry
    <3>4. QED
      BY <2>2, <3>1, <3>2, <3>3 DEF i
  <2>3. QED
    BY <2>1, <2>2
<1>9. Typed'
  BY <1>0, <1>2, <1>6, <1>8 DEF Typed
<1>10. Counted'
  BY <1>0, <1>2, <1>6, <1>8 DEF Counted, PlusLast, HasPlus
<1>11. AltsDiffer'
  BY <1>0, <1>2, <1>6 DEF AltsDiffer
<1>12. IdsApart' /\ IdsGiven'
  <2> DEFINE origin == [r \in 1..Len(strip') |-> r]
  <2>1. Origin(origin) /\ \A r \in 1..Len(strip') : origin[r] = r
    BY <1>3, <1>6 DEF Origin
  <2> HIDE DEF origin
  <2>2. ASSUME NEW r \in 1..Len(strip')
        PROVE  /\ IdsDiffer(strip'[r].subs)
               /\ \A r1, c1 \in Int :
                    HasId(strip'[r].subs, r1, c1) =>
                      origin[r] # 0 /\ HasId(strip[origin[r]].subs, r1, c1)
    <3>1. r \in 1..Len(strip) /\ origin[r] = r /\ r # 0
      BY <1>6, <2>1
    <3>2. IdsDiffer(strip[r].subs)
      BY <1>0, <3>1 DEF IdsApart
    <3>3. CASE r = p
      BY <1>5, <1>6, <3>1, <3>2, <3>3
    <3>4. CASE r # p
      BY <1>6, <3>1, <3>2, <3>4
    <3>5. QED
      BY <3>3, <3>4
  <2>3. IdsFrom(origin, 0, -1, 0)
    BY <2>2 DEF IdsFrom
  <2>4. GivenOn
    <3>1. Len(button) <= Len(button')
      BY <1>3, <1>8
    <3>2. \A i \in 1..Len(button) :
            button'[i] = Hole \/ /\ button[i] # Hole
                                 /\ Len(button[i].subs) <= Len(button'[i].subs)
      <4>1. \A i \in 1..Len(button) : Len(button[i].subs) \in Nat
        BY <1>0, TypedElements
      <4>2. QED
        BY <1>8, <4>1
    <3>3. QED
      BY <1>0, <1>9, <3>1, <3>2, GivenStays DEF GivenOn
  <2>5. ~Given(button, -1, 0) /\ -1 \in Int /\ 0 \in Int /\ 0 \notin 1..Len(strip')
    BY DEF Given
  <2>6. QED
    BY <1>0, <1>9, <2>1, <2>3, <2>4, <2>5, IdsKept
<1>13. ASSUME MenusKept'
       PROVE  MenusKept /\ p \in 1..ix /\ p \in 1..Len(button) /\ button[p] # Hole
  <2>1. \A i \in 1..Len(button) :
          i \in 1..Len(button') /\ (button[i] = Hole => button'[i] = Hole)
    BY <1>8
  <2>2. MenusKept
    BY <1>13, <2>1, HolesStay
  <2>3. p <= IF ix < 3 THEN ix + 1 ELSE ix
    BY <1>0, <2>2 DEF Aligned
  <2>4. ix < 3 => p # ix + 1
    <3>1. SUFFICES ASSUME ix < 3, p = ix + 1 PROVE FALSE
      OBVIOUS
    <3>2. strip[p].subs = <<>>
      BY <1>0, <2>2, <3>1 DEF Aligned, PlusMenu, Menu
    <3>3. QED
      BY <3>2
  <2>5. p \in 1..ix /\ p \in 1..Len(button)
    BY <1>3, <2>3, <2>4
  <2>6. QED
    BY <2>2, <2>5 DEF MenusKept
<1>14. ASSUME MenusKept' PROVE Aligned'
  <2>1. MenusKept /\ Aligned /\ p \in 1..ix
    BY <1>0, <1>13, <1>14
  <2>2. Len(strip') = IF ix' < 3 THEN ix' + 1 ELSE ix'
    BY <1>2, <1>6, <2>1 DEF Aligned
  <2>3. Len(x) <= 5
    <3>1. Len(old) \in Nat /\ Len(old) <= 5
      BY <1>3, <2>1 DEF Aligned
    <3>2. QED
      BY <1>5, <3>1
  <2>4. ASSUME NEW r \in 1..ix'
        PROVE  /\ strip'[r].nr = button'[r].nr /\ strip'[r].nr # 0
               /\ strip'[r].alt = r - 1 /\ Len(strip'[r].subs) <= 5
    <3>1. r \in 1..Len(strip) /\ r \in 1..ix /\ r \in 1..Len(button)
      BY <1>2, <1>3, <2>1 DEF Aligned
    <3>2. button'[r].nr = button[r].nr
      BY <1>8, <3>1
    <3>3. /\ strip[r].nr = button[r].nr /\ strip[r].nr # 0 /\ strip[r].alt = r - 1
          /\ Len(strip[r].subs) <= 5
      BY <2>1, <3>1 DEF Aligned
    <3>4. strip'[r].nr = strip[r].nr /\ strip'[r].alt = strip[r].alt
      BY <1>6, <3>1
    <3>5. strip'[r].subs = IF r = p THEN x ELSE strip[r].subs
      BY <1>6, <3>1
    <3>6. Len(strip'[r].subs) <= 5
      BY <2>3, <3>3, <3>5
    <3>7. QED
      BY <3>2, <3>3, <3>4, <3>6
  <2>5. ASSUME ix' < 3 PROVE strip'[ix' + 1] = PlusMenu
    <3>1. ix + 1 \in 1..Len(strip) /\ ix + 1 # p
      BY <1>2, <1>3, <2>1, <2>5 DEF Aligned
    <3>2. strip'[ix + 1] = strip[ix + 1]
      BY <1>6, <3>1
    <3>3. QED
      BY <1>2, <2>1, <2>5, <3>2 DEF Aligned
  <2>6. QED
    BY <2>2, <2>4, <2>5 DEF Aligned
<1>15. ASSUME MenusKept', ColumnsOfOneDigit' PROVE Mirrored'
  <2>1. MenusKept /\ Aligned /\ p \in 1..ix /\ p \in 1..Len(button) /\ button[p] # Hole
    BY <1>0, <1>13, <1>15
  <2>2. ColumnsOfOneDigit
    <3>1. \A i \in 1..Len(button) :
            /\ i \in 1..Len(button')
            /\ Len(button'[i].subs) <= 10 => Len(button[i].subs) <= 10
      BY <1>8
    <3>2. QED
      BY <1>15, <3>1, LongStay
  <2>3. \A r \in 1..ix : Mirrors(strip[r].subs, button[r].subs, r - 1)
    BY <1>0, <2>1, <2>2 DEF Mirrored
  <2>4. /\ row = p - 1 /\ li.col \in 0..Len(button[p].subs) - 1
        /\ Mirrors(old, button[p].subs, p - 1)
    BY <2>1, <2>3 DEF Mirrors, row
  <2>5. digit = li.col
    <3>1. Len(button[p].subs) <= 10 /\ Len(button[p].subs) \in Nat
      BY <1>0, <2>1, <2>2, TypedElements DEF ColumnsOfOneDigit
    <3>2. li.col < 10
      BY <2>4, <3>1
    <3>3. QED
      BY <1>4, <3>2, OneDigit DEF digit
  <2>6. row + 1 = p /\ row \in 0..Len(button) - 1
    BY <1>3, <2>1, <2>4
  <2>7. At(button, row) # Hole
    BY <2>1, <2>6 DEF At
  <2>8. /\ button[p].subs \in Seq(Nat) /\ e = [button[p].subs EXCEPT ![li.col + 1] = 0]
    BY <1>7, <2>4, <2>5, <2>6, <2>7
  <2>9. /\ button'[p].subs = e
        /\ \A i \in 1..ix : i # p => button'[i] = button[i]
    <3>1. \A i \in 1..ix : i # p => button'[i] = button[i]
      BY <1>3, <1>8, <2>6, <2>7
    <3>2. /\ p \in 1..Len(button) /\ button \in Seq(EntryType) /\ e \in Seq(Nat)
          /\ SubsSet(button', button, p, e)
      BY <1>3, <1>7, <2>1, <2>6, <2>7
    <3>3. button'[p].subs = e
      BY <3>2, SetEntry
    <3>4. QED
      BY <3>1, <3>3
  <2>10. Mirrors(x, e, p - 1)
    BY <1>3, <2>4, <2>8, MirrorsRemoved DEF x
  <2>11. ASSUME NEW r \in 1..ix' PROVE Mirrors(strip'[r].subs, button'[r].subs, r - 1)
    <3>1. r \in 1..Len(strip) /\ r \in 1..ix
      BY <1>2, <1>3, <2>1 DEF Aligned
    <3>2. CASE r = p
      BY <1>6, <2>9, <2>10, <3>1, <3>2
    <3>3. CASE r # p
      <4>1. strip'[r] = strip[r] /\ button'[r] = button[r]
        BY <1>6, <2>9, <3>1, <3>3
      <4>2. QED
        BY <2>3, <3>1, <4>1
    <3>4. QED
      BY <3>2, <3>3
  <2>12. QED
    BY <1>2, <2>11 DEF Mirrored
<1>16. QED
  BY <1>9, <1>10, <1>11, <1>12, <1>14, <1>15 DEF EditorInv

--------------------------------------------------------------------------------
(* Clicks, and the start.                                                   *)

LEMMA ShowsKeeps ==
  ASSUME EditorInv, UNCHANGED <<button, strip, ix, made>>,
         selected' \in Nat, panel' \in Nat,
         MenusKept /\ ColumnsOfOneDigit => panel' = selected'
  PROVE  EditorInv'
<1>0. /\ Typed /\ Counted /\ AltsDiffer /\ IdsApart /\ IdsGiven
      /\ MenusKept => Aligned
      /\ MenusKept /\ ColumnsOfOneDigit => Mirrored
  BY DEF EditorInv
<1>1. Typed' /\ Counted' /\ AltsDiffer'
  BY <1>0 DEF Typed, Counted, PlusLast, HasPlus, AltsDiffer
<1>2. IdsApart' /\ IdsGiven'
  BY <1>0 DEF IdsApart, IdsGiven
<1>3. MenusKept' => Aligned'
  BY <1>0 DEF MenusKept, Aligned
<1>4. MenusKept' /\ ColumnsOfOneDigit' => Mirrored'
  BY <1>0 DEF MenusKept, ColumnsOfOneDigit, Mirrored
<1>5. QED
  BY <1>1, <1>2, <1>3, <1>4 DEF EditorInv

LEMMA ClickMenuKeeps ==
  ASSUME EditorInv, NEW p \in 1..Len(strip), ClickMenu(p)
  PROVE  EditorInv'
<1>0. Typed /\ (MenusKept => Aligned) /\ panel \in Nat /\ ix \in Nat /\ Len(button) = ix
  BY DEF EditorInv, Typed, Counted
<1>1. /\ strip[p].nr # 0 /\ selected' = strip[p].nr
      /\ panel' = IF At(button, p - 1) = Hole THEN panel ELSE At(button, p - 1).nr
      /\ UNCHANGED <<button, strip, ix, made>>
  BY DEF ClickMenu
<1>2. selected' \in Nat
  BY <1>0, <1>1, TypedElements
<1>3. panel' \in Nat
  <2>1. CASE At(button, p - 1) = Hole
    BY <1>0, <1>1, <2>1
  <2>2. CASE At(button, p - 1) # Hole
    <3>1. p - 1 \in 0..Len(button) - 1 /\ At(button, p - 1) = button[(p - 1) + 1]
      BY <2>2 DEF At
    <3>2. p \in 1..Len(button) /\ (p - 1) + 1 = p
      BY <1>0, <3>1
    <3>3. button[p].nr \in Nat
      BY <1>0, <3>2, TypedElements
    <3>4. At(button, p - 1).nr = button[p].nr
      BY <3>1, <3>2
    <3>5. QED
      BY <1>1, <2>2, <3>3, <3>4
  <2>3. QED
    BY <2>1, <2>2
<1>4. ASSUME MenusKept PROVE panel' = selected'
  <2>1. p \in 1..ix /\ p \in 1..Len(button) /\ button[p] # Hole
    BY <1>1, <1>4, KeptAims
  <2>2. strip[p].nr = button[p].nr
    BY <1>0, <1>4, <2>1 DEF Aligned
  <2>3. p - 1 \in 0..Len(button) - 1 /\ (p - 1) + 1 = p
    BY <1>0, <2>1
  <2>4. At(button, p - 1) = button[p]
    BY <2>3 DEF At
  <2>5. QED
    BY <1>1, <2>1, <2>2, <2>4
<1>5. QED
  BY <1>1, <1>2, <1>3, <1>4, ShowsKeeps

LEMMA ClickSubKeeps ==
  ASSUME EditorInv, NEW p \in 1..Len(strip), NEW q \in 1..Len(strip[p].subs),
         ClickSub(p, q)
  PROVE  EditorInv'
<1> DEFINE li == strip[p].subs[q]
<1>0. /\ Typed /\ panel \in Nat /\ ix \in Nat /\ Len(button) = ix
      /\ MenusKept => Aligned
      /\ MenusKept /\ ColumnsOfOneDigit => Mirrored
  BY DEF EditorInv, Typed, Counted
<1>1. /\ selected' = li.nr
      /\ panel' = IF SubAt(p - 1, li.col) = 0 THEN panel ELSE SubAt(p - 1, li.col)
      /\ UNCHANGED <<button, strip, ix, made>>
  BY DEF ClickSub
<1>2. li \in LiType /\ li.nr \in Nat /\ li.col \in Int
  <2>1. strip[p].subs \in Seq(LiType)
    BY <1>0, TypedElements
  <2>2. li \in LiType
    BY <2>1
  <2>3. QED
    BY <2>2 DEF LiType
<1> HIDE DEF li
<1>3. panel' \in Nat
  <2> DEFINE subs == At(button, p - 1).subs
  <2>1. subs \in Seq(Nat)
    <3>1. CASE p - 1 \in 0..Len(button) - 1
      <4>1. p \in 1..Len(button) /\ (p - 1) + 1 = p
        BY <1>0, <3>1
      <4>2. At(button, p - 1) = button[p]
        BY <3>1, <4>1 DEF At
      <4>3. QED
        BY <1>0, <4>1, <4>2, TypedElements
    <3>2. CASE ~(p - 1 \in 0..Len(button) - 1)
      <4>1. subs = <<>>
        BY <3>2 DEF At, Hole
      <4>2. <<>> \in Seq(Nat)
        OBVIOUS
      <4> HIDE DEF subs
      <4>3. QED
        BY <4>1, <4>2
    <3>3. QED
      BY <3>1, <3>2
  <2>2. SubAt(p - 1, li.col) = IF li.col \in 0..Len(subs) - 1 THEN subs[li.col + 1] ELSE 0
    BY DEF SubAt
  <2> HIDE DEF subs
  <2>3. SubAt(p - 1, li.col) \in Nat
    <3>1. CASE li.col \in 0..Len(subs) - 1
      <4>1. li.col + 1 \in 1..Len(subs)
        BY <2>1, <3>1
      <4>2. QED
        BY <2>1, <2>2, <3>1, <4>1
    <3>2. CASE ~(li.col \in 0..Len(subs) - 1)
      BY <2>2, <3>2
    <3>3. QED
      BY <3>1, <3>2
  <2>4. QED
    BY <1>0, <1>1, <2>3
<1>4. ASSUME MenusKept, ColumnsOfOneDigit PROVE panel' = selected'
  <2>1. p \in 1..ix
    <3>1. p <= IF ix < 3 THEN ix + 1 ELSE ix
      BY <1>0, <1>4 DEF Aligned
    <3>2. ix < 3 => p # ix + 1
      <4>1. SUFFICES ASSUME ix < 3, p = ix + 1 PROVE FALSE
        OBVIOUS
      <4>2. strip[p].subs = <<>>
        BY <1>0, <1>4, <4>1 DEF Aligned, PlusMenu, Menu
      <4>3. QED
        BY <4>2
    <3>3. QED
      BY <1>0, <3>1, <3>2
  <2>2. Mirrors(strip[p].subs, button[p].subs, p - 1)
    BY <1>0, <1>4, <2>1 DEF Mirrored
  <2>3. /\ li.col \in 0..Len(button[p].subs) - 1
        /\ li.nr = button[p].subs[li.col + 1] /\ li.nr # 0
    BY <2>2 DEF Mirrors, li
  <2>4. p - 1 \in 0..Len(button) - 1 /\ (p - 1) + 1 = p
    BY <1>0, <2>1
  <2>5. At(button, p - 1) = button[p]
    BY <2>4 DEF At
  <2>6. SubAt(p - 1, li.col) = li.nr
    BY <2>3, <2>5 DEF SubAt
  <2>7. QED
    BY <1>1, <2>3, <2>6
<1>5. QED
  BY <1>1, <1>2, <1>3, <1>4, ShowsKeeps

(* The copies that are aligned number and refer to their entries rightly.    *)
LEMMA AlignedGives ==
  ASSUME Typed, Aligned, Mirrored, Len(button) = ix, ix <= 3
  PROVE  Counted /\ AltsDiffer /\ IdsApart /\ IdsGiven
<1>1. ix \in Nat /\ Len(strip) \in Nat
  BY TypedElements DEF Typed
<1>2. /\ Len(strip) = IF ix < 3 THEN ix + 1 ELSE ix
      /\ \A r \in 1..ix :
           /\ strip[r].nr = button[r].nr /\ strip[r].nr # 0 /\ strip[r].alt = r - 1
           /\ Mirrors(strip[r].subs, button[r].subs, r - 1)
      /\ ix < 3 => strip[ix + 1] = PlusMenu
  BY DEF Aligned, Mirrored
<1>3. PlusMenu.nr = 0 /\ PlusMenu.subs = <<>> /\ PlusMenu.alt = NoAlt /\ NoAlt = -1
  BY DEF PlusMenu, Menu, NoAlt
<1>4. \A p \in 1..Len(strip) : p \in 1..ix \/ (ix < 3 /\ p = ix + 1)
  BY <1>1, <1>2
<1>5. Counted
  <2>1. CASE ix < 3
    <3>1. Len(strip) = ix + 1 /\ HasPlus
      BY <1>1, <1>2, <1>3, <2>1 DEF HasPlus
    <3>2. ix <= 2 /\ Len(strip) <= ix + 1
      BY <1>1, <2>1, <3>1
    <3>3. \A p \in 1..Len(strip) : p # Len(strip) => strip[p].nr # 0
      BY <1>1, <1>2, <1>4, <3>1
    <3>4. QED
      BY <3>1, <3>2, <3>3 DEF Counted, PlusLast
  <2>2. CASE ~(ix < 3)
    <3>1. Len(strip) = 3 /\ ix = 3
      BY <1>1, <1>2, <2>2
    <3>2. 3 \in 1..ix
      BY <3>1
    <3>3. ~HasPlus
      BY <1>2, <3>1, <3>2 DEF HasPlus
    <3>4. \A p \in 1..Len(strip) : p # Len(strip) => strip[p].nr # 0
      BY <1>2, <3>1
    <3>5. QED
      BY <3>1, <3>3, <3>4 DEF Counted, PlusLast
  <2>3. QED
    BY <2>1, <2>2
<1>6. AltsDiffer
  <2>1. ASSUME NEW p \in 1..Len(strip)
        PROVE  /\ strip[p].alt < ix
               /\ strip[p].alt # NoAlt => p \in 1..ix /\ strip[p].alt = p - 1
    <3>1. CASE p \in 1..ix
      BY <1>1, <1>2, <3>1
    <3>2. CASE ix < 3 /\ p = ix + 1
      BY <1>1, <1>2, <1>3, <3>2
    <3>3. QED
      BY <1>4, <3>1, <3>2
  <2>2. ASSUME NEW p \in 1..Len(strip), NEW q \in 1..Len(strip),
               strip[p].alt = strip[q].alt, strip[p].alt # NoAlt
        PROVE  p = q
    <3>1. p \in 1..ix /\ q \in 1..ix /\ p - 1 = q - 1
      BY <2>1, <2>2
    <3>2. QED
      BY <3>1
  <2>3. QED
    BY <2>1, <2>2 DEF AltsDiffer
<1>7. ASSUME NEW p \in 1..Len(strip), NEW row \in Int, NEW col \in Int,
             HasId(strip[p].subs, row, col)
      PROVE  p \in 1..ix /\ row = p - 1 /\ Given(button, row, col)
  <2>1. p \in 1..ix
    <3>1. SUFFICES ASSUME ix < 3, p = ix + 1 PROVE FALSE
      BY <1>4
    <3>2. strip[p].subs = <<>>
      BY <1>2, <1>3, <3>1
    <3>3. QED
      BY <1>7, <3>2 DEF HasId
  <2>2. PICK q \in 1..Len(strip[p].subs) :
          strip[p].subs[q].row = row /\ strip[p].subs[q].col = col
    BY <1>7 DEF HasId
  <2>3. row = p - 1 /\ col \in 0..Len(button[p].subs) - 1
    BY <1>2, <2>1, <2>2 DEF Mirrors
  <2> DEFINE n == Len(button[p].subs)
  <2>4. p \in 1..Len(button) /\ n \in Nat
    BY <2>1, TypedElements
  <2>5. row + 1 = p /\ row \in 0..Len(button) - 1
    BY <2>3, <2>4, TypedElements
  <2>6. col \in Nat /\ col < n
    BY <2>3, <2>4
  <2>7. QED
    BY <2>1, <2>3, <2>5, <2>6 DEF Given
<1>8. IdsGiven
  BY <1>7 DEF IdsGiven
<1>9. IdsApart
  <2>1. ASSUME NEW p \in 1..Len(strip) PROVE IdsDiffer(strip[p].subs)
    <3> DEFINE lis == strip[p].subs
    <3>1. lis \in Seq(LiType)
      BY TypedElements
    <3>2. SUFFICES ASSUME NEW q \in 1..Len(lis), NEW t \in 1..Len(lis), q < t,
                          lis[q].row = lis[t].row, lis[q].col = lis[t].col,
                          lis[q].row # NoAlt
                   PROVE  FALSE
      <4>1. Len(lis) \in Nat
        BY <3>1
      <4> HIDE DEF lis
      <4>2. SUFFICES IdsDiffer(lis)
        BY DEF lis
      <4>3. ASSUME NEW q \in 1..Len(lis), NEW t \in 1..Len(lis),
                   lis[q].row = lis[t].row, lis[q].col = lis[t].col,
                   lis[q].row # NoAlt
            PROVE  q = t
        <5>1. ~(q < t) /\ ~(t < q)
          BY <3>2, <4>3
        <5>2. QED
          BY <4>1, <5>1
      <4>4. QED
        BY <4>3 DEF IdsDiffer
    <3>3. lis[q] \in LiType /\ lis[t] \in LiType
      BY <3>1
    <3>4. lis[q].row \in Int /\ lis[q].col \in Int
      BY <3>3 DEF LiType, NoAlt
    <3>5. HasId(lis, lis[q].row, lis[q].col)
      BY <3>2 DEF HasId
    <3>6. p \in 1..ix
      BY <1>7, <3>4, <3>5
    <3>7. lis[q].col < lis[t].col
      BY <1>2, <3>2, <3>6 DEF Mirrors
    <3> DEFINE x == lis[q].col
               y == lis[t].col
    <3>8. x \in Int /\ y \in Int /\ x < y /\ x = y
      BY <3>2, <3>4, <3>7
    <3> HIDE DEF x, y
    <3>9. QED
      BY <3>8
  <2>2. ASSUME NEW p \in 1..Len(strip), NEW r \in 1..Len(strip),
               NEW row \in Int, NEW col \in Int,
               HasId(strip[p].subs, row, col), HasId(strip[r].subs, row, col)
        PROVE  p = r
    <3>1. p \in 1..ix /\ r \in 1..ix /\ row = p - 1 /\ row = r - 1
      BY <1>7, <2>2
    <3>2. QED
      BY <3>1
  <2>3. QED
    BY <2>1, <2>2 DEF IdsApart
<1>10. QED
  BY <1>5, <1>6, <1>8, <1>9

LEMMA ConcatAt ==
  ASSUME NEW E, NEW s \in Seq(E), NEW t \in Seq(E)
  PROVE  \A j \in 1..Len(t) : (s \o t)[Len(s) + j] = t[j]
<1>1. SUFFICES ASSUME NEW j \in 1..Len(t) PROVE (s \o t)[Len(s) + j] = t[j]
  OBVIOUS
<1>2. Len(s) \in Nat /\ Len(t) \in Nat
  OBVIOUS
<1>3. Len(s) + j \in 1..Len(s) + Len(t) /\ Len(s) + j > Len(s)
  BY <1>2
<1>4. (s \o t)[Len(s) + j] = t[(Len(s) + j) - Len(s)]
  BY <1>3
<1>5. (Len(s) + j) - Len(s) = j
  BY <1>2
<1>6. QED
  BY <1>4, <1>5

LEMMA EditorInitInv == EditorInit => EditorInv
<1>1. SUFFICES ASSUME EditorInit PROVE EditorInv
  OBVIOUS
<1> DEFINE SubsOf(i, k) == [j \in 1..k |-> 10 * i + j]
           LisOf(i, k) == [j \in 1..k |-> Li(10 * i + j, i - 1, j - 1)]
<1>2. PICK initial \in Initials :
        /\ button = [i \in 1..Len(initial) |-> Entry(10 * i, SubsOf(i, initial[i]))]
        /\ strip = [i \in 1..Len(initial) |->
                      Menu(10 * i, i - 1, LisOf(i, initial[i]), initial[i] < 5)]
                   \o (IF Len(initial) < 3 THEN <<PlusMenu>> ELSE <<>>)
        /\ ix = Len(initial)
  BY <1>1 DEF EditorInit, SubLimit, MenuLimit
<1>3. selected = 0 /\ panel = 0 /\ made = 0
  BY <1>1 DEF EditorInit
<1> DEFINE n == Len(initial)
<1>4. n \in 0..3 /\ \A i \in 1..n : initial[i] \in 0..5
  <2>1. PICK k \in 0..3 : initial \in [1..k -> 0..5]
    BY EditorAssumption DEF EditorAssumption
  <2>2. initial \in Seq(0..5) /\ Len(initial) = k
    BY <2>1
  <2>3. QED
    BY <2>1, <2>2
<1> HIDE DEF n
<1>5. ASSUME NEW i \in 1..n
      PROVE  /\ SubsOf(i, initial[i]) \in Seq(Nat) /\ 10 * i \in Nat
             /\ LisOf(i, initial[i]) \in Seq(LiType)
             /\ Len(LisOf(i, initial[i])) <= 5 /\ i - 1 \in NoAlt..2
             /\ Mirrors(LisOf(i, initial[i]), SubsOf(i, initial[i]), i - 1)
  <2> DEFINE k == initial[i]
  <2>1. 10 * i \in Nat /\ i - 1 \in NoAlt..2 /\ k \in Nat /\ k <= 5
    BY <1>4 DEF NoAlt
  <2> HIDE DEF k
  <2> DEFINE s == SubsOf(i, k)
             l == LisOf(i, k)
             x == 10 * i
  <2>2. /\ s \in Seq(Nat) /\ Len(s) = k /\ \A j \in 1..k : s[j] = x + j
    BY <2>1
  <2>3. \A j \in 1..k : Li(x + j, i - 1, j - 1) \in LiType
    BY <2>1 DEF Li, LiType
  <2>4. /\ l \in Seq(LiType) /\ Len(l) = k
        /\ \A j \in 1..k : l[j] = Li(x + j, i - 1, j - 1)
    BY <2>1, <2>3
  <2> HIDE DEF s, l
  <2>5. \A j \in 1..k : l[j].nr = x + j /\ l[j].row = i - 1 /\ l[j].col = j - 1
    BY <2>4 DEF Li
  <2> HIDE DEF x
  <2>6. x \in Nat
    BY <2>1 DEF x
  <2>7. ASSUME NEW q \in 1..Len(l)
        PROVE  /\ l[q].row = i - 1 /\ l[q].col \in 0..Len(s) - 1
               /\ l[q].nr = s[l[q].col + 1] /\ l[q].nr # 0
    <3>1. q \in 1..k /\ q - 1 \in 0..k - 1 /\ (q - 1) + 1 = q /\ x + q # 0
      BY <2>1, <2>4, <2>6
    <3>2. QED
      BY <2>2, <2>4, <2>5, <3>1
  <2>8. \A q, t \in 1..Len(l) : q < t => l[q].col < l[t].col
    BY <2>1, <2>4, <2>5
  <2>9. ASSUME NEW c \in 1..Len(s) PROVE \E q \in 1..Len(l) : l[q].col + 1 = c
    <3>1. c \in 1..Len(l) /\ (c - 1) + 1 = c /\ l[c].col = c - 1
      BY <2>1, <2>2, <2>4, <2>5
    <3>2. QED
      BY <3>1
  <2>10. Mirrors(l, s, i - 1)
    BY <2>7, <2>8, <2>9 DEF Mirrors
  <2>11. QED
    BY <2>1, <2>2, <2>4, <2>10 DEF s, l, k
<1> HIDE DEF SubsOf, LisOf
<1>6. /\ button \in Seq(EntryType) /\ Len(button) = n
      /\ \A i \in 1..n : button[i] = Entry(10 * i, SubsOf(i, initial[i]))
  <2>1. \A i \in 1..n : Entry(10 * i, SubsOf(i, initial[i])) \in EntryType
    <3>1. \A i \in 1..n : SubsOf(i, initial[i]) \in Seq(Nat) /\ 10 * i \in Nat
      BY <1>5
    <3>2. QED
      BY <3>1 DEF Entry, EntryType
  <2>2. button = [i \in 1..n |-> Entry(10 * i, SubsOf(i, initial[i]))] /\ n \in Nat
    BY <1>2, <1>4 DEF n
  <2>3. QED
    BY <2>1, <2>2
<1> DEFINE shown == [i \in 1..n |-> Menu(10 * i, i - 1, LisOf(i, initial[i]), initial[i] < 5)]
           tail == IF n < 3 THEN <<PlusMenu>> ELSE <<>>
<1>7. /\ shown \in Seq(MenuType) /\ Len(shown) = n
      /\ \A i \in 1..n : shown[i] = Menu(10 * i, i - 1, LisOf(i, initial[i]), initial[i] < 5)
  <2>1. \A i \in 1..n : Menu(10 * i, i - 1, LisOf(i, initial[i]), initial[i] < 5) \in MenuType
    <3>1. \A i \in 1..n : /\ LisOf(i, initial[i]) \in Seq(LiType) /\ 10 * i \in Nat
                          /\ i - 1 \in NoAlt..2
      BY <1>5
    <3>2. QED
      BY <3>1 DEF Menu, MenuType
  <2>2. n \in Nat
    BY <1>4
  <2>3. QED
    BY <2>1, <2>2
<1>8. /\ tail \in Seq(MenuType) /\ Len(tail) = (IF n < 3 THEN 1 ELSE 0)
      /\ n < 3 => tail[1] = PlusMenu
  <2>1. PlusMenu \in MenuType
    <3>1. <<>> \in Seq(LiType) /\ NoAlt \in NoAlt..2
      BY DEF NoAlt
    <3>2. QED
      BY <3>1 DEF PlusMenu, Menu, MenuType
  <2>2. QED
    BY <2>1
<1>9. strip = shown \o tail
  BY <1>2 DEF n
<1> HIDE DEF shown, tail
<1>10. /\ strip \in Seq(MenuType) /\ Len(strip) = n + (IF n < 3 THEN 1 ELSE 0)
       /\ \A i \in 1..n : strip[i] = shown[i]
       /\ n < 3 => strip[n + 1] = PlusMenu
  <2>1. strip \in Seq(MenuType) /\ Len(strip) = Len(shown) + Len(tail)
    BY <1>7, <1>8, <1>9
  <2>2. \A i \in 1..n : strip[i] = shown[i]
    BY <1>4, <1>7, <1>8, <1>9
  <2>3. n < 3 => strip[n + 1] = PlusMenu
    <3>1. SUFFICES ASSUME n < 3 PROVE strip[n + 1] = PlusMenu
      OBVIOUS
    <3>2. Len(shown) = n /\ Len(tail) = 1 /\ tail[1] = PlusMenu /\ n \in Nat
      BY <1>4, <1>7, <1>8, <3>1
    <3>3. shown \in Seq(MenuType) /\ tail \in Seq(MenuType)
      BY <1>7, <1>8
    <3>4. (shown \o tail)[n + 1] = tail[1]
      <4>1. \A j \in 1..Len(tail) : (shown \o tail)[Len(shown) + j] = tail[j]
        BY <3>3, ConcatAt
      <4>2. 1 \in 1..Len(tail)
        BY <3>2
      <4>3. QED
        BY <3>2, <4>1, <4>2
    <3>5. QED
      BY <1>9, <3>2, <3>4
  <2>4. QED
    BY <1>7, <1>8, <2>1, <2>2, <2>3
<1>11. ix = n
  BY <1>2 DEF n
<1>12. Typed
  BY <1>3, <1>4, <1>6, <1>10, <1>11, EditorAssumption DEF Typed, EditorAssumption
<1>13. Aligned /\ Mirrored
  <2>1. Len(strip) = IF ix < 3 THEN ix + 1 ELSE ix
    BY <1>4, <1>10, <1>11
  <2>2. ASSUME NEW r \in 1..ix
        PROVE  /\ strip[r].nr = button[r].nr /\ strip[r].nr # 0 /\ strip[r].alt = r - 1
               /\ Mirrors(strip[r].subs, button[r].subs, r - 1)
               /\ Len(strip[r].subs) <= 5
    <3>1. r \in 1..n /\ 10 * r # 0 /\ initial[r] \in 0..5
      BY <1>4, <1>11
    <3>2. /\ strip[r].nr = 10 * r /\ strip[r].alt = r - 1
          /\ strip[r].subs = LisOf(r, initial[r])
      BY <1>7, <1>10, <3>1 DEF Menu
    <3>3. button[r].nr = 10 * r /\ button[r].subs = SubsOf(r, initial[r])
      BY <1>6, <3>1 DEF Entry
    <3>4. Mirrors(LisOf(r, initial[r]), SubsOf(r, initial[r]), r - 1) /\ Len(LisOf(r, initial[r])) <= 5
      BY <1>5, <3>1
    <3>5. QED
      BY <3>1, <3>2, <3>3, <3>4
  <2>3. QED
    BY <1>3, <1>10, <1>11, <2>1, <2>2 DEF Aligned, Mirrored
<1>14. Counted /\ AltsDiffer /\ IdsApart /\ IdsGiven
  BY <1>4, <1>6, <1>11, <1>12, <1>13, AlignedGives
<1>15. QED
  BY <1>12, <1>13, <1>14 DEF EditorInv

--------------------------------------------------------------------------------
(* What holds of every run.                                                 *)

LEMMA EditorStep == ASSUME EditorInv, [EditorNext]_editorVars PROVE EditorInv'
<1>1. CASE AddMenu
  BY <1>1, AddMenuKeeps
<1>2. CASE DelMenu
  BY <1>2, DelMenuKeeps
<1>3. CASE DelSub
  BY <1>3, DelSubKeeps
<1>4. ASSUME NEW p \in 1..Len(strip), ClickMenu(p) PROVE EditorInv'
  BY <1>4, ClickMenuKeeps
<1>5. ASSUME NEW p \in 1..Len(strip), AddSub(p) PROVE EditorInv'
  BY <1>5, AddSubKeeps
<1>6. ASSUME NEW p \in 1..Len(strip), NEW q \in 1..Len(strip[p].subs), ClickSub(p, q)
      PROVE  EditorInv'
  BY <1>6, ClickSubKeeps
<1>7. CASE UNCHANGED editorVars
  BY <1>7 DEF EditorInv, editorVars, Typed, Counted, PlusLast, HasPlus, AltsDiffer,
              IdsApart, IdsGiven, MenusKept, ColumnsOfOneDigit, Aligned, Mirrored
<1>8. QED
  BY <1>1, <1>2, <1>3, <1>4, <1>5, <1>6, <1>7 DEF EditorNext

(* The numbers and the references by which the code links the elements on    *)
(* the screen to the entries to be saved stay as EditorInv says, whatever is *)
(* clicked, added or deleted: no id and no alt is on two elements, and the   *)
(* elements mirror the entries until a menu is deleted or a menu has had     *)
(* more than ten sub-menus, of whose column a deletion reads one digit.      *)
THEOREM EditorInductive == EditorSpec => []EditorInv
<1>1. EditorInit => EditorInv
  BY EditorInitInv
<1>2. EditorInv /\ [EditorNext]_editorVars => EditorInv'
  BY EditorStep
<1>3. QED
  BY <1>1, <1>2, PTL DEF EditorSpec

(* The editor keeps its arrays, its numbers and its flags in their types.    *)
THEOREM EditorTypeCorrect == EditorSpec => []EditorTypeOK
<1>1. EditorInv => EditorTypeOK
  <2>1. SUFFICES ASSUME EditorInv PROVE EditorTypeOK
    OBVIOUS
  <2>2. Typed
    BY <2>1 DEF EditorInv
  <2>3. /\ \A i \in 1..Len(button) : button[i].nr \in Nat /\ button[i].subs \in Seq(Nat)
        /\ \A p \in 1..Len(strip) :
             /\ strip[p].nr \in Nat /\ strip[p].alt \in NoAlt..2
             /\ strip[p].plus \in BOOLEAN
    BY <2>2, TypedElements DEF NoAlt
  <2>4. ASSUME NEW p \in 1..Len(strip), NEW q \in 1..Len(strip[p].subs)
        PROVE  strip[p].subs[q].nr \in Nat
    <3>1. strip[p].subs \in Seq(LiType)
      BY <2>2, TypedElements
    <3>2. strip[p].subs[q] \in LiType
      BY <3>1
    <3>3. QED
      BY <3>2 DEF LiType
  <2>5. QED
    BY <2>2, <2>3, <2>4 DEF EditorTypeOK, Typed
<1>2. QED
  BY <1>1, EditorInductive, PTL

LEMMA KeptMenus ==
  ASSUME EditorInv, MenusKept
  PROVE  /\ ix \in Nat /\ Len(button) = ix /\ ix <= Len(strip) /\ Len(strip) \in Nat
         /\ \A p \in 1..Len(strip) : p \notin 1..ix => strip[p].nr = 0 /\ strip[p].subs = <<>>
         /\ \A p \in 1..ix :
              /\ strip[p].nr = button[p].nr /\ strip[p].nr # 0 /\ strip[p].alt = p - 1
              /\ Len(strip[p].subs) <= 5
         /\ ColumnsOfOneDigit =>
              \A p \in 1..ix : Mirrors(strip[p].subs, button[p].subs, p - 1)
<1>1. /\ ix \in Nat /\ Len(button) = ix /\ Aligned /\ Len(strip) \in Nat
  BY TypedElements DEF EditorInv, Typed, Counted
<1>2. ix <= Len(strip)
  BY <1>1 DEF Aligned
<1>3. ASSUME NEW p \in 1..Len(strip), p \notin 1..ix
      PROVE  strip[p].nr = 0 /\ strip[p].subs = <<>>
  <2>1. ix < 3 /\ p = ix + 1
    BY <1>1, <1>3 DEF Aligned
  <2>2. strip[p] = PlusMenu
    BY <1>1, <2>1 DEF Aligned
  <2>3. QED
    BY <2>2 DEF PlusMenu, Menu
<1>4. ColumnsOfOneDigit =>
        \A p \in 1..ix : Mirrors(strip[p].subs, button[p].subs, p - 1)
  BY DEF EditorInv, Mirrored
<1>5. QED
  BY <1>1, <1>2, <1>3, <1>4 DEF Aligned

(* Nothing but the holes separates the saved menus from the shown ones: as   *)
(* long as no menu was deleted and none ever had more than ten sub-menus,    *)
(* saveAjax sends the same menus, and of each the same sub-menus in the same *)
(* order, as the page shows.                                                 *)
THEOREM SavedShown == EditorSpec => []SavedIsShown
<1>1. EditorInv => SavedIsShown
  <2>1. SUFFICES ASSUME EditorInv, MenusKept, ColumnsOfOneDigit
                 PROVE  /\ Len(SavedMenus) = Len(ShownMenus)
                        /\ \A i \in 1..Len(ShownMenus) :
                             /\ SavedMenus[i].nr = ShownMenus[i].nr
                             /\ SavedSubs(SavedMenus[i]) = ShownSubs(ShownMenus[i])
    BY DEF SavedIsShown
  <2>2. /\ ix \in Nat /\ Len(button) = ix /\ ix <= Len(strip) /\ Len(strip) \in Nat
        /\ \A p \in 1..Len(strip) : p \notin 1..ix => strip[p].nr = 0
        /\ \A p \in 1..ix :
             /\ strip[p].nr = button[p].nr /\ strip[p].nr # 0
             /\ Mirrors(strip[p].subs, button[p].subs, p - 1)
    BY <2>1, KeptMenus
  <2>3. strip \in Seq(MenuType) /\ button \in Seq(EntryType) /\ Typed
    BY <2>1 DEF EditorInv, Typed
  <2> DEFINE cs == [q \in 1..ix |-> q]
             shown == {m \in ToSet(strip) : m.nr # 0}
             saved == ToSet(button) \ {Hole}
  <2>4. \A p \in 1..Len(strip) : strip[p] \in shown <=> strip[p].nr # 0
    BY DEF ToSet
  <2>5. \A i \in 1..Len(button) : button[i] \in saved
    BY <2>1 DEF ToSet, MenusKept
  <2> HIDE DEF shown, saved
  <2>6. Places(strip, shown, ix, cs)
    <3>1. /\ cs \in [1..ix -> 1..Len(strip)]
          /\ \A q, t \in 1..ix : q < t => cs[q] < cs[t]
      BY <2>2
    <3>2. \A q \in 1..ix : strip[cs[q]] \in shown
      BY <2>2, <2>4
    <3>3. \A i \in 1..Len(strip) : strip[i] \in shown => \E q \in 1..ix : cs[q] = i
      BY <2>2, <2>4
    <3>4. QED
      BY <3>1, <3>2, <3>3 DEF Places
  <2>7. Places(button, saved, ix, cs)
    <3>1. /\ cs \in [1..ix -> 1..Len(button)]
          /\ \A q, t \in 1..ix : q < t => cs[q] < cs[t]
      BY <2>2
    <3>2. \A q \in 1..ix : button[cs[q]] \in saved
      BY <2>2, <2>5
    <3>3. \A i \in 1..Len(button) : button[i] \in saved => \E q \in 1..ix : cs[q] = i
      BY <2>2
    <3>4. QED
      BY <3>1, <3>2, <3>3 DEF Places
  <2>8. \A q \in 1..ix : cs[q] = q
    OBVIOUS
  <2> HIDE DEF cs
  <2>9. Len(ShownMenus) = ix /\ \A q \in 1..ix : ShownMenus[q] = strip[q]
    <3>1. /\ Len(Selected(strip, shown)) = ix
          /\ \A q \in 1..ix : Selected(strip, shown)[q] = strip[cs[q]]
      BY <2>2, <2>3, <2>6, SelectedAt
    <3>2. QED
      BY <2>8, <3>1 DEF ShownMenus, shown
  <2>10. Len(SavedMenus) = ix /\ \A q \in 1..ix : SavedMenus[q] = button[q]
    <3>1. /\ Len(Selected(button, saved)) = ix
          /\ \A q \in 1..ix : Selected(button, saved)[q] = button[cs[q]]
      BY <2>2, <2>3, <2>7, SelectedAt
    <3>2. QED
      BY <2>8, <3>1 DEF SavedMenus, saved
  <2>11. ASSUME NEW i \in 1..ix PROVE SavedSubs(button[i]) = ShownSubs(strip[i])
    <3>1. /\ strip[i].subs \in Seq(LiType) /\ button[i].subs \in Seq(Nat)
          /\ Mirrors(strip[i].subs, button[i].subs, i - 1)
      <4>1. i \in 1..Len(strip) /\ i \in 1..Len(button)
        BY <2>2
      <4>2. strip[i].subs \in Seq(LiType) /\ button[i].subs \in Seq(Nat)
        BY <2>3, <4>1, TypedElements
      <4>3. QED
        BY <2>2, <4>2
    <3>2. Selected(button[i].subs, ToSet(button[i].subs) \ {0})
            = [q \in 1..Len(strip[i].subs) |-> strip[i].subs[q].nr]
      BY <3>1, MirrorsShow
    <3>3. QED
      BY <3>2 DEF SavedSubs, ShownSubs
  <2>12. QED
    BY <2>2, <2>9, <2>10, <2>11
<1>2. QED
  BY <1>1, EditorInductive, PTL

(* Until a menu is deleted or one has had more than ten sub-menus, the       *)
(* position by which a click finds the entry, the alt and id by which an     *)
(* edit finds it and the digit by which a deletion finds it agree.           *)
THEOREM EditsHit == EditorSpec => []EditHitsSelection
<1>1. EditorInv => EditHitsSelection
  <2>1. SUFFICES ASSUME EditorInv, MenusKept, ColumnsOfOneDigit, selected # 0
        PROVE /\ panel = selected
              /\ \A p \in 1..Len(strip) :
                   /\ strip[p].nr = selected => At(button, strip[p].alt).nr = selected
                   /\ \A q \in 1..Len(strip[p].subs) :
                        LET li == strip[p].subs[q] IN
                        li.nr = selected =>
                          \A col \in {li.col, FirstDigit(li.col)} :
                            SubAt(li.row, col) = selected
    BY DEF EditHitsSelection
  <2>2. panel = selected
    BY <2>1 DEF EditorInv, Mirrored
  <2>3. /\ ix \in Nat /\ Len(button) = ix
        /\ \A p \in 1..Len(strip) : p \notin 1..ix => strip[p].nr = 0 /\ strip[p].subs = <<>>
        /\ \A p \in 1..ix :
             /\ strip[p].nr = button[p].nr /\ strip[p].alt = p - 1
             /\ Mirrors(strip[p].subs, button[p].subs, p - 1)
    BY <2>1, KeptMenus
  <2>4. ASSUME NEW p \in 1..ix PROVE At(button, p - 1) = button[p]
    <3>1. p - 1 \in 0..Len(button) - 1 /\ (p - 1) + 1 = p
      BY <2>3
    <3>2. QED
      BY <3>1 DEF At
  <2>5. ASSUME NEW p \in 1..Len(strip), strip[p].nr = selected
        PROVE  At(button, strip[p].alt).nr = selected
    <3>1. p \in 1..ix
      BY <2>1, <2>3, <2>5
    <3>2. QED
      BY <2>3, <2>4, <2>5, <3>1
  <2>6. ASSUME NEW p \in 1..Len(strip), NEW q \in 1..Len(strip[p].subs),
               strip[p].subs[q].nr = selected
        PROVE  LET li == strip[p].subs[q] IN
               \A col \in {li.col, FirstDigit(li.col)} : SubAt(li.row, col) = selected
    <3> DEFINE li == strip[p].subs[q]
    <3>1. p \in 1..ix
      <4>1. SUFFICES ASSUME strip[p].subs = <<>> PROVE FALSE
        BY <2>3
      <4>2. QED
        BY <4>1
    <3>2. /\ li.row = p - 1 /\ li.col \in 0..Len(button[p].subs) - 1
          /\ li.nr = button[p].subs[li.col + 1]
      BY <2>3, <3>1 DEF Mirrors
    <3>3. SubAt(li.row, li.col) = li.nr
      BY <2>4, <3>1, <3>2 DEF SubAt
    <3>4. FirstDigit(li.col) = li.col
      <4>1. Len(button[p].subs) <= 10 /\ Len(button[p].subs) \in Nat
        BY <2>1, <2>3, <3>1, TypedElements DEF ColumnsOfOneDigit, EditorInv
      <4>2. li.col \in Int /\ li.col < 10
        BY <3>2, <4>1
      <4>3. QED
        BY <4>2, OneDigit
    <3>5. QED
      BY <2>6, <3>3, <3>4
  <2>7. QED
    BY <2>2, <2>5, <2>6
<1>2. QED
  BY <1>1, EditorInductive, PTL

(* Never more than three menus on the screen or in the array, and while no   *)
(* menu was deleted never more than five sub-menus of one.                   *)
THEOREM LimitsKept == EditorSpec => []WithinLimits
<1>1. EditorInv => WithinLimits
  <2>1. SUFFICES ASSUME EditorInv PROVE WithinLimits
    OBVIOUS
  <2>2. /\ ix <= 3 /\ Len(button) = ix /\ PlusLast /\ ix \in Nat /\ Len(strip) \in Nat
    BY <2>1, TypedElements DEF EditorInv, Counted, Typed
  <2> DEFINE n == Len(strip)
             ps == {p \in 1..n : strip[p].nr # 0}
  <2>3. PICK k \in 0..3 : ps \subseteq 1..k
    <3>1. CASE HasPlus
      <4>1. n - 1 \in 0..3 /\ strip[n].nr = 0
        <5>1. n # 0 /\ n <= ix + 1 /\ ix <= 2 /\ strip[n].nr = 0
          BY <2>2, <3>1 DEF PlusLast, HasPlus
        <5> HIDE DEF n
        <5>2. n \in Nat
          BY <2>2 DEF n
        <5>3. QED
          BY <2>2, <5>1, <5>2
      <4>2. ps \subseteq 1..n - 1
        BY <2>2, <4>1
      <4>3. QED
        BY <4>1, <4>2
    <3>2. CASE ~HasPlus
      <4>1. n \in 0..3
        <5>1. n \in Nat /\ n <= 3
          BY <2>2, <3>2 DEF PlusLast
        <5> HIDE DEF n
        <5>2. QED
          BY <5>1
      <4>2. ps \subseteq 1..n
        OBVIOUS
      <4>3. QED
        BY <4>1, <4>2
    <3>3. QED
      BY <3>1, <3>2
  <2>4. Cardinality(ps) <= 3
    <3> HIDE DEF ps
    <3>1. IsFiniteSet(1..k) /\ Cardinality(1..k) = k
      <4>1. k \in Int /\ 1 \in Int /\ (IF 1 > k THEN 0 ELSE k - 1 + 1) = k
        OBVIOUS
      <4>2. QED
        BY <4>1, FS_Interval
    <3>2. IsFiniteSet(ps) /\ Cardinality(ps) <= k /\ Cardinality(ps) \in Nat
      BY <2>3, <3>1, FS_Subset, FS_CardinalityType
    <3>3. QED
      BY <3>2
  <2>5. ASSUME MenusKept, NEW p \in 1..Len(strip) PROVE Len(strip[p].subs) <= 5
    <3>1. CASE p \in 1..ix
      BY <2>1, <2>5, <3>1, KeptMenus
    <3>2. CASE p \notin 1..ix
      <4>1. strip[p].subs = <<>>
        BY <2>1, <2>5, <3>2, KeptMenus
      <4>2. QED
        BY <4>1
    <3>3. QED
      BY <3>1, <3>2
  <2>6. QED
    BY <2>2, <2>4, <2>5 DEF WithinLimits
<1>2. QED
  BY <1>1, EditorInductive, PTL

(* No id and no alt is ever on two elements of the page.                     *)
THEOREM ReferencesDiffer == EditorSpec => []ReferencesUnique
<1>1. EditorInv => ReferencesUnique
  <2>1. SUFFICES ASSUME EditorInv PROVE ReferencesUnique
    OBVIOUS
  <2>2. Typed /\ AltsDiffer /\ IdsApart
    BY <2>1 DEF EditorInv
  <2>3. ASSUME NEW p \in 1..Len(strip), NEW r \in 1..Len(strip),
               NEW q \in 1..Len(strip[p].subs), NEW t \in 1..Len(strip[r].subs),
               strip[p].subs[q].row = strip[r].subs[t].row,
               strip[p].subs[q].col = strip[r].subs[t].col,
               strip[p].subs[q].row # NoAlt
        PROVE  p = r /\ q = t
    <3> DEFINE row == strip[p].subs[q].row
               col == strip[p].subs[q].col
    <3>1. strip[p].subs[q] \in LiType
      <4>1. strip[p].subs \in Seq(LiType)
        BY <2>2, TypedElements
      <4>2. QED
        BY <4>1
    <3>2. row \in Int /\ col \in Int
      BY <3>1 DEF LiType, NoAlt
    <3>3. HasId(strip[p].subs, row, col) /\ HasId(strip[r].subs, row, col)
      BY <2>3 DEF HasId
    <3> HIDE DEF row, col
    <3>4. p = r
      BY <2>2, <3>2, <3>3 DEF IdsApart
    <3>5. IdsDiffer(strip[p].subs)
      BY <2>2 DEF IdsApart
    <3>6. q = t
      BY <2>3, <3>4, <3>5 DEF IdsDiffer
    <3>7. QED
      BY <3>4, <3>6
  <2>4. QED
    BY <2>2, <2>3 DEF ReferencesUnique, AltsDiffer
<1>2. QED
  BY <1>1, EditorInductive, PTL

--------------------------------------------------------------------------------
(* Both pages, as the run takes them: one of them, the other at rest.        *)

(* Whichever page is open, its variables keep their types.                   *)
THEOREM PagesTyped == AllowNew = FALSE /\ MCSpec => []PagesTypeOK
<1>1. MCInit => Init /\ EditorInit
  BY DEF MCInit
<1>2. ASSUME [MCNext]_<<part, vars, editorVars>>
      PROVE  [Next]_vars /\ [EditorNext]_editorVars
  BY <1>2 DEF MCNext, vars, editorVars
<1>3. TypeOK /\ EditorTypeOK => PagesTypeOK
  BY DEF PagesTypeOK
<1>4. MCSpec => Spec /\ EditorSpec
  BY <1>1, <1>2, PTL DEF MCSpec, Spec, EditorSpec
<1>5. QED
  BY <1>3, <1>4, TabsTypeCorrect, EditorTypeCorrect, PTL
================================================================================
