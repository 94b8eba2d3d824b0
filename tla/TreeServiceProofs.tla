--------------------------- MODULE TreeServiceProofs ---------------------------
(***************************************************************************)
(* Proofs about TreeService.  That each path extends the parent's path is  *)
(* not inductive: a move rewrites rows far below the one it moves, and     *)
(* only their whole paths tell that they begin with the old one.  Closed   *)
(* says that every id on a path is a row whose own path is the part of the *)
(* path before it.  Types need no more of the paths than that they are     *)
(* not empty, which is what save and String.replace work with.             *)
(***************************************************************************)
EXTENDS TreeService, SequenceTheorems, WellFoundedInduction, TLAPS

\* path leads from the root through rows of t.
Leads(t, path) ==
  /\ path \in Seq(Id)
  /\ Len(path) >= 1
  /\ path[1] = Root
  /\ \A k \in 2 .. Len(path) :
       /\ path[k] \in DOMAIN t
       /\ Len(t[path[k]].path) = k - 1
       /\ \A i \in 1 .. k - 1 : t[path[k]].path[i] = path[i]

Closed(t) ==
  \A m \in DOMAIN t : /\ t[m] \in Row
                      /\ Leads(t, t[m].path)
                      /\ t[m].parent = t[m].path[Len(t[m].path)]

\* path with its first lo ids replaced by new.
Onto(path, lo, new) == new \o SubSeq(path, lo + 1, Len(path))

DrawnInv == drawn \subseteq Node /\ DOMAIN row \subseteq drawn

Inv == DrawnInv /\ (cause = {} => Closed(row))

-----------------------------------------------------------------------------
\* Names looks at the ids after the first.
LEMMA NamesIsLater ==
  ASSUME NEW path \in Seq(Id), Len(path) >= 1, NEW n
  PROVE  Names(path, n) <=> \E k \in 2 .. Len(path) : path[k] = n
<1>1. /\ Tail(path) \in Seq(Id)
      /\ Len(Tail(path)) = Len(path) - 1
      /\ \A i \in 1 .. Len(Tail(path)) : Tail(path)[i] = path[i + 1]
  BY HeadTailProperties, EmptySeq
<1>2. DOMAIN Tail(path) = 1 .. Len(path) - 1
  BY <1>1, LenProperties
<1>3. Len(path) \in Nat
  BY LenProperties
<1>4. ASSUME Names(path, n) PROVE \E k \in 2 .. Len(path) : path[k] = n
  <2>1. PICK i \in 1 .. Len(path) - 1 : Tail(path)[i] = n
    BY <1>4, <1>2 DEF Names, Ids
  <2>2. i + 1 \in 2 .. Len(path) /\ path[i + 1] = n
    BY <2>1, <1>1, <1>3
  <2> QED BY <2>2
<1>5. ASSUME NEW k \in 2 .. Len(path), path[k] = n PROVE Names(path, n)
  <2>1. k - 1 \in 1 .. Len(path) - 1 /\ Tail(path)[k - 1] = path[k]
    BY <1>1, <1>3
  <2> QED BY <2>1, <1>2, <1>5 DEF Names, Ids
<1> QED BY <1>4, <1>5

\* In a closed table every path extends the parent's.
LEMMA ClosedIsRight ==
  ASSUME TreeAssumption, Closed(row), NEW n \in DOMAIN row
  PROVE  PathIsRight(n)
<1> DEFINE s == row[n].path
           p == row[n].parent
<1>1. s \in Seq(Id) /\ Len(s) \in Nat /\ Len(s) >= 1 /\ s[1] = Root /\ p = s[Len(s)]
  BY LenProperties DEF Closed, Leads
<1>2. CASE Len(s) = 1
  <2>1. <<Root>> \in Seq(Id) /\ Len(<<Root>>) = 1 /\ <<Root>>[1] = Root
    BY DEF Id
  <2>2. s = <<Root>>
    BY <1>1, <1>2, <2>1, SeqEqual
  <2> QED BY <1>1, <1>2, <2>2 DEF PathIsRight
<1>3. CASE Len(s) >= 2
  <2> DEFINE q == row[p].path
  <2>1. /\ p \in DOMAIN row /\ p \in Id /\ Len(q) = Len(s) - 1
        /\ \A i \in 1 .. Len(s) - 1 : q[i] = s[i]
    BY <1>1, <1>3, ElementOfSeq DEF Closed, Leads
  <2>2. q \in Seq(Id)
    BY <2>1 DEF Closed, Leads
  <2>3. /\ Append(q, p) \in Seq(Id)
        /\ Len(Append(q, p)) = Len(q) + 1
        /\ \A i \in 1 .. Len(q) : Append(q, p)[i] = q[i]
        /\ Append(q, p)[Len(q) + 1] = p
    BY <2>1, <2>2, AppendProperties
  <2>4. \A i \in 1 .. Len(s) : s[i] = Append(q, p)[i]
    BY <2>1, <2>3, <1>1, <1>3
  <2>5. s = Append(q, p)
    BY <2>1, <2>3, <2>4, <1>1, SeqEqual
  <2> QED BY <2>1, <2>5 DEF PathIsRight
<1>4. Len(s) = 1 \/ Len(s) >= 2
  <2>1. \A l \in Nat : l >= 1 => l = 1 \/ l >= 2
    OBVIOUS
  <2> QED BY <2>1, <1>1, Zenon
<1> QED BY <1>2, <1>3, <1>4

\* The path that save gives to a row: it leads to the parent.
LEMMA NewPathLeads ==
  ASSUME TreeAssumption, DrawnInv, Closed(row), NEW a \in Admin, ~ ParentMoved(a)
  PROVE  /\ NewRow(a) \in Row
         /\ Leads(row, NewRow(a).path)
         /\ NewRow(a).parent = NewRow(a).path[Len(NewRow(a).path)]
<1> DEFINE p == req[a].parent
           new == NewRow(a).path
<1>1. NewRow(a).parent = p
  BY DEF NewRow
<1>2. CASE p = Root
  <2>1. new = <<Root>> /\ NewRow(a) = [parent |-> Root, path |-> <<Root>>]
    BY <1>2 DEF NewRow
  <2>2. <<Root>> \in Seq(Id) /\ Len(<<Root>>) = 1 /\ <<Root>>[1] = Root /\ Root \in Id
    BY DEF Id
  <2>3. Leads(row, new)
    BY <2>1, <2>2 DEF Leads
  <2> QED BY <1>1, <1>2, <2>1, <2>2, <2>3 DEF Row
<1>3. CASE p # Root
  <2> DEFINE q == row[p].path
  <2>1. p \in DOMAIN row /\ q = seen[a][p].path
    BY <1>3 DEF ParentMoved
  <2>2. p \in Id
    BY <2>1 DEF DrawnInv, Id
  <2>3. new = Append(q, p) /\ NewRow(a) = [parent |-> p, path |-> Append(q, p)]
    BY <1>3, <2>1 DEF NewRow
  <2>4. Leads(row, q) /\ q \in Seq(Id) /\ Len(q) \in Nat /\ Len(q) >= 1
    BY <2>1, LenProperties DEF Closed, Leads
  <2>5. /\ new \in Seq(Id)
        /\ Len(new) = Len(q) + 1
        /\ \A i \in 1 .. Len(q) : new[i] = q[i]
        /\ new[Len(q) + 1] = p
    BY <2>2, <2>3, <2>4, AppendProperties
  <2>6. ASSUME NEW k \in 2 .. Len(new)
        PROVE  /\ new[k] \in DOMAIN row
               /\ Len(row[new[k]].path) = k - 1
               /\ \A i \in 1 .. k - 1 : row[new[k]].path[i] = new[i]
    <3>1. CASE k = Len(q) + 1
      BY <3>1, <2>1, <2>4, <2>5
    <3>2. CASE k \in 2 .. Len(q)
      <4>1. new[k] = q[k] /\ \A i \in 1 .. k - 1 : new[i] = q[i]
        BY <3>2, <2>4, <2>5
      <4> QED BY <4>1, <3>2, <2>4 DEF Leads
    <3> QED BY <3>1, <3>2, <2>4, <2>5
  <2>7. new[1] = Root
    BY <2>4, <2>5 DEF Leads
  <2>8. Leads(row, new)
    BY <2>4, <2>5, <2>6, <2>7 DEF Leads
  <2> QED BY <1>1, <2>2, <2>3, <2>4, <2>5, <2>8 DEF Row
<1> QED BY <1>2, <1>3

-----------------------------------------------------------------------------
\* A row that is not below n has nobody on its path that is.
LEMMA AboveIsOutside ==
  ASSUME NEW t, Closed(t), NEW path, Leads(t, path), NEW n, ~ Names(path, n),
         NEW k \in 2 .. Len(path)
  PROVE  path[k] # n /\ path[k] \in DOMAIN t /\ ~ Names(t[path[k]].path, n)
<1> DEFINE q == t[path[k]].path
<1>1. /\ path \in Seq(Id) /\ Len(path) \in Nat /\ Len(path) >= 1
      /\ path[k] \in DOMAIN t
      /\ Len(q) = k - 1 /\ \A i \in 1 .. k - 1 : q[i] = path[i]
  BY LenProperties DEF Leads
<1>2. q \in Seq(Id) /\ Len(q) >= 1
  BY <1>1 DEF Closed, Leads
<1>3. path[k] # n
  BY <1>1, NamesIsLater
<1>4. ~ Names(q, n)
  BY <1>1, <1>2, NamesIsLater
<1> QED BY <1>1, <1>3, <1>4

\* Of two tables that agree on the rows of a path, both or neither are led through.
LEMMA LeadsAgree ==
  ASSUME NEW t, NEW u, NEW path, Leads(t, path),
         \A k \in 2 .. Len(path) : path[k] \in DOMAIN u /\ u[path[k]].path = t[path[k]].path
  PROVE  Leads(u, path)
BY DEF Leads

\* The rows below n begin with the path of n, and go on with n itself.
LEMMA BelowBegins ==
  ASSUME NEW t, Closed(t), NEW path, Leads(t, path), NEW n \in DOMAIN t, Names(path, n)
  PROVE  LET old == t[n].path
         IN  /\ Len(old) \in Nat /\ Len(old) >= 1 /\ Len(old) + 1 <= Len(path)
             /\ path[Len(old) + 1] = n
             /\ \A i \in 1 .. Len(old) : old[i] = path[i]
<1> DEFINE old == t[n].path
<1>1. path \in Seq(Id) /\ Len(path) \in Nat /\ Len(path) >= 1
  BY LenProperties DEF Leads
<1>2. PICK k \in 2 .. Len(path) : path[k] = n
  BY <1>1, NamesIsLater
<1>3. Len(old) = k - 1 /\ \A i \in 1 .. k - 1 : old[i] = path[i]
  BY <1>2 DEF Leads
<1> QED BY <1>1, <1>2, <1>3

\* What replace makes of such a path when old occurs at most at its beginning.
LEMMA ReplaceBeginning ==
  ASSUME NEW path \in Seq(Id), NEW old \in Seq(Id), NEW new,
         Len(old) >= 1, Len(old) <= Len(path), path[1] = Root,
         \A i \in 1 .. Len(old) : old[i] = path[i],
         Occurrences(path, old) \subseteq {1}
  PROVE  Replace(path, old, new) = Onto(path, Len(old), new)
<1>1. Len(old) \in Nat /\ Len(path) \in Nat /\ DOMAIN path = 1 .. Len(path)
  BY LenProperties
<1>2. /\ Tail(old) \in Seq(Id) /\ Len(Tail(old)) = Len(old) - 1
      /\ \A i \in 1 .. Len(Tail(old)) : Tail(old)[i] = old[i + 1]
  BY <1>1, HeadTailProperties, EmptySeq
<1> DEFINE part == SubSeq(path, 2, Len(old))
<1>3. \A i \in 2 .. Len(old) : path[i] \in Id
  BY <1>1, ElementOfSeq
<1>4. /\ part \in Seq(Id) /\ Len(part) = Len(old) - 1
      /\ \A i \in 1 .. Len(old) - 1 : part[i] = path[i + 1]
  <2>1. /\ part \in Seq(Id) /\ Len(part) = IF 2 <= Len(old) THEN Len(old) - 2 + 1 ELSE 0
        /\ \A i \in 1 .. Len(old) - 2 + 1 : part[i] = path[2 + i - 1]
    BY <1>1, <1>3, SubSeqProperties
  <2>2. \A l \in Nat : l >= 1 => /\ l - 2 + 1 = l - 1
                                 /\ (IF 2 <= l THEN l - 2 + 1 ELSE 0) = l - 1
    OBVIOUS
  <2>3. Len(part) = Len(old) - 1 /\ Len(old) - 2 + 1 = Len(old) - 1
    BY <2>1, <2>2, <1>1
  <2>4. ASSUME NEW i \in 1 .. Len(old) - 1 PROVE part[i] = path[i + 1]
    <3>1. part[i] = path[2 + i - 1] /\ 2 + i - 1 = i + 1
      BY <2>1, <2>3, <1>1
    <3> QED BY <3>1
  <2> QED BY <2>1, <2>3, <2>4
<1>5. \A i \in 1 .. Len(part) : part[i] = Tail(old)[i]
  BY <1>1, <1>2, <1>4
<1>6. part = Tail(old)
  BY <1>1, <1>2, <1>4, <1>5, SeqEqual
<1>7. 1 + Len(old) - 1 = Len(old) /\ 1 + 1 = 2 /\ 1 \in DOMAIN path
  BY <1>1
<1>8. 1 \in Occurrences(path, old)
  BY <1>6, <1>7 DEF Occurrences
<1>9. Occurrences(path, old) = {1}
  BY <1>8
<1> QED BY <1>9 DEF Replace, Onto

\* The path of a row below n after the move, id by id.
LEMMA MovedPath ==
  ASSUME NEW path \in Seq(Id), NEW new \in Seq(Id), NEW lo \in Nat, lo + 1 <= Len(path)
  PROVE  /\ Onto(path, lo, new) \in Seq(Id)
         /\ Len(Onto(path, lo, new)) = Len(new) + Len(path) - lo
         /\ \A i \in 1 .. Len(new) : Onto(path, lo, new)[i] = new[i]
         /\ \A i \in Len(new) + 1 .. Len(new) + Len(path) - lo :
              Onto(path, lo, new)[i] = path[i - Len(new) + lo]
<1> DEFINE rest  == SubSeq(path, lo + 1, Len(path))
           moved == new \o rest
<1>1. Len(new) \in Nat /\ Len(path) \in Nat
  BY LenProperties
<1>2. \A i \in lo + 1 .. Len(path) : path[i] \in Id
  BY <1>1, ElementOfSeq
<1>3. /\ rest \in Seq(Id)
      /\ Len(rest) = IF lo + 1 <= Len(path) THEN Len(path) - (lo + 1) + 1 ELSE 0
      /\ \A i \in 1 .. Len(path) - (lo + 1) + 1 : rest[i] = path[lo + 1 + i - 1]
  BY <1>1, <1>2, SubSeqProperties
<1>4. /\ moved \in Seq(Id) /\ Len(moved) = Len(new) + Len(rest)
      /\ \A i \in 1 .. Len(new) + Len(rest) :
           moved[i] = IF i <= Len(new) THEN new[i] ELSE rest[i - Len(new)]
  BY <1>3, ConcatProperties
<1>5. Len(rest) = Len(path) - lo
  BY <1>1, <1>3
<1>6. ASSUME NEW i \in Len(new) + 1 .. Len(new) + Len(path) - lo
      PROVE  moved[i] = path[i - Len(new) + lo]
  <2>1. moved[i] = rest[i - Len(new)] /\ i - Len(new) \in 1 .. Len(path) - (lo + 1) + 1
    BY <1>1, <1>4, <1>5
  <2>2. rest[i - Len(new)] = path[lo + 1 + (i - Len(new)) - 1]
    BY <2>1, <1>3
  <2>3. lo + 1 + (i - Len(new)) - 1 = i - Len(new) + lo
    BY <1>1
  <2> QED BY <2>1, <2>2, <2>3
<1>7. \A i \in 1 .. Len(new) : moved[i] = new[i]
  BY <1>1, <1>4, <1>5
<1> QED BY <1>1, <1>4, <1>5, <1>6, <1>7 DEF Onto

-----------------------------------------------------------------------------
\* Moving n, with every path below it rewritten, closes the table again.
LEMMA MoveCloses ==
  ASSUME NEW t, Closed(t), NEW n \in DOMAIN t,
         NEW r \in Row, Leads(t, r.path), r.parent = r.path[Len(r.path)], ~ Names(r.path, n),
         NEW u, DOMAIN u = DOMAIN t, u[n] = r,
         \A m \in DOMAIN t \ {n} : ~ Names(t[m].path, n) => u[m] = t[m],
         \A m \in DOMAIN t \ {n} : Names(t[m].path, n) =>
           u[m] = [parent |-> t[m].parent,
                   path   |-> Onto(t[m].path, Len(t[n].path), r.path)]
  PROVE  Closed(u)
<1> DEFINE old == t[n].path
           new == r.path
           lo  == Len(old)
           ln  == Len(new)
           Good(m) == /\ u[m] \in Row
                      /\ Leads(u, u[m].path)
                      /\ u[m].parent = u[m].path[Len(u[m].path)]
<1>1. /\ old \in Seq(Id) /\ lo \in Nat /\ lo >= 1 /\ lo = Len(old)
      /\ new \in Seq(Id) /\ ln \in Nat /\ ln >= 1 /\ ln = Len(new)
  BY LenProperties DEF Closed, Leads
<1> HIDE DEF lo, ln
<1>nat. lo \in Nat /\ lo >= 1 /\ ln \in Nat /\ ln >= 1
  BY <1>1
\* Outside the subtree nothing has changed.
<1>2. ASSUME NEW path, Leads(t, path), ~ Names(path, n)
      PROVE  /\ Leads(u, path)
             /\ \A k \in 2 .. Len(path) : u[path[k]] = t[path[k]]
  <2>1. \A k \in 2 .. Len(path) : u[path[k]] = t[path[k]] /\ path[k] \in DOMAIN u
    BY <1>2, AboveIsOutside
  <2> QED BY <1>2, <2>1, LeadsAgree
<1>3. Good(n)
  BY <1>2
<1>4. ASSUME NEW m \in DOMAIN t \ {n}, ~ Names(t[m].path, n) PROVE Good(m)
  <2>1. u[m] = t[m]
    BY <1>4
  <2> QED BY <1>2, <1>4, <2>1 DEF Closed
<1>5. ASSUME NEW m \in DOMAIN t \ {n}, Names(t[m].path, n) PROVE Good(m)
  <2> DEFINE path  == t[m].path
             len   == Len(path)
             moved == Onto(path, lo, new)
             width == ln + len - lo
  <2>1. /\ t[m] \in Row /\ Leads(t, path) /\ path \in Seq(Id)
        /\ len \in Nat /\ len = Len(path) /\ t[m].parent = path[len]
    BY LenProperties DEF Closed, Leads
  <2> HIDE DEF len
  <2>2. /\ lo + 1 <= len /\ path[lo + 1] = n
        /\ \A i \in 1 .. lo : old[i] = path[i]
    BY <1>1, <1>5, <2>1, BelowBegins
  <2>3. /\ moved \in Seq(Id)
        /\ Len(moved) = width
        /\ \A i \in 1 .. ln : moved[i] = new[i]
        /\ \A i \in ln + 1 .. width : moved[i] = path[i - ln + lo]
    <3> HIDE DEF moved
    <3>1. moved = Onto(path, lo, new)
      BY DEF moved
    <3>2. /\ path \in Seq(Id) /\ len = Len(path) /\ lo + 1 <= Len(path)
          /\ new \in Seq(Id) /\ ln = Len(new) /\ lo \in Nat
      BY <1>1, <2>1, <2>2
    <3> HIDE DEF path, new
    <3>3. moved \in Seq(Id)
      BY <3>1, <3>2, MovedPath
    <3>4. Len(moved) = width
      BY <3>1, <3>2, MovedPath
    <3>5. ASSUME NEW i \in 1 .. ln PROVE moved[i] = new[i]
      BY <3>1, <3>2, MovedPath
    <3>6. ASSUME NEW i \in ln + 1 .. width PROVE moved[i] = path[i - ln + lo]
      BY <3>1, <3>2, MovedPath
    <3> QED BY <3>3, <3>4, <3>5, <3>6
  <2>nat. len \in Nat /\ lo + 1 <= len
    BY <2>1, <2>2
  <2>4. u[m] = [parent |-> t[m].parent, path |-> moved]
    BY <1>1, <1>5
  <2> HIDE DEF moved
  <2>5. u[m].path = moved /\ u[m].parent = t[m].parent /\ u[m] \in Row
    BY <2>1, <2>3, <2>4 DEF Row
  <2>6. moved[width] = path[len]
    <3>1. width \in ln + 1 .. width /\ width - ln + lo = len
      BY <1>nat, <2>nat
    <3> QED BY <3>1, <2>3
  <2>7. ASSUME NEW k \in 2 .. width
        PROVE  /\ moved[k] \in DOMAIN u
               /\ Len(u[moved[k]].path) = k - 1
               /\ \A i \in 1 .. k - 1 : u[moved[k]].path[i] = moved[i]
    <3>1. CASE k \in 2 .. ln
      <4>1. moved[k] = new[k] /\ \A i \in 1 .. k - 1 : moved[i] = new[i]
        BY <3>1, <1>1, <2>3
      <4>2. Leads(u, new)
        BY <1>2
      <4>3. k \in 2 .. Len(new)
        BY <3>1, <1>1
      <4>4. /\ new[k] \in DOMAIN u
            /\ Len(u[new[k]].path) = k - 1
            /\ \A i \in 1 .. k - 1 : u[new[k]].path[i] = new[i]
        BY <4>2, <4>3 DEF Leads
      <4> QED BY <4>1, <4>4
    <3>2. CASE k = ln + 1
      <4>1. ln + 1 \in ln + 1 .. width /\ (ln + 1) - ln + lo = lo + 1
        BY <1>nat, <2>nat
      <4>2. moved[k] = n
        BY <4>1, <3>2, <2>2, <2>3
      <4> QED BY <4>2, <3>2, <1>1, <2>3
    <3>3. CASE k > ln + 1
      <4> DEFINE j == k - ln + lo
                 q == t[path[j]].path
                 w == Onto(q, lo, new)
      <4>1. k \in ln + 1 .. width /\ j \in lo + 2 .. len /\ j \in Nat /\ k \in Nat
        BY <3>3, <1>nat, <2>nat
      <4> HIDE DEF j
      <4>2. moved[k] = path[j]
        BY <4>1, <2>3 DEF j
      <4>3. /\ path[j] \in DOMAIN t /\ Len(q) = j - 1
            /\ \A i \in 1 .. j - 1 : q[i] = path[i]
        <5>1. j \in 2 .. Len(path)
          BY <4>1, <1>1, <2>1
        <5> QED BY <5>1, <2>1 DEF Leads
      <4>4. q \in Seq(Id) /\ Leads(t, q)
        BY <4>3 DEF Closed, Leads
      <4>5. q[lo + 1] = n /\ lo + 1 \in 2 .. j - 1
        <5>1. lo + 1 \in 1 .. j - 1 /\ lo + 1 \in 2 .. j - 1
          BY <4>1, <1>1, <2>1, <2>2
        <5> QED BY <5>1, <4>3, <2>2
      <4>6. Names(q, n)
        <5>1. Len(q) >= 1
          BY <4>4 DEF Leads
        <5> QED BY <5>1, <4>3, <4>4, <4>5, NamesIsLater
      <4>7. path[j] # n
        <5>1. Len(q) # lo
          BY <4>3, <4>1, <1>1, <2>1
        <5> QED BY <5>1, <1>1
      <4>8. u[path[j]].path = w
        <5>1. u[path[j]] = [parent |-> t[path[j]].parent, path |-> w]
          BY <4>3, <4>6, <4>7, <1>1
        <5>2. t[path[j]] \in Row
          BY <4>3 DEF Closed
        <5> QED BY <5>1, <5>2 DEF Row
      <4>9. /\ Len(w) = k - 1
            /\ \A i \in 1 .. ln : w[i] = new[i]
            /\ \A i \in ln + 1 .. k - 1 : w[i] = q[i - ln + lo]
        <5>1. lo + 1 <= j - 1 /\ ln + (j - 1) - lo = k - 1
          BY <4>1, <1>nat, <2>nat DEF j
        <5> HIDE DEF w
        <5>2. w = Onto(q, lo, new)
          BY DEF w
        <5> DEFINE len2 == j - 1
        <5>3. len2 = Len(q) /\ lo + 1 <= len2 /\ ln + len2 - lo = k - 1
          BY <5>1, <4>3
        <5>seqs. q \in Seq(Id) /\ new \in Seq(Id) /\ ln = Len(new) /\ lo \in Nat
          BY <1>1, <4>4
        <5> HIDE DEF len2, q, new
        <5>4. Len(w) = ln + len2 - lo
          BY <5>2, <5>3, <5>seqs, MovedPath
        <5>5. ASSUME NEW i \in 1 .. ln PROVE w[i] = new[i]
          BY <5>2, <5>3, <5>seqs, MovedPath
        <5>6. ASSUME NEW i \in ln + 1 .. ln + len2 - lo PROVE w[i] = q[i - ln + lo]
          BY <5>2, <5>3, <5>seqs, MovedPath
        <5> QED BY <5>3, <5>4, <5>5, <5>6
      <4>10. ASSUME NEW i \in 1 .. k - 1 PROVE w[i] = moved[i]
        <5>1. CASE i \in 1 .. ln
          BY <5>1, <4>9, <2>3
        <5>2. CASE i \in ln + 1 .. k - 1
          <6>1. w[i] = q[i - ln + lo] /\ moved[i] = path[i - ln + lo]
            <7>1. i \in ln + 1 .. width
              BY <5>2, <4>1, <1>nat, <2>nat
            <7> QED BY <7>1, <5>2, <4>9, <2>3
          <6>2. i - ln + lo \in 1 .. j - 1
            BY <5>2, <4>1, <1>nat, <2>nat DEF j
          <6> QED BY <6>1, <6>2, <4>3
        <5> QED BY <5>1, <5>2, <4>1, <1>nat
      <4>11. moved[k] \in DOMAIN u /\ u[moved[k]].path = w
        BY <4>2, <4>3, <4>8
      <4> QED BY <4>9, <4>10, <4>11
    <3>4. k \in 2 .. ln \/ k = ln + 1 \/ k > ln + 1
      BY <1>nat, <2>nat
    <3> QED BY <3>1, <3>2, <3>3, <3>4
  <2>8. moved[1] = Root /\ width >= 1
    <3>1. 1 \in 1 .. ln /\ width >= 1
      BY <1>nat, <2>nat
    <3>2. new[1] = Root
      BY DEF Leads
    <3> QED BY <3>1, <3>2, <2>3
  <2>9. Leads(u, moved)
    <3>1. moved \in Seq(Id) /\ Len(moved) = width /\ Len(moved) >= 1
      BY <2>3, <2>8
    <3> HIDE DEF width
    <3> QED BY <3>1, <2>7, <2>8, Zenon DEF Leads
  <2>10. t[m].parent = moved[Len(moved)]
    BY <2>1, <2>3, <2>6
  <2> QED BY <2>5, <2>9, <2>10
<1> QED BY <1>3, <1>4, <1>5 DEF Closed

-----------------------------------------------------------------------------
\* An insert that uses no stale path.
LEMMA InsertCloses ==
  ASSUME TreeAssumption, DrawnInv, NEW a \in Admin, Insert(a), cause' = {},
         cause = {} => Closed(row)
  PROVE  Closed(row')
<1>1. Closed(row) /\ ~ ParentMoved(a)
  BY DEF Insert
<1> DEFINE r == NewRow(a)
<1>2. r \in Row /\ Leads(row, r.path) /\ r.parent = r.path[Len(r.path)]
  BY <1>1, NewPathLeads
<1> HIDE DEF r
<1>3. PICK n \in Node \ drawn :
        row' = [m \in DOMAIN row \cup {n} |-> IF m = n THEN r ELSE row[m]]
  BY DEF Insert, r
<1>4. n \notin DOMAIN row
  BY DEF DrawnInv
<1>5. \A m \in DOMAIN row : m \in DOMAIN row' /\ row'[m] = row[m]
  BY <1>3, <1>4
<1>6. ASSUME NEW path, Leads(row, path) PROVE Leads(row', path)
  BY <1>5, <1>6, LeadsAgree DEF Leads
<1>7. ASSUME NEW m \in DOMAIN row'
      PROVE  /\ row'[m] \in Row
             /\ Leads(row', row'[m].path)
             /\ row'[m].parent = row'[m].path[Len(row'[m].path)]
  <2>1. CASE m = n
    <3>1. row'[m] = r
      BY <2>1, <1>3
    <3> QED BY <3>1, <1>2, <1>6
  <2>2. CASE m # n
    <3>1. m \in DOMAIN row /\ row'[m] = row[m]
      BY <2>2, <1>3
    <3> QED BY <3>1, <1>1, <1>6 DEF Closed
  <2> QED BY <2>1, <2>2
<1> QED BY <1>7 DEF Closed

\* A delete takes everything that it must.
LEMMA DeleteCloses ==
  ASSUME NEW n, Delete(n), Closed(row)
  PROVE  Closed(row')
<1>1. row' = [m \in DOMAIN row \ ({n} \cup Below(row, n)) |-> row[m]]
  BY DEF Delete
<1>2. ASSUME NEW m \in DOMAIN row'
      PROVE  /\ row'[m] \in Row
             /\ Leads(row', row'[m].path)
             /\ row'[m].parent = row'[m].path[Len(row'[m].path)]
  <2>1. m \in DOMAIN row /\ row'[m] = row[m] /\ ~ Names(row[m].path, n)
    BY <1>1 DEF Below
  <2>2. row[m] \in Row /\ Leads(row, row[m].path)
        /\ row[m].parent = row[m].path[Len(row[m].path)]
    BY <2>1 DEF Closed
  <2> DEFINE path == row[m].path
  <2>3. ASSUME NEW k \in 2 .. Len(path)
        PROVE  path[k] \in DOMAIN row' /\ row'[path[k]].path = row[path[k]].path
    <3>1. path[k] # n /\ path[k] \in DOMAIN row /\ ~ Names(row[path[k]].path, n)
      BY <2>1, <2>2, AboveIsOutside
    <3> QED BY <3>1, <1>1 DEF Below
  <2>4. Leads(row', path)
    BY <2>2, <2>3, LeadsAgree
  <2> QED BY <2>1, <2>2, <2>4
<1> QED BY <1>2 DEF Closed

\* What a move works with that uses nothing stale and goes to a place outside the
\* subtree: a path through the table, and the rows below the node as they are.
LEMMA MoveReads ==
  ASSUME TreeAssumption, DrawnInv, Closed(row), NEW a \in Admin,
         ~ Stale(a), req[a].node \notin Ids(NewRow(a).path)
  PROVE  LET n == req[a].node
             r == NewRow(a)
         IN  /\ n \in DOMAIN row => row[n].path = req[a].old
             /\ r \in Row /\ Leads(row, r.path) /\ r.parent = r.path[Len(r.path)]
             /\ ~ Names(r.path, n)
             /\ DOMAIN Listed(a) = Below(row, n)
             /\ \A m \in Below(row, n) : Listed(a)[m] = row[m]
             /\ \A m \in Below(row, n) : n \in DOMAIN row /\ m # n
<1> DEFINE n == req[a].node
           r == NewRow(a)
<1>1. /\ ~ ParentMoved(a)
      /\ n \in DOMAIN row => row[n].path = req[a].old
      /\ Subtree(row, n) = Subtree(Table(a), n)
  BY DEF Stale
<1>2. r \in Row /\ Leads(row, r.path) /\ r.parent = r.path[Len(r.path)]
  BY <1>1, NewPathLeads
<1>3. ~ Names(r.path, n)
  <2>1. /\ r.path \in Seq(Id) /\ Len(r.path) >= 1 /\ Len(r.path) \in Nat
        /\ DOMAIN r.path = 1 .. Len(r.path)
    BY <1>2, LenProperties DEF Leads
  <2>2. \A k \in 2 .. Len(r.path) : k \in DOMAIN r.path
    BY <2>1
  <2> QED BY <2>1, <2>2, NamesIsLater DEF Ids
<1>4. Below(row, n) = Below(Table(a), n) /\ \A m \in Below(row, n) : row[m] = Table(a)[m]
  <2>1. /\ DOMAIN Subtree(row, n) = Below(row, n)
        /\ DOMAIN Subtree(Table(a), n) = Below(Table(a), n)
        /\ \A m \in Below(row, n) : Subtree(row, n)[m] = row[m]
        /\ \A m \in Below(Table(a), n) : Subtree(Table(a), n)[m] = Table(a)[m]
    BY DEF Subtree
  <2> QED BY <2>1, <1>1
<1>5. ASSUME NEW m \in DOMAIN row, Names(row[m].path, n)
      PROVE  n \in DOMAIN row /\ m # n
  <2> DEFINE path == row[m].path
  <2>1. path \in Seq(Id) /\ Len(path) >= 1 /\ Len(path) \in Nat /\ Leads(row, path)
    BY LenProperties DEF Closed, Leads
  <2>2. PICK k \in 2 .. Len(path) : path[k] = n
    BY <1>5, <2>1, NamesIsLater
  <2>3. n \in DOMAIN row /\ Len(row[n].path) = k - 1
    BY <2>1, <2>2 DEF Leads
  <2>4. Len(path) # k - 1
    BY <2>1
  <2> QED BY <2>3, <2>4
<1>6. /\ DOMAIN Listed(a) = Below(row, n)
      /\ \A m \in Below(row, n) : Listed(a)[m] = row[m]
  <2>1. CASE n \notin DOMAIN row
    <3>1. Listed(a) = Subtree(row, n)
      BY <2>1, <1>1 DEF Listed
    <3> QED BY <3>1 DEF Subtree
  <2>2. CASE n \in DOMAIN row
    <3> DEFINE table == Placed(Table(a), n, r)
    <3>1. Listed(a) = [m \in Below(table, n) |-> table[m]]
      BY <2>2 DEF Listed, Subtree
    <3>2. /\ DOMAIN table = DOMAIN Table(a)
          /\ \A m \in DOMAIN table : table[m] = IF m = n THEN r ELSE Table(a)[m]
      BY DEF Placed
    <3> HIDE DEF table, r
    <3>3. n \notin Below(row, n)
      BY <1>5 DEF Below
    <3>4. Below(table, n) = Below(Table(a), n)
      BY <3>2, <3>3, <1>3, <1>4 DEF Below
    <3>5. \A m \in Below(row, n) : table[m] = Table(a)[m]
      BY <3>2, <3>3, <1>4 DEF Below
    <3> QED BY <3>1, <3>4, <3>5, <1>4
  <2> QED BY <2>1, <2>2
<1> QED
  BY <1>1, <1>2, <1>3, <1>5, <1>6 DEF Below

\* A move that uses nothing stale, goes to a place outside the subtree, and
\* replaces the beginnings of paths only.
LEMMA UpdateCloses ==
  ASSUME TreeAssumption, DrawnInv, NEW a \in Admin, Update(a), cause' = {},
         cause = {} => Closed(row)
  PROVE  Closed(row')
<1> DEFINE n == req[a].node
           r == NewRow(a)
<1>1. Closed(row) /\ CausesOf(a) = {} /\ row' = Moved(a)
  BY DEF Update
<1>2. /\ ~ Stale(a)
      /\ n \notin Ids(r.path)
      /\ \A m \in DOMAIN Listed(a) : Occurrences(Listed(a)[m].path, req[a].old) \subseteq {1}
  BY <1>1 DEF CausesOf
<1>3. /\ n \in DOMAIN row => row[n].path = req[a].old
      /\ r \in Row /\ Leads(row, r.path) /\ r.parent = r.path[Len(r.path)]
      /\ ~ Names(r.path, n)
      /\ DOMAIN Listed(a) = Below(row, n)
      /\ \A m \in Below(row, n) : Listed(a)[m] = row[m]
      /\ \A m \in Below(row, n) : n \in DOMAIN row /\ m # n
  BY <1>1, <1>2, MoveReads
<1>4. /\ DOMAIN row' = DOMAIN row
      /\ \A m \in DOMAIN row : row'[m] = IF m \in Below(row, n) THEN Rewritten(a, row[m])
                                         ELSE IF m = n THEN r ELSE row[m]
  BY <1>1, <1>3 DEF Moved
<1>5. CASE n \notin DOMAIN row
  <2>1. \A m \in DOMAIN row : row'[m] = row[m]
    BY <1>5, <1>4, <1>3 DEF Below
  <2>2. ASSUME NEW m \in DOMAIN row'
        PROVE  /\ row'[m] \in Row
               /\ Leads(row', row'[m].path)
               /\ row'[m].parent = row'[m].path[Len(row'[m].path)]
    <3>1. m \in DOMAIN row /\ row'[m] = row[m]
      BY <1>4, <2>1
    <3>2. row[m] \in Row /\ Leads(row, row[m].path)
          /\ row[m].parent = row[m].path[Len(row[m].path)]
      BY <3>1, <1>1 DEF Closed
    <3>3. Leads(row', row[m].path)
      BY <3>2, <2>1, <1>4, LeadsAgree DEF Leads
    <3> QED BY <3>1, <3>2, <3>3
  <2> QED BY <2>2 DEF Closed
<1>6. CASE n \in DOMAIN row
  <2>1. row'[n] = r
    BY <1>6, <1>4, <1>3 DEF Below
  <2>2. ASSUME NEW m \in DOMAIN row \ {n}, ~ Names(row[m].path, n) PROVE row'[m] = row[m]
    BY <2>2, <1>4 DEF Below
  <2>3. ASSUME NEW m \in DOMAIN row \ {n}, Names(row[m].path, n)
        PROVE  row'[m] = [parent |-> row[m].parent,
                          path   |-> Onto(row[m].path, Len(row[n].path), r.path)]
    <3> DEFINE path == row[m].path
               old  == row[n].path
    <3>1. m \in Below(row, n)
      BY <2>3 DEF Below
    <3>2. row'[m] = [row[m] EXCEPT !.path = Replace(@, old, r.path)]
      BY <3>1, <1>4, <1>3, <1>6 DEF Rewritten
    <3>3. /\ row[m] \in Row /\ Leads(row, path) /\ path \in Seq(Id) /\ path[1] = Root
          /\ Len(path) \in Nat
          /\ old \in Seq(Id) /\ Len(old) \in Nat /\ Len(old) >= 1
      BY <1>1, <1>6, LenProperties DEF Closed, Leads
    <3>4. Len(old) + 1 <= Len(path) /\ \A i \in 1 .. Len(old) : old[i] = path[i]
      BY <3>3, <2>3, <1>1, <1>6, BelowBegins
    <3>5. Occurrences(path, old) \subseteq {1}
      BY <3>1, <1>2, <1>3, <1>6
    <3>6. Len(old) <= Len(path)
      BY <3>3, <3>4
    <3>7. Replace(path, old, r.path) = Onto(path, Len(old), r.path)
      BY <3>3, <3>4, <3>5, <3>6, ReplaceBeginning
    <3>8. row'[m] = [row[m] EXCEPT !.path = Onto(path, Len(old), r.path)]
      BY <3>2, <3>7
    <3> QED BY <3>8, <3>3 DEF Row
  <2> HIDE DEF r
  <2> QED BY <1>1, <1>3, <1>4, <1>6, <2>1, <2>2, <2>3, MoveCloses
<1> QED BY <1>5, <1>6

\* Inv is inductive.
LEMMA InvNext ==
  ASSUME TreeAssumption, Inv, [Next]_vars
  PROVE  Inv'
<1> USE DEF Inv
<1>1. ASSUME NEW a \in Admin, NEW p, Add(a, p) PROVE Inv'
  BY <1>1 DEF Add, Begin, DrawnInv
<1>2. ASSUME NEW a \in Admin, NEW p, NEW n, Edit(a, n, p) PROVE Inv'
  BY <1>2 DEF Edit, Begin, DrawnInv
<1>3. ASSUME NEW a \in Admin, ReadParent(a) PROVE Inv'
  BY <1>3 DEF ReadParent, DrawnInv
<1>4. ASSUME NEW a \in Admin, Insert(a) PROVE Inv'
  <2>1. DrawnInv'
    BY <1>4 DEF Insert, DrawnInv
  <2> QED BY <1>4, <2>1, InsertCloses
<1>5. ASSUME NEW a \in Admin, Update(a) PROVE Inv'
  <2>1. DrawnInv'
    BY <1>5 DEF Update, Moved, DrawnInv
  <2> QED BY <1>5, <2>1, UpdateCloses
<1>6. ASSUME NEW a \in Admin, Fail(a) PROVE Inv'
  BY <1>6 DEF Fail, DrawnInv
<1>7. ASSUME NEW n \in DOMAIN row, Delete(n) PROVE Inv'
  <2>1. DrawnInv' /\ cause' = cause
    BY <1>7 DEF Delete, DrawnInv
  <2> QED BY <1>7, <2>1, DeleteCloses
<1>8. CASE UNCHANGED vars
  BY <1>8 DEF vars, DrawnInv
<1> QED BY <1>1, <1>2, <1>3, <1>4, <1>5, <1>6, <1>7, <1>8 DEF Next

-----------------------------------------------------------------------------
\* For any number of requests, ids and levels: a path lists the ancestors of its row
\* unless save has met one of the three causes.
THEOREM PathsAreRight == Spec => []ParentIdsAreAncestors
<1>1. Init => Inv
  BY DEF Init, Inv, DrawnInv, Closed
<1>2. Inv /\ [Next]_vars => Inv'
  BY TreeAssumption, InvNext
<1>3. Inv => ParentIdsAreAncestors
  BY TreeAssumption, ClosedIsRight DEF Inv, ParentIdsAreAncestors
<1> QED BY <1>1, <1>2, <1>3, PTL DEF Spec
-----------------------------------------------------------------------------
(***************************************************************************)
(* Types.  String.replace is the recursive function of ReplaceAll: it      *)
(* exists, and gives a path that is not empty, because the text replaced   *)
(* is not empty and lies within the path where it occurs.                  *)
(***************************************************************************)

Less == {ss \in Nat \X Nat : ss[1] < ss[2]}

LEMMA LessWF == IsWellFoundedOn(Less, Nat)
BY NatLessThanWellFounded DEF OpToRel, Less

\* Induction over 0 .. N, in a form that needs no operator parameter.
LEMMA InductionTo ==
  ASSUME NEW N \in Nat, NEW S, 0 \in S, \A n \in 0 .. N - 1 : n \in S => n + 1 \in S
  PROVE  \A n \in 0 .. N : n \in S
<1> DEFINE T == {n \in 0 .. N : n \notin S}
<1>1. SUFFICES ASSUME T # {} PROVE FALSE
  OBVIOUS
<1>2. PICK x \in T : \A y \in T : <<y, x>> \notin Less
  <2>1. T \subseteq Nat
    OBVIOUS
  <2> HIDE DEF T
  <2>2. QED
    BY <1>1, <2>1, LessWF, WFMin
<1>3. x # 0 /\ x \in 0 .. N
  OBVIOUS
<1>4. x - 1 \in 0 .. N - 1 /\ (x - 1) + 1 = x /\ x - 1 \in 0 .. N
  BY <1>3
<1>5. x - 1 \in T
  BY <1>4
<1>6. <<x - 1, x>> \in Less
  BY <1>3, <1>4 DEF Less
<1>7. QED
  BY <1>2, <1>5, <1>6

\* One step of String.replace at the place i of path, g being the rest's result.
At(path, old, new, g, i) ==
  IF i > Len(path) THEN <<>>
  ELSE IF i \in Occurrences(path, old)
         THEN <<path[i]>> \o Tail(new) \o g[i + Len(old)]
         ELSE <<path[i]>> \o g[i + 1]

\* g is the recursion's function on the last k places of path and its end.
Down(path, old, new, k, g) ==
  g = [i \in Len(path) + 1 - k .. Len(path) + 1 |-> At(path, old, new, g, i)]

\* Where old occurs in path, it ends within path.
LEMMA OccursWithin ==
  ASSUME NEW path \in Seq(Id), NEW old \in Seq(Id), Len(old) >= 1,
         NEW i \in 1 .. Len(path), i \in Occurrences(path, old)
  PROVE  i + Len(old) \in i + 1 .. Len(path) + 1
<1>1. Len(path) \in Nat /\ Len(old) \in Nat
  BY LenProperties
<1>2. i + Len(old) - 1 <= Len(path)
  BY DEF Occurrences
<1> QED
  BY <1>1, <1>2

\* At looks at places after i only.
LEMMA AtAgrees ==
  ASSUME NEW path \in Seq(Id), NEW old \in Seq(Id), Len(old) >= 1, NEW new,
         NEW i \in 1 .. Len(path) + 1, NEW g, NEW h,
         \A j \in i + 1 .. Len(path) + 1 : g[j] = h[j]
  PROVE  At(path, old, new, g, i) = At(path, old, new, h, i)
<1>1. Len(path) \in Nat
  BY LenProperties
<1>2. CASE i > Len(path)
  BY <1>2 DEF At
<1>3. CASE i \in 1 .. Len(path) /\ i \in Occurrences(path, old)
  <2>1. g[i + Len(old)] = h[i + Len(old)]
    BY <1>3, OccursWithin
  <2> QED
    BY <2>1, <1>1, <1>3 DEF At
<1>4. CASE i \in 1 .. Len(path) /\ i \notin Occurrences(path, old)
  <2>1. g[i + 1] = h[i + 1]
    BY <1>1, <1>4
  <2> QED
    BY <2>1, <1>1, <1>4 DEF At
<1> QED
  BY <1>1, <1>2, <1>3, <1>4

LEMMA DownExists ==
  ASSUME NEW path \in Seq(Id), NEW old \in Seq(Id), Len(old) >= 1, NEW new
  PROVE  \A k \in 0 .. Len(path) : \E g : Down(path, old, new, k, g)
<1> DEFINE N == Len(path)
           S == {k \in 0 .. N : \E g : Down(path, old, new, k, g)}
<1>1. N \in Nat
  BY LenProperties
<1>2. 0 \in S
  <2> DEFINE g == [i \in N + 1 - 0 .. N + 1 |-> <<>>]
  <2>1. \A i \in N + 1 - 0 .. N + 1 : At(path, old, new, g, i) = <<>>
    BY <1>1 DEF At
  <2>2. Down(path, old, new, 0, g)
    BY <2>1 DEF Down
  <2> QED
    BY <2>2, <1>1
<1>3. ASSUME NEW k \in 0 .. N - 1, k \in S PROVE k + 1 \in S
  <2>1. PICK g : Down(path, old, new, k, g)
    BY <1>3
  <2> DEFINE m == N + 1 - (k + 1)
             h == [i \in m .. N + 1 |-> IF i = m THEN At(path, old, new, g, m) ELSE g[i]]
  <2>2. m \in 1 .. N /\ N + 1 - k = m + 1
    BY <1>1
  <2>3. ASSUME NEW i \in m + 1 .. N + 1 PROVE h[i] = g[i] /\ g[i] = At(path, old, new, g, i)
    <3>1. \A j \in N + 1 - k .. N + 1 : g[j] = At(path, old, new, g, j)
      BY <2>1 DEF Down
    <3>2. i \in m .. N + 1 /\ i # m
      BY <2>2, <1>1
    <3> QED
      BY <3>1, <3>2, <2>2
  <2>4. h[m] = At(path, old, new, g, m)
    BY <2>2, <1>1
  <2> HIDE DEF h
  <2>5. ASSUME NEW i \in m .. N + 1 PROVE h[i] = At(path, old, new, h, i)
    <3>1. i \in 1 .. N + 1 /\ \A j \in i + 1 .. N + 1 : j \in m + 1 .. N + 1
      BY <2>2, <1>1
    <3>2. \A j \in i + 1 .. N + 1 : g[j] = h[j]
      BY <3>1, <2>3
    <3>3. At(path, old, new, g, i) = At(path, old, new, h, i)
      BY <3>1, <3>2, AtAgrees
    <3>4. i = m \/ i \in m + 1 .. N + 1
      BY <2>2, <1>1
    <3> QED
      BY <3>3, <3>4, <2>3, <2>4
  <2>6. Down(path, old, new, k + 1, h)
    <3>1. h = [i \in m .. N + 1 |-> At(path, old, new, h, i)]
      BY <2>5 DEF h
    <3> QED
      BY <3>1 DEF Down
  <2> QED
    BY <2>6, <1>1
<1> HIDE DEF S
<1>4. \A k \in 0 .. N : k \in S
  BY <1>1, <1>2, <1>3, InductionTo
<1> QED
  BY <1>4 DEF S

\* String.replace is defined, by the recursion it is written with.
LEMMA ReplaceAllIsDown ==
  ASSUME NEW path \in Seq(Id), NEW old \in Seq(Id), Len(old) >= 1, NEW new
  PROVE  \E g : Down(path, old, new, Len(path), g) /\ ReplaceAll(path, old, new) = g[1]
<1>1. Len(path) \in Nat
  BY LenProperties
<1>2. \E g : Down(path, old, new, Len(path), g)
  <2>1. Len(path) \in 0 .. Len(path)
    BY <1>1
  <2> QED
    BY <2>1, DownExists
<1>3. Len(path) + 1 - Len(path) = 1
  BY <1>1
<1>4. \E g : g = [i \in 1 .. Len(path) + 1 |-> At(path, old, new, g, i)]
  BY <1>2, <1>3 DEF Down
<1> DEFINE R == CHOOSE g : g = [i \in 1 .. Len(path) + 1 |->
                  IF i > Len(path) THEN <<>>
                  ELSE IF i \in Occurrences(path, old)
                         THEN <<path[i]>> \o Tail(new) \o g[i + Len(old)]
                         ELSE <<path[i]>> \o g[i + 1]]
<1>5. ReplaceAll(path, old, new) = R[1]
  BY DEF ReplaceAll
<1>6. R = [i \in 1 .. Len(path) + 1 |-> At(path, old, new, R, i)]
  BY <1>4 DEF At
<1>7. Down(path, old, new, Len(path), R)
  BY <1>6, <1>3 DEF Down
<1> QED
  BY <1>5, <1>7

\* Concatenation is associative.
LEMMA ThreePaths ==
  \A a, b, c \in Seq(Id) : a \o b \o c = a \o (b \o c)
<1> SUFFICES ASSUME NEW a \in Seq(Id), NEW b \in Seq(Id), NEW c \in Seq(Id)
             PROVE  a \o b \o c = a \o (b \o c)
  OBVIOUS
<1> QED
  BY ConcatAssociative

\* Put together from the path and what replaces a part of it, it is a path again.
LEMMA DownTyped ==
  ASSUME TreeAssumption,
         NEW path \in Seq(Id), NEW old \in Seq(Id), Len(old) >= 1,
         NEW new \in Seq(Id), Len(new) >= 1,
         NEW g, Down(path, old, new, Len(path), g)
  PROVE  /\ \A k \in 0 .. Len(path) : g[Len(path) + 1 - k] \in Seq(Id)
         /\ Len(path) >= 1 => Len(g[1]) >= 1
<1> DEFINE N == Len(path)
           S == {k \in 0 .. N : \A i \in N + 1 - k .. N + 1 : g[i] \in Seq(Id)}
<1>1. N \in Nat
  BY LenProperties
<1>2. \A i \in 1 .. N + 1 : g[i] = At(path, old, new, g, i)
  <2>1. N + 1 - N = 1
    BY <1>1
  <2>2. \A i \in N + 1 - N .. N + 1 : g[i] = At(path, old, new, g, i)
    BY DEF Down
  <2> QED
    BY <2>1, <2>2, Zenon
<1>3. 0 \in S
  <2>1. g[N + 1] = <<>>
    <3>1. N + 1 \in 1 .. N + 1 /\ N + 1 > N
      BY <1>1
    <3>2. g[N + 1] = At(path, old, new, g, N + 1)
      BY <1>2, <3>1
    <3> QED
      BY <3>1, <3>2 DEF At
  <2>2. <<>> \in Seq(Id)
    BY EmptySeq
  <2>3. \A i \in N + 1 - 0 .. N + 1 : i = N + 1
    BY <1>1
  <2>4. 0 \in 0 .. N
    BY <1>1
  <2> QED
    BY <2>1, <2>2, <2>3, <2>4, Zenon
<1>4. Tail(new) \in Seq(Id)
  BY HeadTailProperties, EmptySeq
<1>5. ASSUME NEW i \in 1 .. N, \A j \in i + 1 .. N + 1 : g[j] \in Seq(Id)
      PROVE  g[i] \in Seq(Id) /\ Len(g[i]) >= 1
  <2>0. ~ (i > N) /\ g[i] = At(path, old, new, g, i)
    <3>1. i \in 1 .. N + 1 /\ ~ (i > N)
      BY <1>1
    <3> QED
      BY <1>2, <3>1
  <2>1. path[i] \in Id
    BY ElementOfSeq
  <2>2. <<path[i]>> \in Seq(Id) /\ Len(<<path[i]>>) = 1
    BY <2>1
  <2>3. ASSUME NEW t \in Seq(Id), g[i] = <<path[i]>> \o t
        PROVE  g[i] \in Seq(Id) /\ Len(g[i]) >= 1
    <3>1. <<path[i]>> \o t \in Seq(Id) /\ Len(<<path[i]>> \o t) = 1 + Len(t) /\ Len(t) \in Nat
      BY <2>2, ConcatProperties, LenProperties
    <3> QED
      BY <3>1, <2>3
  <2>4. CASE i \in Occurrences(path, old)
    <3> DEFINE t == g[i + Len(old)]
    <3>1. t \in Seq(Id)
      BY <2>4, <1>5, OccursWithin
    <3>2. g[i] = <<path[i]>> \o Tail(new) \o t
      BY <2>4, <2>0 DEF At
    <3> HIDE DEF t
    <3>3. <<path[i]>> \o Tail(new) \o t = <<path[i]>> \o (Tail(new) \o t)
      <4>1. <<path[i]>> \in Seq(Id)
        BY <2>2
      <4> HIDE DEF N, S
      <4> QED
        BY <4>1, <1>4, <3>1, ThreePaths, Zenon
    <3>4. Tail(new) \o t \in Seq(Id)
      BY <3>1, <1>4, ConcatProperties
    <3> QED
      BY <3>2, <3>3, <3>4, <2>3
  <2>5. CASE i \notin Occurrences(path, old)
    <3>1. g[i] = <<path[i]>> \o g[i + 1]
      BY <2>5, <2>0 DEF At
    <3>2. g[i + 1] \in Seq(Id)
      BY <1>1, <1>5
    <3> QED
      BY <3>1, <3>2, <2>3
  <2> QED
    BY <2>4, <2>5
<1>6. ASSUME NEW k \in 0 .. N - 1, k \in S PROVE k + 1 \in S
  <2> DEFINE m == N + 1 - (k + 1)
  <2>1. m \in 1 .. N /\ N + 1 - k = m + 1 /\ k + 1 \in 0 .. N
    BY <1>1
  <2>2. \A j \in m + 1 .. N + 1 : g[j] \in Seq(Id)
    BY <1>6, <2>1
  <2>3. g[m] \in Seq(Id)
    BY <2>1, <2>2, <1>5
  <2>4. \A i \in m .. N + 1 : i = m \/ i \in m + 1 .. N + 1
    BY <2>1, <1>1
  <2>5. \A i \in m .. N + 1 : g[i] \in Seq(Id)
    BY <2>2, <2>3, <2>4
  <2> QED
    BY <2>1, <2>5
<1> HIDE DEF S
<1>7. \A k \in 0 .. N : k \in S
  BY <1>1, <1>3, <1>6, InductionTo
<1>8. \A k \in 0 .. N : g[N + 1 - k] \in Seq(Id)
  <2>1. \A k \in 0 .. N : N + 1 - k \in N + 1 - k .. N + 1
    BY <1>1
  <2> QED
    BY <1>7, <2>1 DEF S
<1>9. ASSUME N >= 1 PROVE Len(g[1]) >= 1
  <2>1. \A j \in 1 + 1 .. N + 1 : N + 1 - j \in 0 .. N /\ N + 1 - (N + 1 - j) = j
    BY <1>1
  <2>2. \A j \in 1 + 1 .. N + 1 : g[j] \in Seq(Id)
    BY <1>8, <2>1
  <2>3. 1 \in 1 .. N
    BY <1>9, <1>1
  <2> QED
    BY <2>2, <2>3, <1>5
<1> QED
  BY <1>8, <1>9

\* What replace gives for a path is a path.
LEMMA ReplaceTyped ==
  ASSUME TreeAssumption,
         NEW path \in Seq(Id), Len(path) >= 1, NEW old \in Seq(Id), Len(old) >= 1,
         NEW new \in Seq(Id), Len(new) >= 1
  PROVE  Replace(path, old, new) \in Seq(Id) /\ Len(Replace(path, old, new)) >= 1
<1>1. Len(path) \in Nat /\ Len(old) \in Nat /\ Len(new) \in Nat
  BY LenProperties
<1>2. CASE Occurrences(path, old) = {1}
  <2> DEFINE t == SubSeq(path, Len(old) + 1, Len(path))
  <2>1. \A i \in Len(old) + 1 .. Len(path) : path[i] \in Id
    BY <1>1, ElementOfSeq
  <2>2. t \in Seq(Id)
    BY <2>1, <1>1, SubSeqProperties
  <2>3. new \o t \in Seq(Id) /\ Len(new \o t) = Len(new) + Len(t) /\ Len(t) \in Nat
    BY <2>2, ConcatProperties, LenProperties
  <2>4. Replace(path, old, new) = new \o t
    BY <1>2 DEF Replace
  <2> HIDE DEF t
  <2> QED
    BY <2>3, <2>4, <1>1
<1>3. CASE Occurrences(path, old) # {1}
  <2>1. PICK g : Down(path, old, new, Len(path), g) /\ ReplaceAll(path, old, new) = g[1]
    BY ReplaceAllIsDown
  <2>2. /\ \A k \in 0 .. Len(path) : g[Len(path) + 1 - k] \in Seq(Id)
        /\ Len(g[1]) >= 1
    BY <2>1, DownTyped
  <2>3. Len(path) \in 0 .. Len(path) /\ Len(path) + 1 - Len(path) = 1
    BY <1>1
  <2>4. g[1] \in Seq(Id)
    BY <2>2, <2>3
  <2> QED
    BY <2>1, <2>2, <2>4, <1>3 DEF Replace
<1> QED
  BY <1>2, <1>3

\* The rows of a table, each with a path that begins at the root's place.
Filled(t) == \A m \in DOMAIN t : t[m] \in Row /\ Len(t[m].path) >= 1

\* What save works with at admin a: a path that is not empty where it rewrites one, and a
\* parent that its snapshot holds.
Prepared(a) ==
  /\ seen[a] # None => Filled(seen[a])
  /\ req[a].node # None => Len(req[a].old) >= 1
  /\ pc[a] = "save" /\ req[a].parent # Root =>
       /\ req[a].parent \in DOMAIN seen[a]
       /\ seen[a][req[a].parent] \in Row

TypeInv ==
  /\ TypeOK
  /\ seen = [a \in Admin |-> seen[a]]
  /\ Filled(row)
  /\ \A a \in Admin : Prepared(a)

LEMMA NewRowFilled ==
  ASSUME TreeAssumption, TypeInv, NEW a \in Admin, pc[a] = "save"
  PROVE  NewRow(a) \in Row /\ Len(NewRow(a).path) >= 1
<1> DEFINE p == req[a].parent
<1>1. p \in Id
  BY DEF TypeInv, TypeOK
<1>2. CASE p = Root
  <2>1. NewRow(a) = [parent |-> p, path |-> <<Root>>]
    BY <1>2 DEF NewRow
  <2>2. <<Root>> \in Seq(Id) /\ Len(<<Root>>) = 1
    BY DEF Id
  <2> QED
    BY <2>1, <2>2, <1>1 DEF Row
<1>3. CASE p # Root
  <2> DEFINE q == seen[a][p].path
  <2>1. NewRow(a) = [parent |-> p, path |-> Append(q, p)]
    BY <1>3 DEF NewRow
  <2>2. q \in Seq(Id)
    BY <1>3 DEF TypeInv, Prepared, Row
  <2>3. Append(q, p) \in Seq(Id) /\ Len(Append(q, p)) = Len(q) + 1 /\ Len(q) \in Nat
    BY <1>1, <2>2, AppendProperties, LenProperties
  <2> HIDE DEF q, p
  <2> QED
    BY <2>1, <2>3, <1>1 DEF Row
<1> QED
  BY <1>2, <1>3

LEMMA MovedFilled ==
  ASSUME TreeAssumption, TypeInv, NEW a \in Admin, pc[a] = "save", req[a].node # None
  PROVE  Filled(Moved(a)) /\ DOMAIN Moved(a) = DOMAIN row
<1> DEFINE n == req[a].node
           new == NewRow(a)
           old == req[a].old
           table == IF n \in DOMAIN row THEN Placed(Table(a), n, new) ELSE Table(a)
<1>1. new \in Row /\ Len(new.path) >= 1 /\ new.path \in Seq(Id)
  BY NewRowFilled DEF Row
<1>2. old \in Seq(Id) /\ Len(old) >= 1
  BY DEF TypeInv, TypeOK, Prepared
<1>3. Filled(Table(a)) /\ Filled(row)
  BY DEF TypeInv, Prepared, Table
<1>4. Filled(table)
  BY <1>1, <1>3 DEF Filled, Placed
<1>5. /\ Listed(a) = [m \in Below(table, n) |-> table[m]]
      /\ Below(table, n) \subseteq DOMAIN table
  BY DEF Listed, Subtree, Below
<1> HIDE DEF table, new
<1>6. ASSUME NEW m \in DOMAIN Listed(a)
      PROVE  Rewritten(a, Listed(a)[m]) \in Row /\ Len(Rewritten(a, Listed(a)[m]).path) >= 1
  <2> DEFINE r == Listed(a)[m]
             s == Replace(r.path, old, new.path)
  <2>1. r \in Row /\ Len(r.path) >= 1 /\ r.path \in Seq(Id)
    BY <1>4, <1>5 DEF Filled, Row
  <2>2. s \in Seq(Id) /\ Len(s) >= 1
    BY <1>1, <1>2, <2>1, ReplaceTyped
  <2>3. Rewritten(a, r) = [r EXCEPT !.path = s]
    BY DEF Rewritten, new
  <2> HIDE DEF r, s
  <2>4. [r EXCEPT !.path = s] \in Row /\ [r EXCEPT !.path = s].path = s
    BY <2>1, <2>2 DEF Row
  <2>5. Rewritten(a, r) \in Row /\ Len(Rewritten(a, r).path) >= 1
    BY <2>2, <2>3, <2>4
  <2> QED
    BY <2>5 DEF r
<1>7. DOMAIN Moved(a) = DOMAIN row
  BY DEF Moved
<1>8. ASSUME NEW m \in DOMAIN row PROVE Moved(a)[m] \in Row /\ Len(Moved(a)[m].path) >= 1
  <2>1. Moved(a)[m] = IF m \in DOMAIN Listed(a) THEN Rewritten(a, Listed(a)[m])
                      ELSE IF m = n THEN new ELSE row[m]
    BY DEF Moved, new
  <2>2. row[m] \in Row /\ Len(row[m].path) >= 1
    BY <1>3 DEF Filled
  <2> QED
    BY <2>1, <2>2, <1>1, <1>6
<1> QED
  BY <1>7, <1>8 DEF Filled

\* TypeInv is inductive.
LEMMA TypeInvNext ==
  ASSUME TreeAssumption, TypeInv, [Next]_vars
  PROVE  TypeInv'
<1> DEFINE Typed == /\ drawn \subseteq Node
                    /\ pc \in [Admin -> {"idle", "parent", "save"}]
                    /\ req \in [Admin -> [node : Node \cup {None}, parent : Id, old : Seq(Id)]]
                    /\ seen = [a \in Admin |-> seen[a]]
                    /\ cause \subseteq {"stale", "below", "occurs"}
<1>1. Typed /\ DOMAIN row \subseteq drawn /\ Filled(row) /\ \A a \in Admin : Prepared(a)
  BY DEF TypeInv, TypeOK
<1>2. ASSUME Typed', (DOMAIN row \subseteq drawn)', Filled(row'), \A a \in Admin : Prepared(a)'
      PROVE  TypeInv'
  BY <1>2 DEF TypeInv, TypeOK, Filled, Prepared
<1>3. ASSUME NEW a \in Admin, NEW r \in [node : Node \cup {None}, parent : Id, old : Seq(Id)],
             r.node # None => Len(r.old) >= 1, Begin(a, r)
      PROVE  TypeInv'
  <2>1. Typed' /\ row' = row /\ drawn' = drawn /\ seen' = seen
    BY <1>1, <1>3 DEF Begin
  <2>2. ASSUME NEW b \in Admin PROVE Prepared(b)'
    <3>1. CASE b # a
      <4>1. req'[b] = req[b] /\ pc'[b] = pc[b] /\ seen'[b] = seen[b] /\ Prepared(b)
        BY <1>1, <1>3, <3>1 DEF Begin
      <4> QED
        BY <4>1 DEF Prepared
    <3>2. CASE b = a
      <4>1. req'[a] = r /\ seen'[a] = seen[a] /\ Prepared(a)
            /\ (r.parent # Root => pc'[a] # "save")
        BY <1>1, <1>3 DEF Begin
      <4> QED
        BY <4>1, <3>2, <1>3 DEF Prepared
    <3> QED
      BY <3>1, <3>2
  <2> HIDE DEF Typed
  <2> QED
    BY <1>1, <1>2, <2>1, <2>2
<1>4. ASSUME NEW a \in Admin, NEW p \in drawn \cup {Root}, Add(a, p) PROVE TypeInv'
  <2> DEFINE r == [node |-> None, parent |-> p, old |-> <<>>]
  <2>1. p \in Id
    BY <1>1 DEF Id
  <2>2. r \in [node : Node \cup {None}, parent : Id, old : Seq(Id)] /\ r.node = None
    BY <2>1, EmptySeq
  <2>3. Begin(a, r)
    BY <1>4 DEF Add
  <2> HIDE DEF r
  <2> QED
    BY <1>3, <2>2, <2>3
<1>5. ASSUME NEW a \in Admin, NEW p \in drawn \cup {Root}, NEW n \in DOMAIN row, Edit(a, n, p)
      PROVE  TypeInv'
  <2> DEFINE r == [node |-> n, parent |-> p, old |-> row[n].path]
  <2>1. p \in Id /\ n \in Node
    BY <1>1 DEF Id
  <2>2. row[n].path \in Seq(Id) /\ Len(row[n].path) >= 1
    BY <1>1 DEF Filled, Row
  <2>3. r \in [node : Node \cup {None}, parent : Id, old : Seq(Id)] /\ Len(r.old) >= 1
    BY <2>1, <2>2
  <2>4. Begin(a, r)
    BY <1>5 DEF Edit
  <2> HIDE DEF r
  <2> QED
    BY <1>3, <2>3, <2>4
<1>6. ASSUME NEW a \in Admin, ReadParent(a) PROVE TypeInv'
  <2> DEFINE p == IF req[a].parent \in DOMAIN row THEN req[a].parent ELSE Root
  <2>1. row' = row /\ drawn' = drawn /\ cause' = cause
    BY <1>6 DEF ReadParent
  <2>2. p \in Id /\ (p # Root => p \in DOMAIN row)
    BY <1>1 DEF Id
  <2>3. req' = [req EXCEPT ![a].parent = p]
    BY <1>6 DEF ReadParent
  <2> HIDE DEF p
  <2>4. Typed'
    <3>1. req' \in [Admin -> [node : Node \cup {None}, parent : Id, old : Seq(Id)]]
      <4>1. [req[a] EXCEPT !.parent = p]
              \in [node : Node \cup {None}, parent : Id, old : Seq(Id)]
        BY <1>1, <2>2
      <4>2. req' = [req EXCEPT ![a] = [req[a] EXCEPT !.parent = p]]
        BY <2>3
      <4> QED
        BY <4>1, <4>2, <1>1
    <3>2. /\ pc' \in [Admin -> {"idle", "parent", "save"}]
          /\ seen' = [b \in Admin |-> seen'[b]]
      BY <1>1, <1>6 DEF ReadParent
    <3> QED
      BY <3>1, <3>2, <1>1, <2>1
  <2>5. ASSUME NEW b \in Admin PROVE Prepared(b)'
    <3>1. CASE b # a
      <4>1. req'[b] = req[b] /\ pc'[b] = pc[b] /\ seen'[b] = seen[b] /\ Prepared(b)
        BY <1>1, <1>6, <2>3, <3>1 DEF ReadParent
      <4> QED
        BY <4>1 DEF Prepared
    <3>2. CASE b = a
      <4>1. seen'[a] = row /\ Prepared(a)
        BY <1>1, <1>6 DEF ReadParent
      <4>2. req'[a].parent = p /\ req'[a].node = req[a].node /\ req'[a].old = req[a].old
        BY <1>1, <2>3
      <4>3. p # Root => p \in DOMAIN row /\ row[p] \in Row
        BY <1>1, <2>2 DEF Filled
      <4> QED
        BY <4>1, <4>2, <4>3, <3>2, <1>1 DEF Prepared
    <3> QED
      BY <3>1, <3>2
  <2> HIDE DEF Typed
  <2> QED
    BY <1>1, <1>2, <2>1, <2>4, <2>5
<1>7. ASSUME NEW a \in Admin, End(a)
      PROVE  /\ pc' \in [Admin -> {"idle", "parent", "save"}]
             /\ req' \in [Admin -> [node : Node \cup {None}, parent : Id, old : Seq(Id)]]
             /\ seen' = [b \in Admin |-> seen'[b]]
             /\ \A b \in Admin : Prepared(b)'
  <2>1. NoRequest \in [node : Node \cup {None}, parent : Id, old : Seq(Id)]
        /\ NoRequest.node = None
    BY EmptySeq DEF NoRequest, Id
  <2>2. ASSUME NEW b \in Admin PROVE Prepared(b)'
    <3>1. CASE b # a
      <4>1. req'[b] = req[b] /\ pc'[b] = pc[b] /\ seen'[b] = seen[b] /\ Prepared(b)
        BY <1>1, <1>7, <3>1 DEF End
      <4> QED
        BY <4>1 DEF Prepared
    <3>2. CASE b = a
      <4>1. seen'[a] = None /\ pc'[a] = "idle" /\ req'[a] = NoRequest
        BY <1>1, <1>7 DEF End
      <4> QED
        BY <4>1, <2>1, <3>2 DEF Prepared
    <3> QED
      BY <3>1, <3>2
  <2> QED
    BY <1>1, <1>7, <2>1, <2>2 DEF End
<1>8. ASSUME NEW a \in Admin, End(a), drawn' \subseteq Node, DOMAIN row' \subseteq drawn',
             Filled(row'), cause' \subseteq {"stale", "below", "occurs"}
      PROVE  TypeInv'
  BY <1>2, <1>7, <1>8
<1>9. ASSUME NEW a \in Admin, Insert(a) PROVE TypeInv'
  <2> DEFINE r == NewRow(a)
  <2>1. r \in Row /\ Len(r.path) >= 1
    BY <1>9, NewRowFilled DEF Insert
  <2>2. PICK n \in Node \ drawn :
          /\ row' = [m \in DOMAIN row \cup {n} |-> IF m = n THEN r ELSE row[m]]
          /\ drawn' = drawn \cup {n}
    BY <1>9 DEF Insert
  <2> HIDE DEF r
  <2>3. Filled(row')
    BY <2>1, <2>2, <1>1 DEF Filled
  <2>4. drawn' \subseteq Node /\ DOMAIN row' \subseteq drawn'
    BY <2>2, <1>1
  <2>5. End(a) /\ cause' \subseteq {"stale", "below", "occurs"}
    BY <1>9, <1>1 DEF Insert
  <2> QED
    BY <1>8, <2>3, <2>4, <2>5
<1>10. ASSUME NEW a \in Admin, Update(a) PROVE TypeInv'
  <2>1. pc[a] = "save" /\ req[a].node # None /\ row' = Moved(a) /\ End(a) /\ drawn' = drawn
        /\ cause' = cause \cup CausesOf(a)
    BY <1>10 DEF Update
  <2>2. Filled(row') /\ DOMAIN row' = DOMAIN row
    BY <2>1, MovedFilled
  <2>3. cause' \subseteq {"stale", "below", "occurs"}
    BY <2>1, <1>1 DEF CausesOf
  <2> QED
    BY <1>1, <1>8, <2>1, <2>2, <2>3
<1>11. ASSUME NEW a \in Admin, Fail(a) PROVE TypeInv'
  <2>1. End(a) /\ row' = row /\ drawn' = drawn /\ cause' = cause
    BY <1>11 DEF Fail
  <2> QED
    BY <1>1, <1>8, <2>1
<1>12. ASSUME NEW n \in DOMAIN row, Delete(n) PROVE TypeInv'
  <2>1. /\ row' = [m \in DOMAIN row \ ({n} \cup Below(row, n)) |-> row[m]]
        /\ UNCHANGED <<drawn, pc, req, seen, cause>>
    BY <1>12 DEF Delete
  <2>2. Filled(row') /\ DOMAIN row' \subseteq DOMAIN row
    BY <2>1, <1>1 DEF Filled
  <2>3. \A a \in Admin : Prepared(a)'
    BY <2>1, <1>1 DEF Prepared
  <2>4. Typed'
    BY <2>1, <1>1
  <2> HIDE DEF Typed
  <2>5. (DOMAIN row \subseteq drawn)'
    BY <2>1, <2>2, <1>1
  <2> QED
    BY <1>2, <2>2, <2>3, <2>4, <2>5
<1>13. CASE UNCHANGED vars
  <2>1. /\ Typed' /\ (DOMAIN row \subseteq drawn)' /\ Filled(row')
        /\ \A a \in Admin : Prepared(a)'
    BY <1>1, <1>13 DEF vars, Prepared
  <2> HIDE DEF Typed
  <2> QED
    BY <1>2, <2>1
<1> QED
  BY <1>4, <1>5, <1>6, <1>9, <1>10, <1>11, <1>12, <1>13 DEF Next

\* However requests interleave and whatever replace rewrites, stored rows, requests and
\* snapshots are well typed, and the parent that save appends is one that it has read.
THEOREM TypeInductive == Spec => []TypeInv
<1>1. Init => TypeInv
  <2>1. NoRequest \in [node : Node \cup {None}, parent : Id, old : Seq(Id)]
        /\ NoRequest.node = None /\ NoRequest.parent = Root
    BY EmptySeq DEF NoRequest, Id
  <2> QED
    BY <2>1 DEF Init, TypeInv, TypeOK, Filled, Prepared
<1>2. TypeInv /\ [Next]_vars => TypeInv'
  BY TreeAssumption, TypeInvNext
<1> QED
  BY <1>1, <1>2, PTL DEF Spec

\* Every row that is stored has a parent and a path of ids, and was given its id once.
THEOREM TypeCorrect == Spec => []TypeOK
<1>1. TypeInv => TypeOK
  BY DEF TypeInv
<1> QED
  BY <1>1, TypeInductive, PTL

-----------------------------------------------------------------------------
(***************************************************************************)
(* What the paths are for: the query and the delete find a node's          *)
(* descendants by LIKE '%,id,%'.  Descends says what a descendant is by    *)
(* the parents alone.                                                      *)
(***************************************************************************)

\* A chain of stored parents leads from m up to n.
Descends(m, n) ==
  \E c \in Seq(DOMAIN row) : /\ Len(c) >= 2
                             /\ c[1] = m
                             /\ c[Len(c)] = n
                             /\ \A i \in 1 .. Len(c) - 1 : row[c[i]].parent = c[i + 1]

\* The parents along a path.
LEMMA PathParents ==
  ASSUME Closed(row), NEW m \in DOMAIN row
  PROVE  LET s == row[m].path
         IN  /\ s \in Seq(Id) /\ Len(s) \in Nat /\ Len(s) >= 1 /\ s[1] = Root
             /\ row[m].parent = s[Len(s)]
             /\ \A j \in 2 .. Len(s) : s[j] \in DOMAIN row /\ row[s[j]].parent = s[j - 1]
<1> DEFINE s == row[m].path
<1>1. /\ s \in Seq(Id) /\ Len(s) \in Nat /\ Len(s) >= 1 /\ s[1] = Root
      /\ row[m].parent = s[Len(s)]
  BY LenProperties DEF Closed, Leads
<1>2. ASSUME NEW j \in 2 .. Len(s)
      PROVE  s[j] \in DOMAIN row /\ row[s[j]].parent = s[j - 1]
  <2> DEFINE q == row[s[j]].path
  <2>1. s[j] \in DOMAIN row /\ Len(q) = j - 1 /\ \A i \in 1 .. j - 1 : q[i] = s[i]
    BY DEF Closed, Leads
  <2>2. row[s[j]].parent = q[Len(q)]
    BY <2>1 DEF Closed
  <2>3. j - 1 \in 1 .. j - 1
    BY <1>1
  <2> HIDE DEF q
  <2> QED
    BY <2>1, <2>2, <2>3
<1> QED
  BY <1>1, <1>2

\* Whoever is named on the path of m is reached from m.
LEMMA NamedAreAbove ==
  ASSUME Closed(row), NEW m \in DOMAIN row, NEW n, Names(row[m].path, n)
  PROVE  Descends(m, n)
<1> DEFINE s == row[m].path
           L == Len(s)
<1>1. /\ s \in Seq(Id) /\ L \in Nat /\ L >= 1 /\ row[m].parent = s[L]
      /\ \A j \in 2 .. L : s[j] \in DOMAIN row /\ row[s[j]].parent = s[j - 1]
  BY PathParents
<1>2. PICK k \in 2 .. L : s[k] = n
  BY <1>1, NamesIsLater
<1> DEFINE M == L - k + 2
           c == [i \in 1 .. M |-> IF i = 1 THEN m ELSE s[L + 2 - i]]
<1>3. M \in Nat /\ M >= 2
  BY <1>1
<1>4. \A i \in 2 .. M : L + 2 - i \in 2 .. L
  BY <1>1
<1>5. c \in Seq(DOMAIN row) /\ Len(c) = M
  <2>1. \A i \in 1 .. M : c[i] \in DOMAIN row
    <3>1. ASSUME NEW i \in 1 .. M PROVE c[i] \in DOMAIN row
      <4>1. i = 1 \/ i \in 2 .. M
        BY <1>3
      <4> QED
        BY <4>1, <1>1, <1>4
    <3> QED
      BY <3>1
  <2>2. c \in [1 .. M -> DOMAIN row]
    BY <2>1
  <2> HIDE DEF c, M, s
  <2> QED
    BY <2>2, <1>3
<1>6. c[1] = m /\ c[M] = n
  <2>1. 1 \in 1 .. M /\ M \in 1 .. M /\ M # 1 /\ L + 2 - M = k
    BY <1>1, <1>3
  <2> QED
    BY <2>1, <1>2
<1>7. ASSUME NEW i \in 1 .. M - 1 PROVE row[c[i]].parent = c[i + 1]
  <2>1. i + 1 \in 1 .. M /\ i + 1 # 1 /\ i \in 1 .. M /\ L + 2 - (i + 1) = (L + 2 - i) - 1
    BY <1>1, <1>3
  <2>2. c[i + 1] = s[L + 2 - (i + 1)]
    BY <2>1
  <2>3. CASE i = 1
    <3>1. L + 2 - (i + 1) = L
      BY <2>3, <1>1
    <3> QED
      BY <2>1, <2>2, <2>3, <3>1, <1>1
  <2>4. CASE i # 1
    <3>1. i \in 2 .. M
      BY <2>1, <2>4, <1>3
    <3>2. c[i] = s[L + 2 - i] /\ L + 2 - i \in 2 .. L
      BY <2>1, <2>4, <3>1, <1>4
    <3>3. row[s[L + 2 - i]].parent = s[(L + 2 - i) - 1]
      BY <3>2, <1>1
    <3> QED
      BY <3>2, <3>3, <2>1, <2>2
  <2> QED
    BY <2>3, <2>4
<1> HIDE DEF c, M
<1> QED
  BY <1>3, <1>5, <1>6, <1>7 DEF Descends

\* Whoever is reached from m is named on its path.
LEMMA AboveAreNamed ==
  ASSUME TreeAssumption, DrawnInv, Closed(row), NEW m \in DOMAIN row, NEW n, Descends(m, n)
  PROVE  Names(row[m].path, n)
<1> DEFINE s == row[m].path
           L == Len(s)
<1>1. /\ s \in Seq(Id) /\ L \in Nat /\ L >= 1 /\ s[1] = Root /\ row[m].parent = s[L]
      /\ \A j \in 2 .. L : s[j] \in DOMAIN row /\ row[s[j]].parent = s[j - 1]
  BY PathParents
<1>2. Root \notin DOMAIN row
  BY DEF DrawnInv, TreeAssumption
<1>3. PICK c \in Seq(DOMAIN row) :
        /\ Len(c) >= 2 /\ c[1] = m /\ c[Len(c)] = n
        /\ \A i \in 1 .. Len(c) - 1 : row[c[i]].parent = c[i + 1]
  BY DEF Descends
<1> DEFINE M == Len(c)
           S == {i \in 0 .. M - 2 : L - i \in 2 .. L /\ s[L - i] = c[i + 2]}
<1>4. M \in Nat /\ \A i \in 1 .. M : c[i] \in DOMAIN row
  BY LenProperties, ElementOfSeq
<1>5. 0 \in S
  <2>1. 1 \in 1 .. M - 1 /\ 2 \in 1 .. M /\ 0 \in 0 .. M - 2
    BY <1>3, <1>4
  <2>2. c[2] = s[L] /\ c[2] \in DOMAIN row
    BY <2>1, <1>1, <1>3, <1>4
  <2>3. L # 1
    BY <2>2, <1>1, <1>2
  <2>4. L - 0 = L /\ L \in 2 .. L /\ 0 + 2 = 2
    <3>1. L \in Nat /\ L >= 1
      BY <1>1
    <3> HIDE DEF L
    <3> QED
      BY <2>3, <3>1
  <2> QED
    BY <2>1, <2>2, <2>4
<1>6. ASSUME NEW i \in 0 .. M - 2 - 1, i \in S PROVE i + 1 \in S
  <2>1. L - i \in 2 .. L /\ s[L - i] = c[i + 2]
    BY <1>6
  <2>2. /\ i + 2 \in 1 .. M - 1 /\ (i + 2) + 1 = (i + 1) + 2 /\ (i + 1) + 2 \in 1 .. M
        /\ i + 1 \in 0 .. M - 2 /\ (L - i) - 1 = L - (i + 1)
    BY <1>1, <1>3, <1>4
  <2>3. c[(i + 1) + 2] = row[c[i + 2]].parent
    BY <2>2, <1>3
  <2>4. row[s[L - i]].parent = s[(L - i) - 1]
    BY <2>1, <1>1
  <2>5. s[L - (i + 1)] = c[(i + 1) + 2] /\ c[(i + 1) + 2] \in DOMAIN row
    BY <2>1, <2>2, <2>3, <2>4, <1>4
  <2>6. L - (i + 1) # 1
    BY <2>5, <1>1, <1>2
  <2>7. L - (i + 1) \in 2 .. L
    BY <2>1, <2>6, <1>1
  <2> QED
    BY <2>2, <2>5, <2>7
<1>7. \A i \in 0 .. M - 2 : i \in S
  <2>1. M - 2 \in Nat
    BY <1>3, <1>4
  <2> HIDE DEF S, M
  <2> QED
    BY <2>1, <1>5, <1>6, InductionTo
<1>8. M - 2 \in 0 .. M - 2 /\ (M - 2) + 2 = M
  BY <1>3, <1>4
<1>9. L - (M - 2) \in 2 .. L /\ s[L - (M - 2)] = n
  BY <1>7, <1>8, <1>3
<1> QED
  BY <1>9, <1>1, NamesIsLater

LEMMA BelowAreDescendants ==
  ASSUME TreeAssumption, Inv, cause = {}, NEW n
  PROVE  Below(row, n) = {m \in DOMAIN row : Descends(m, n)}
BY NamedAreAbove, AboveAreNamed DEF Inv, Below

\* findByParentIdsLike finds the descendants of a node and nobody else, however deep
\* they are, unless one of the three causes has come about.
THEOREM QueryFindsDescendants ==
  Spec => [](cause = {} => \A n \in DOMAIN row :
                             Below(row, n) = {m \in DOMAIN row : Descends(m, n)})
<1>1. Init => Inv
  BY DEF Init, Inv, DrawnInv, Closed
<1>2. Inv /\ [Next]_vars => Inv'
  BY TreeAssumption, InvNext
<1>3. Inv => (cause = {} => \A n \in DOMAIN row :
                              Below(row, n) = {m \in DOMAIN row : Descends(m, n)})
  BY TreeAssumption, BelowAreDescendants
<1> QED
  BY <1>1, <1>2, <1>3, PTL DEF Spec

\* Under the same condition, delete takes a node and its descendants, and no other row.
THEOREM DeleteTakesSubtree ==
  Spec => [][\A n \in DOMAIN row :
               cause = {} /\ Delete(n) =>
                 DOMAIN row' = {m \in DOMAIN row : m # n /\ ~ Descends(m, n)}]_vars
<1> DEFINE A == \A n \in DOMAIN row :
                  cause = {} /\ Delete(n) =>
                    DOMAIN row' = {m \in DOMAIN row : m # n /\ ~ Descends(m, n)}
<1>1. Init => Inv
  BY DEF Init, Inv, DrawnInv, Closed
<1>2. Inv /\ [Next]_vars => Inv'
  BY TreeAssumption, InvNext
<1>3. Inv => A
  <2>1. ASSUME Inv, NEW n \in DOMAIN row, cause = {}, Delete(n)
        PROVE  DOMAIN row' = {m \in DOMAIN row : m # n /\ ~ Descends(m, n)}
    <3>1. DOMAIN row' = DOMAIN row \ ({n} \cup Below(row, n))
      BY <2>1 DEF Delete
    <3>2. Below(row, n) = {m \in DOMAIN row : Descends(m, n)}
      BY <2>1, TreeAssumption, BelowAreDescendants
    <3> QED
      BY <3>1, <3>2
  <2> QED
    BY <2>1
<1> HIDE DEF A
<1>4. Inv /\ [Next]_vars => [A]_vars
  BY <1>3
<1> QED
  BY <1>1, <1>2, <1>4, PTL DEF Spec, A

\* What the comment of TreeEntity promises does hold until one of the causes comes about;
\* of the three, the promise itself excludes all but "occurs".
THEOREM NamesAncestorsUntilReplaced == Spec => [](cause = {} => ParentIdsNameAncestors)
<1>1. Init => Inv
  BY DEF Init, Inv, DrawnInv, Closed
<1>2. Inv /\ [Next]_vars => Inv'
  BY TreeAssumption, InvNext
<1>3. Inv => (cause = {} => ParentIdsNameAncestors)
  <2>1. SUFFICES ASSUME Inv, cause = {}, NEW n \in DOMAIN row
                 PROVE  LET p == row[n].parent
                        IN  IF p = Root THEN row[n].path = <<Root>>
                            ELSE /\ p \in DOMAIN row
                                 /\ Ids(row[n].path) = Ids(row[p].path) \cup {p}
    BY DEF ParentIdsNameAncestors
  <2>2. PathIsRight(n) /\ Root \notin DOMAIN row
    BY <2>1, TreeAssumption, ClosedIsRight DEF Inv, DrawnInv, TreeAssumption
  <2> DEFINE p == row[n].parent
             q == row[p].path
  <2>3. CASE p = Root
    BY <2>2, <2>3 DEF PathIsRight
  <2>4. CASE p # Root
    <3>1. p \in DOMAIN row /\ row[n].path = Append(q, p)
      BY <2>2, <2>4 DEF PathIsRight
    <3>2. q \in Seq(Id) /\ p \in Id
      BY <2>1, <3>1 DEF Inv, DrawnInv, Closed, Leads, Id
    <3>3. Len(q) \in Nat /\ DOMAIN q = 1 .. Len(q)
      BY <3>2, LenProperties
    <3>4. /\ Append(q, p) \in Seq(Id) /\ Len(Append(q, p)) = Len(q) + 1
          /\ \A i \in 1 .. Len(q) : Append(q, p)[i] = q[i]
          /\ Append(q, p)[Len(q) + 1] = p
      BY <3>2, AppendProperties
    <3>5. DOMAIN Append(q, p) = 1 .. Len(q) + 1
      BY <3>4, LenProperties
    <3>6. 1 .. Len(q) + 1 = 1 .. Len(q) \cup {Len(q) + 1}
      BY <3>3
    <3> HIDE DEF q
    <3>7. Ids(Append(q, p)) = Ids(q) \cup {p}
      BY <3>3, <3>4, <3>5, <3>6 DEF Ids
    <3> QED
      BY <3>1, <3>7, <2>4 DEF q
  <2> QED
    BY <2>3, <2>4
<1> QED
  BY <1>1, <1>2, <1>3, PTL DEF Spec

-----------------------------------------------------------------------------
(***************************************************************************)
(* The table without its paths is a ParentTree.  Its descendants are       *)
(* defined there without paths or chains, by the sets that a node's        *)
(* children lead into; delete and the guard of a move rest on the paths.   *)
(***************************************************************************)

\* The two variables of ParentTree.
parents  == [n \in DOMAIN row |-> row[n].parent]
isBroken == cause # {}

\* In a closed table, the rows whose paths name n are n's descendants.
LEMMA BelowIsDescendants ==
  ASSUME TreeAssumption, DrawnInv, Closed(row), NEW n \in Node
  PROVE  Below(row, n) = Tree!Descendants(n)
<1>1. Root \notin DOMAIN row /\ n # Root
  BY DEF DrawnInv, TreeAssumption
<1>2. DOMAIN parents = DOMAIN row /\ \A m \in DOMAIN row : parents[m] = row[m].parent
  BY DEF parents
<1>3. Tree!Descendants(n) =
        {m \in DOMAIN row :
           \A S \in SUBSET DOMAIN row :
             (\A x \in DOMAIN row : row[x].parent = n \/ row[x].parent \in S => x \in S)
               => m \in S}
  BY <1>2 DEF Tree!Descendants, Tree!Nodes, parents
\* The rows below n have its children, and with a row its children.
<1>4. ASSUME NEW x \in DOMAIN row,
             row[x].parent = n \/ row[x].parent \in Below(row, n)
      PROVE  x \in Below(row, n)
  <2> DEFINE s == row[x].path
             p == row[x].parent
  <2>1. s \in Seq(Id) /\ Len(s) \in Nat /\ Len(s) >= 1 /\ s[1] = Root /\ p = s[Len(s)]
    BY PathParents
  <2>2. p # Root
    BY <1>1, <1>4 DEF Below
  <2>3. Len(s) \in 2 .. Len(s)
    BY <2>1, <2>2
  <2>4. CASE p = n
    BY <2>1, <2>3, <2>4, NamesIsLater DEF Below
  <2>5. CASE p \in Below(row, n)
    <3> DEFINE q == row[p].path
    <3>1. p \in DOMAIN row /\ Names(q, n)
      BY <2>5 DEF Below
    <3>2. q \in Seq(Id) /\ Len(q) \in Nat /\ Len(q) >= 1
      BY <3>1, PathParents
    <3>3. PICK k \in 2 .. Len(q) : q[k] = n
      BY <3>1, <3>2, NamesIsLater
    <3>4. Len(q) = Len(s) - 1 /\ \A i \in 1 .. Len(s) - 1 : q[i] = s[i]
      BY <2>1, <2>3 DEF Closed, Leads
    <3>5. k \in 2 .. Len(s) /\ s[k] = n
      BY <3>3, <3>4, <2>1
    <3> QED
      BY <3>5, <2>1, NamesIsLater DEF Below
  <2> QED
    BY <1>4, <2>4, <2>5
\* A set that has them all has each row on the way from a row below n up to n.
<1>5. ASSUME NEW m \in Below(row, n), NEW S \in SUBSET DOMAIN row,
             \A x \in DOMAIN row : row[x].parent = n \/ row[x].parent \in S => x \in S
      PROVE  m \in S
  <2> DEFINE s == row[m].path
             L == Len(s)
  <2>1. m \in DOMAIN row /\ Names(s, n)
    BY DEF Below
  <2>2. /\ s \in Seq(Id) /\ L \in Nat /\ L >= 1 /\ row[m].parent = s[L]
        /\ \A j \in 2 .. L : s[j] \in DOMAIN row /\ row[s[j]].parent = s[j - 1]
    BY <2>1, PathParents
  <2>3. PICK k \in 2 .. L : s[k] = n
    BY <2>1, <2>2, NamesIsLater
  <2>4. SUFFICES ASSUME m \notin S PROVE FALSE
    OBVIOUS
  <2> DEFINE T == {i \in 0 .. L - k : s[L - i] # n /\ s[L - i] \notin S}
  <2> HIDE DEF L
  <2>5. 0 \in T
    <3>1. 0 \in 0 .. L - k /\ L - 0 = L
      BY <2>2
    <3> QED
      BY <3>1, <2>1, <2>2, <2>4, <1>5
  <2>6. ASSUME NEW i \in 0 .. L - k - 1, i \in T PROVE i + 1 \in T
    <3>1. i + 1 \in 0 .. L - k /\ L - i \in 2 .. L /\ (L - i) - 1 = L - (i + 1)
      BY <2>2
    <3>2. s[L - i] \in DOMAIN row /\ row[s[L - i]].parent = s[L - (i + 1)]
      BY <3>1, <2>2
    <3>3. s[L - i] \notin S
      BY <2>6
    <3> QED
      BY <3>1, <3>2, <3>3, <1>5
  <2>7. L - k \in Nat
    BY <2>2
  <2>8. L - k \in T
    <3> HIDE DEF T
    <3>1. \A i \in 0 .. L - k : i \in T
      BY <2>5, <2>6, <2>7, InductionTo
    <3> QED
      BY <3>1, <2>7
  <2>9. L - (L - k) = k
    BY <2>2
  <2> QED
    BY <2>3, <2>8, <2>9
<1>6. Below(row, n) \in SUBSET DOMAIN row
  BY DEF Below
<1> QED
  BY <1>3, <1>4, <1>5, <1>6

\* A move without a cause leads to a node that is there, or the root, and is neither the
\* one moved nor below it; no other row gets another parent.
LEMMA MovesOutside ==
  ASSUME TreeAssumption, DrawnInv, Closed(row), NEW a \in Admin, Update(a), cause' = {}
  PROVE  LET n == req[a].node
             p == req[a].parent
         IN  /\ p \in (DOMAIN row \cup {Root}) \ ({n} \cup Below(row, n))
             /\ DOMAIN row' = DOMAIN row
             /\ \A m \in DOMAIN row : row'[m].parent = IF m = n THEN p ELSE row[m].parent
<1> DEFINE n == req[a].node
           p == req[a].parent
           r == NewRow(a)
<1>1. ~ Stale(a) /\ n \notin Ids(r.path) /\ r.parent = p /\ row' = Moved(a)
  BY DEF Update, CausesOf, NewRow
<1>2. /\ Leads(row, r.path) /\ p = r.path[Len(r.path)]
      /\ DOMAIN Listed(a) = Below(row, n)
      /\ \A m \in Below(row, n) : Listed(a)[m] = row[m]
      /\ \A m \in Below(row, n) : m # n
  BY <1>1, MoveReads
<1>3. /\ r.path \in Seq(Id) /\ Len(r.path) \in Nat /\ Len(r.path) >= 1
      /\ DOMAIN r.path = 1 .. Len(r.path)
  BY <1>2, LenProperties DEF Leads
<1>4. Root \notin DOMAIN row
  BY DEF DrawnInv, TreeAssumption
<1>5. p = Root \/ Len(r.path) \in 2 .. Len(r.path)
  BY <1>2, <1>3 DEF Leads
<1>6. /\ p \in DOMAIN row \cup {Root} /\ p # n
      /\ p # Root => /\ Len(row[p].path) = Len(r.path) - 1
                     /\ \A i \in 1 .. Len(r.path) - 1 : row[p].path[i] = r.path[i]
  <2> DEFINE l == Len(r.path)
  <2>1. l \in DOMAIN r.path /\ p = r.path[l]
    BY <1>2, <1>3
  <2>2. p # n
    BY <2>1, <1>1 DEF Ids
  <2>3. CASE l \in 2 .. l
    <3>1. /\ r.path[l] \in DOMAIN row
          /\ Len(row[r.path[l]].path) = l - 1
          /\ \A i \in 1 .. l - 1 : row[r.path[l]].path[i] = r.path[i]
      BY <2>3, <1>2 DEF Leads
    <3> HIDE DEF r
    <3> QED
      BY <3>1, <2>1, <2>2
  <2> HIDE DEF r
  <2> QED
    BY <2>2, <2>3, <1>5
<1>7. p \notin Below(row, n)
  <2>1. SUFFICES ASSUME p \in Below(row, n) PROVE FALSE
    OBVIOUS
  <2> DEFINE q == row[p].path
  <2>2. p \in DOMAIN row /\ Names(q, n) /\ Len(r.path) \in 2 .. Len(r.path)
    BY <2>1, <1>4, <1>5 DEF Below
  <2>3. q \in Seq(Id) /\ Len(q) \in Nat /\ Len(q) >= 1
    BY <2>2, PathParents
  <2>4. PICK k \in 2 .. Len(q) : q[k] = n
    BY <2>2, <2>3, NamesIsLater
  <2>5. Len(q) = Len(r.path) - 1 /\ \A i \in 1 .. Len(r.path) - 1 : q[i] = r.path[i]
    BY <2>2, <1>4, <1>6
  <2>6. k \in 1 .. Len(r.path) /\ r.path[k] = n
    BY <2>4, <2>5, <1>3
  <2> QED
    BY <2>6, <1>1, <1>3 DEF Ids
<1>8. /\ DOMAIN row' = DOMAIN row
      /\ \A m \in DOMAIN row : row'[m] = IF m \in Below(row, n) THEN Rewritten(a, row[m])
                                         ELSE IF m = n THEN r ELSE row[m]
  BY <1>1, <1>2 DEF Moved
<1>9. \A m \in DOMAIN row : Rewritten(a, row[m]).parent = row[m].parent
  BY DEF Rewritten, Closed, Row
<1> HIDE DEF r
<1>10. \A m \in DOMAIN row : row'[m].parent = IF m = n THEN p ELSE row[m].parent
  BY <1>1, <1>2, <1>8, <1>9
<1> QED
  BY <1>6, <1>7, <1>8, <1>10

\* A step without a cause is one of the tree's or leaves the parents as they are.
LEMMA UpdateMoves ==
  ASSUME TreeAssumption, DrawnInv, Closed(row), NEW a \in Admin, Update(a), cause' = {}
  PROVE  parents' = parents \/ \E n \in Node : \E p \in Node \cup {Root} : Tree!Move(n, p)
<1> DEFINE n == req[a].node
           p == req[a].parent
<1>1. /\ p \in (DOMAIN row \cup {Root}) \ ({n} \cup Below(row, n))
      /\ DOMAIN row' = DOMAIN row
      /\ \A m \in DOMAIN row : row'[m].parent = IF m = n THEN p ELSE row[m].parent
  BY MovesOutside
<1>2. DOMAIN parents = DOMAIN row /\ \A m \in DOMAIN row : parents[m] = row[m].parent
  BY DEF parents
<1>3. parents' = [m \in DOMAIN row |-> IF m = n THEN p ELSE row[m].parent]
  BY <1>1 DEF parents
<1>4. CASE n \notin DOMAIN row
  <2>1. parents' = [m \in DOMAIN row |-> row[m].parent]
    BY <1>3, <1>4
  <2> QED
    BY <2>1 DEF parents
<1>5. CASE n \in DOMAIN row
  <2>1. n \in Node /\ p \in Node \cup {Root}
    BY <1>1, <1>5 DEF DrawnInv
  <2>2. p \in (DOMAIN row \cup {Root}) \ ({n} \cup Tree!Descendants(n))
    BY <1>1, <2>1, BelowIsDescendants
  <2>3. parents' = [parents EXCEPT ![n] = p]
    BY <1>2, <1>3, <1>5
  <2>4. Tree!Move(n, p)
    BY <1>5, <2>2, <2>3 DEF Tree!Move, Tree!Nodes, Tree!Places, parents
  <2> QED
    BY <2>1, <2>4 DEF Tree!Move
<1> QED
  BY <1>4, <1>5

LEMMA InsertPlaces ==
  ASSUME TreeAssumption, DrawnInv, NEW a \in Admin, Insert(a), cause' = {}
  PROVE  \E n \in Node : \E p \in Node \cup {Root} : Tree!Insert(n, p)
<1> DEFINE p == req[a].parent
<1>1. /\ p = Root \/ p \in DOMAIN row
      /\ NewRow(a).parent = p
  BY DEF Insert, ParentMoved, NewRow
<1>2. PICK n \in Node \ drawn :
        row' = [m \in DOMAIN row \cup {n} |-> IF m = n THEN NewRow(a) ELSE row[m]]
  BY DEF Insert
<1>3. n \notin DOMAIN row /\ p \in Node \cup {Root}
  BY <1>1, <1>2 DEF DrawnInv
<1>4. parents' = [m \in DOMAIN row \cup {n} |-> IF m = n THEN p ELSE row[m].parent]
  BY <1>1, <1>2 DEF parents
<1>5. DOMAIN parents = DOMAIN row /\ \A m \in DOMAIN row : parents[m] = row[m].parent
  BY DEF parents
<1>6. parents' = [m \in DOMAIN row \cup {n} |-> IF m = n THEN p ELSE parents[m]]
  BY <1>4, <1>5
<1>7. Tree!Insert(n, p)
  BY <1>1, <1>3, <1>6 DEF Tree!Insert, Tree!Nodes, Tree!Places, parents
<1> QED
  BY <1>3, <1>7 DEF Tree!Insert

LEMMA DeleteRemoves ==
  ASSUME TreeAssumption, DrawnInv, Closed(row), NEW n \in DOMAIN row, Delete(n)
  PROVE  Tree!Remove(n)
<1>1. n \in Node
  BY DEF DrawnInv
<1>2. row' = [m \in DOMAIN row \ ({n} \cup Tree!Descendants(n)) |-> row[m]]
  BY <1>1, BelowIsDescendants DEF Delete
<1>3. DOMAIN parents = DOMAIN row /\ \A m \in DOMAIN row : parents[m] = row[m].parent
  BY DEF parents
<1> DEFINE kept == DOMAIN row \ ({n} \cup Tree!Descendants(n))
<1> HIDE DEF kept
<1>4. row' = [m \in kept |-> row[m]] /\ kept \subseteq DOMAIN row
  BY <1>2 DEF kept
<1>5. parents' = [m \in kept |-> row[m].parent]
  BY <1>4 DEF parents
<1>6. parents' = [m \in kept |-> parents[m]]
  BY <1>3, <1>4, <1>5
<1> QED
  BY <1>6 DEF Tree!Remove, Tree!Nodes, parents, kept

LEMMA TreeStep ==
  ASSUME TreeAssumption, Inv, [Next]_vars
  PROVE  [Tree!Next]_<<parents, isBroken>>
<1>1. CASE cause' # {} /\ cause = {}
  BY <1>1 DEF Tree!Next, Tree!Break, isBroken
<1>2. CASE cause' # {} /\ cause # {}
  BY <1>2 DEF Tree!Next, Tree!Break, isBroken
<1>3. cause \subseteq cause'
  BY DEF Next, Add, Edit, Begin, ReadParent, Insert, Update, Fail, Delete, vars
<1>4. CASE cause' = {}
  <2>1. cause = {} /\ DrawnInv /\ Closed(row) /\ isBroken = FALSE /\ isBroken' = isBroken
    BY <1>3, <1>4 DEF Inv, isBroken
  <2>2. ASSUME \/ \E n \in Node : \E p \in Node \cup {Root} : Tree!Insert(n, p) \/ Tree!Move(n, p)
               \/ \E n \in DOMAIN row : Tree!Remove(n)
        PROVE  Tree!Next
    BY <2>1, <2>2 DEF Tree!Next, Tree!Nodes, isBroken
  <2>3. ASSUME row' = row PROVE UNCHANGED <<parents, isBroken>>
    BY <2>1, <2>3 DEF parents
  <2>4. ASSUME NEW a \in Admin, NEW p \in drawn \cup {Root}, Add(a, p)
        PROVE  UNCHANGED <<parents, isBroken>>
    BY <2>3, <2>4 DEF Add, Begin
  <2>5. ASSUME NEW a \in Admin, NEW p \in drawn \cup {Root}, NEW n \in DOMAIN row, Edit(a, n, p)
        PROVE  UNCHANGED <<parents, isBroken>>
    BY <2>3, <2>5 DEF Edit, Begin
  <2>6. ASSUME NEW a \in Admin, ReadParent(a) \/ Fail(a) PROVE UNCHANGED <<parents, isBroken>>
    BY <2>3, <2>6 DEF ReadParent, Fail
  <2>7. ASSUME NEW a \in Admin, Insert(a) PROVE Tree!Next
    BY <2>1, <2>2, <2>7, <1>4, InsertPlaces
  <2>8. ASSUME NEW a \in Admin, Update(a) PROVE [Tree!Next]_<<parents, isBroken>>
    <3>1. parents' = parents \/ \E n \in Node : \E p \in Node \cup {Root} : Tree!Move(n, p)
      BY <2>1, <2>8, <1>4, UpdateMoves
    <3> QED
      BY <3>1, <2>1, <2>2
  <2>9. ASSUME NEW n \in DOMAIN row, Delete(n) PROVE Tree!Next
    BY <2>1, <2>2, <2>9, DeleteRemoves
  <2>10. CASE UNCHANGED vars
    BY <2>3, <2>10 DEF vars
  <2> HIDE DEF parents, isBroken
  <2> QED
    BY <2>4, <2>5, <2>6, <2>7, <2>8, <2>9, <2>10 DEF Next
<1> QED
  BY <1>1, <1>2, <1>4

\* Until a cause comes about, the handlers do to the parents what ParentTree allows: an
\* insert and a move put a node below one that is there and not below itself, and a
\* delete by paths takes the node, its descendants by parent, and no other row.
THEOREM ImplementsTree == Spec => TreeSpec
<1>1. Init => Inv
  BY DEF Init, Inv, DrawnInv, Closed
<1>2. Inv /\ [Next]_vars => Inv'
  BY TreeAssumption, InvNext
<1>3. Init => Tree!Init
  BY DEF Init, Tree!Init
<1>4. Inv /\ [Next]_vars => [Tree!Next]_<<parents, isBroken>>
  BY TreeAssumption, TreeStep
<1>5. <<parents, isBroken>> = Tree!treeVars
  BY DEF Tree!treeVars, parents, isBroken
<1> QED
  BY <1>1, <1>2, <1>3, <1>4, PTL DEF Spec, TreeSpec, Tree!Spec, Tree!treeVars, parents, isBroken

\* In a closed table a set of nodes has one whose path is the shortest; its parent is
\* not among them.
LEMMA ClosedIsTree ==
  ASSUME TreeAssumption, DrawnInv, Closed(row)
  PROVE  Tree!IsTree
<1>1. DOMAIN parents = DOMAIN row /\ \A m \in DOMAIN row : parents[m] = row[m].parent
  BY DEF parents
<1>2. ASSUME NEW m \in DOMAIN row
      PROVE  LET s == row[m].path
                 p == row[m].parent
             IN  /\ Len(s) \in Nat
                 /\ p = Root \/ (p \in DOMAIN row /\ Len(row[p].path) = Len(s) - 1)
  <2> DEFINE s == row[m].path
  <2>1. s \in Seq(Id) /\ Len(s) \in Nat /\ Len(s) >= 1 /\ s[1] = Root /\ row[m].parent = s[Len(s)]
    BY PathParents
  <2>2. row[m].parent = Root \/ Len(s) \in 2 .. Len(s)
    BY <2>1
  <2>3. CASE Len(s) \in 2 .. Len(s)
    BY <2>1, <2>3 DEF Closed, Leads
  <2> QED
    BY <2>1, <2>2, <2>3
<1>3. ASSUME NEW S \in SUBSET DOMAIN row, S # {} PROVE \E m \in S : row[m].parent \notin S
  <2> DEFINE lengths == {Len(row[m].path) : m \in S}
  <2>1. lengths \subseteq Nat /\ lengths # {}
    BY <1>2, <1>3
  <2>2. PICK l \in lengths : \A k \in lengths : <<k, l>> \notin Less
    <3> HIDE DEF lengths
    <3> QED
      BY <2>1, LessWF, WFMin
  <2>3. PICK m \in S : Len(row[m].path) = l
    OBVIOUS
  <2>4. ASSUME row[m].parent \in S PROVE FALSE
    <3> DEFINE p == row[m].parent
    <3>1. p \in DOMAIN row /\ p # Root
      BY <2>4 DEF DrawnInv, TreeAssumption
    <3>2. Len(row[p].path) = l - 1 /\ l \in Nat /\ l - 1 \in Nat
      BY <3>1, <2>3, <1>2
    <3>3. l - 1 \in lengths /\ <<l - 1, l>> \in Less
      BY <3>2, <2>4 DEF Less
    <3> QED
      BY <3>3, <2>2
  <2> QED
    BY <2>4
<1>4. \A m \in DOMAIN row : row[m].parent \in DOMAIN row \cup {Root}
  BY <1>2
<1> QED
  BY <1>1, <1>3, <1>4 DEF Tree!IsTree, Tree!Nodes, Tree!Places, parents

\* Until a cause comes about, a chain of parents leads from every node to the root:
\* every parent is there, and no requests, however they interleave, close a circle.
THEOREM TableIsATree == Spec => [](cause = {} => Tree!IsTree)
<1>1. Init => Inv
  BY DEF Init, Inv, DrawnInv, Closed
<1>2. Inv /\ [Next]_vars => Inv'
  BY TreeAssumption, InvNext
<1>3. Inv => (cause = {} => Tree!IsTree)
  BY TreeAssumption, ClosedIsTree DEF Inv
<1> QED
  BY <1>1, <1>2, <1>3, PTL DEF Spec
================================================================================
