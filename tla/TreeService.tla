------------------------------ MODULE TreeService ------------------------------
(***************************************************************************)
(* A table of tree nodes (offices, areas, menus, categories): each row     *)
(* has the id of its parent and parentIds, the path of all ids above it.   *)
(* save inserts a node or moves it and rewrites the paths below; delete    *)
(* takes a node and every row whose path names it.                         *)
(*                                                                         *)
(* A path such as "0,a,b," is the sequence <<Root, a, b>>.  Of the text of *)
(* an id it matters only whether its last character is 0, as Root's is.    *)
(***************************************************************************)
EXTENDS Integers, Sequences, FiniteSets

CONSTANTS
  Admin,       (* request threads                                          *)
  Node,        (* ids that IdGen.uuid draws                                *)
  ZeroEnded,   (* those of them whose last character is 0                  *)
  Root,        (* the id "0", the parent of top-level nodes                *)
  None,        (* no node, no snapshot                                     *)
  MaxLen       (* bound: the length of a path                              *)

ASSUME TreeAssumption ==
  /\ ZeroEnded \subseteq Node
  /\ Root \notin Node
  /\ None \notin Node \cup {Root}
  /\ MaxLen \in Nat

VARIABLES
  row,         (* id -> its stored row                                     *)
  drawn,       (* ids given to rows so far; uuid never repeats one         *)
  pc,          (* admin -> the next step of its request                    *)
  req,         (* admin -> the entity handed to save                       *)
  seen,        (* admin -> the table as its transaction sees it            *)
  cause        (* history: why a path may be wrong                         *)

vars == <<row, drawn, pc, req, seen, cause>>

Id  == Node \cup {Root}
Row == [parent : Id, path : Seq(Id)]

\* Every variable has its type, and a row's id was drawn for it (TreeService.save).
TypeOK ==
  /\ drawn \subseteq Node
  /\ DOMAIN row \subseteq drawn
  /\ \A n \in DOMAIN row : row[n] \in Row
  /\ pc \in [Admin -> {"idle", "parent", "save"}]
  /\ req \in [Admin -> [node : Node \cup {None}, parent : Id, old : Seq(Id)]]
  /\ \A a \in Admin : seen[a] # None => \A n \in DOMAIN seen[a] : seen[a][n] \in Row
  /\ cause \subseteq {"stale", "below", "occurs"}

Ids(path) == {path[i] : i \in DOMAIN path}

NoRequest == [node |-> None, parent |-> Root, old |-> <<>>]

Init ==
  /\ row = [n \in {} |-> NoRequest]
  /\ drawn = {}
  /\ pc = [a \in Admin |-> "idle"]
  /\ req = [a \in Admin |-> NoRequest]
  /\ seen = [a \in Admin |-> None]
  /\ cause = {}

(***************************************************************************)
(* The text operations on paths.                                           *)
(***************************************************************************)

\* parent_ids LIKE '%,n,%'
Names(path, n) == n \in Ids(Tail(path))

\* The places where old occurs in path: its "0" also fits the end of an id.
Occurrences(path, old) ==
  {i \in DOMAIN path : /\ path[i] \in ZeroEnded \cup {Root}
                       /\ i + Len(old) - 1 <= Len(path)
                       /\ SubSeq(path, i + 1, i + Len(old) - 1) = Tail(old)}

\* String.replace(old, new), from left to right.  Both begin with "0,".
ReplaceAll(path, old, new) ==
  LET rest[i \in 1 .. Len(path) + 1] ==
        IF i > Len(path) THEN <<>>
        ELSE IF i \in Occurrences(path, old)
               THEN <<path[i]>> \o Tail(new) \o rest[i + Len(old)]
               ELSE <<path[i]>> \o rest[i + 1]
  IN  rest[1]

Replace(path, old, new) ==
  IF Occurrences(path, old) = {1} THEN new \o SubSeq(path, Len(old) + 1, Len(path))
                                  ELSE ReplaceAll(path, old, new)

(***************************************************************************)
(* The controller: @ModelAttribute get and the posted parent.              *)
(***************************************************************************)

Begin(a, r) ==
  /\ pc[a] = "idle"
  /\ pc' = [pc EXCEPT ![a] = IF r.parent = Root THEN "save" ELSE "parent"]
  /\ req' = [req EXCEPT ![a] = r]
  /\ UNCHANGED <<row, drawn, seen, cause>>

Add(a, p)     == Begin(a, [node |-> None, parent |-> p, old |-> <<>>])
Edit(a, n, p) == n \in DOMAIN row /\ Begin(a, [node |-> n, parent |-> p, old |-> row[n].path])

End(a) ==
  /\ pc' = [pc EXCEPT ![a] = "idle"]
  /\ req' = [req EXCEPT ![a] = NoRequest]
  /\ seen' = [seen EXCEPT ![a] = None]

(***************************************************************************)
(* TreeService.save, one transaction.                                      *)
(***************************************************************************)

\* The transaction's first read, which fixes its snapshot; for a parent that
\* is gone the root is taken.
ReadParent(a) ==
  /\ pc[a] = "parent"
  /\ pc' = [pc EXCEPT ![a] = "save"]
  /\ seen' = [seen EXCEPT ![a] = row]
  /\ req' = [req EXCEPT ![a].parent = IF @ \in DOMAIN row THEN @ ELSE Root]
  /\ UNCHANGED <<row, drawn, cause>>

Table(a) == IF seen[a] = None THEN row ELSE seen[a]

NewRow(a) ==
  LET p == req[a].parent
  IN  [parent |-> p, path |-> IF p = Root THEN <<Root>> ELSE Append(seen[a][p].path, p)]

ParentMoved(a) ==
  LET p == req[a].parent
  IN  p # Root /\ (p \in DOMAIN row => row[p].path # seen[a][p].path)

\* An id is given out without being noted as taken.
InsertUnnoted(a) ==
  /\ pc[a] = "save"
  /\ req[a].node = None
  /\ \E n \in Node \ drawn :
       row' = [m \in DOMAIN row \cup {n} |-> IF m = n THEN NewRow(a) ELSE row[m]]
  /\ UNCHANGED <<drawn, cause>>
  /\ End(a)
\* CrudService.save of a new entity; nothing is below it yet.
Insert(a) ==
  /\ pc[a] = "save"
  /\ req[a].node = None
  /\ Len(NewRow(a).path) <= MaxLen
  /\ \E n \in Node \ drawn :
       /\ row' = [m \in DOMAIN row \cup {n} |-> IF m = n THEN NewRow(a) ELSE row[m]]
       /\ drawn' = drawn \cup {n}
  /\ cause' = IF ParentMoved(a) THEN cause \cup {"stale"} ELSE cause
  /\ End(a)

Placed(table, n, r) == [m \in DOMAIN table |-> IF m = n THEN r ELSE table[m]]
Below(table, n)     == {m \in DOMAIN table : Names(table[m].path, n)}
Subtree(table, n)   == [m \in Below(table, n) |-> table[m]]

\* findByParentIdsLike sees the snapshot and the transaction's own update.
Listed(a) ==
  LET n == req[a].node
  IN  Subtree(IF n \in DOMAIN row THEN Placed(Table(a), n, NewRow(a)) ELSE Table(a), n)

Rewritten(a, r) == [r EXCEPT !.path = Replace(@, req[a].old, NewRow(a).path)]

\* Only the children's paths are rewritten, not those further down.
MovedChildren(a) ==
  [m \in DOMAIN row |-> IF m \in DOMAIN Listed(a) /\ row[m].parent = req[a].node
                          THEN Rewritten(a, Listed(a)[m])
                        ELSE IF m = req[a].node THEN NewRow(a) ELSE row[m]]
\* The update, and updateParentIds for every row listed that still exists.
Moved(a) ==
  [m \in DOMAIN row |-> IF m \in DOMAIN Listed(a) THEN Rewritten(a, Listed(a)[m])
                        ELSE IF m = req[a].node THEN NewRow(a) ELSE row[m]]

\* Something the save uses was changed after it was read.
Stale(a) ==
  LET n == req[a].node
  IN  \/ ParentMoved(a)
      \/ n \in DOMAIN row /\ row[n].path # req[a].old
      \/ Subtree(row, n) # Subtree(Table(a), n)

CausesOf(a) ==
  {c \in {"stale", "below", "occurs"} :
     \/ c = "stale"  /\ Stale(a)
     \/ c = "below"  /\ req[a].node \in Ids(NewRow(a).path)
     \/ c = "occurs" /\ \E m \in DOMAIN Listed(a) :
                          ~ Occurrences(Listed(a)[m].path, req[a].old) \subseteq {1}}

\* CrudService.save of a stored entity and the rewriting below it.
Update(a) ==
  /\ pc[a] = "save"
  /\ req[a].node # None
  /\ \A m \in DOMAIN row : Len(Moved(a)[m].path) <= MaxLen
  /\ row' = Moved(a)
  /\ cause' = cause \cup CausesOf(a)
  /\ UNCHANGED drawn
  /\ End(a)

\* An exception rolls the transaction back.
Fail(a) ==
  /\ pc[a] = "save"
  /\ End(a)
  /\ UNCHANGED <<row, drawn, cause>>

\* The rows below the children stay.
DeleteChildren(n) ==
  /\ n \in DOMAIN row
  /\ row' = [m \in DOMAIN row \ ({n} \cup {m \in DOMAIN row : row[m].parent = n}) |-> row[m]]
  /\ UNCHANGED <<drawn, pc, req, seen, cause>>
\* DELETE ... WHERE id = n OR parent_ids LIKE '%,n,%'
Delete(n) ==
  /\ n \in DOMAIN row
  /\ row' = [m \in DOMAIN row \ ({n} \cup Below(row, n)) |-> row[m]]
  /\ UNCHANGED <<drawn, pc, req, seen, cause>>

Next ==
  \/ \E a \in Admin :
       \/ \E p \in drawn \cup {Root} : Add(a, p) \/ \E n \in DOMAIN row : Edit(a, n, p)
       \/ ReadParent(a) \/ Insert(a) \/ Update(a) \/ Fail(a)
  \/ \E n \in DOMAIN row : Delete(n)

Spec == Init /\ [][Next]_vars

(***************************************************************************)
(* Properties                                                              *)
(***************************************************************************)

PathIsRight(n) ==
  LET p == row[n].parent
  IN  \/ p = Root /\ row[n].path = <<Root>>
      \/ p \in DOMAIN row /\ row[n].path = Append(row[p].path, p)

\* However requests interleave, every path lists the ancestors of its row, from the
\* top level to the parent, unless save has used a path that another request had
\* changed, has put a node below itself, or has replaced more than the beginning.
ParentIdsAreAncestors == cause = {} => \A n \in DOMAIN row : PathIsRight(n)

\* The table without its paths is a ParentTree until one of these causes comes about: a
\* node is put below one that is there and not below itself, and a delete, which goes
\* by the paths, takes the node with its descendants and no other row.
Tree == INSTANCE ParentTree WITH
  parent <- [n \in DOMAIN row |-> row[n].parent],
  broken <- cause # {}
TreeSpec == Tree!Spec

\* "All the parents' ids" (TreeEntity.java:24): without concurrent requests and moves
\* of a node below itself, a path names a row's ancestors and nothing else, in
\* whatever order.  The code does not keep this.
ParentIdsNameAncestors ==
  cause \subseteq {"occurs"} =>
    \A n \in DOMAIN row :
      LET p == row[n].parent
      IN  IF p = Root THEN row[n].path = <<Root>>
          ELSE p \in DOMAIN row /\ Ids(row[n].path) = Ids(row[p].path) \cup {p}
================================================================================
