------------------------------ MODULE ParentTree ------------------------------
(***************************************************************************)
(* What a tree table promises to those who read it: every node has a       *)
(* parent, and a chain of parents leads from each node to the root.  The   *)
(* paths by which TreeService finds the nodes below another one are not    *)
(* mentioned here.  Once a cause is recorded, nothing is promised.         *)
(***************************************************************************)
CONSTANTS Node, Root
VARIABLES parent,   (* node -> its parent                                  *)
          broken    (* one of the recorded causes has come about           *)

treeVars == <<parent, broken>>

Nodes == DOMAIN parent

(* The nodes from which a chain of parents leads to n: those in every set   *)
(* that has the children of n and, with a node, its children.               *)
Descendants(n) ==
  {m \in Nodes :
     \A S \in SUBSET Nodes :
       (\A x \in Nodes : parent[x] = n \/ parent[x] \in S => x \in S) => m \in S}

Init == parent = [n \in {} |-> Root] /\ broken = FALSE

Places == Nodes \cup {Root}

Insert(n, p) ==
  /\ n \in Node \ Nodes /\ p \in Places
  /\ parent' = [m \in Nodes \cup {n} |-> IF m = n THEN p ELSE parent[m]]

(* A node is never moved below itself. *)
Move(n, p) ==
  /\ n \in Nodes /\ p \in Places \ ({n} \cup Descendants(n))
  /\ parent' = [parent EXCEPT ![n] = p]

(* A node goes with all that is below it, and nobody else goes. *)
Remove(n) ==
  /\ n \in Nodes
  /\ parent' = [m \in Nodes \ ({n} \cup Descendants(n)) |-> parent[m]]

Break == broken' = TRUE

Next ==
  \/ /\ ~broken /\ UNCHANGED broken
     /\ \/ \E n \in Node : \E p \in Node \cup {Root} : Insert(n, p) \/ Move(n, p)
        \/ \E n \in Nodes : Remove(n)
  \/ Break

Spec == Init /\ [][Next]_treeVars

(* Every chain of parents ends at the root: no set of nodes has all its     *)
(* parents in itself, and a parent that is not the root is there.           *)
IsTree ==
  /\ \A n \in Nodes : parent[n] \in Places
  /\ \A S \in SUBSET Nodes : S # {} => \E n \in S : parent[n] \notin S
================================================================================
