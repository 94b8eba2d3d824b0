---------------------------- MODULE MCJ2CacheChannel ----------------------------
(* A finite instance of J2CacheChannel: two threads on node n1, one on n2.  Two *)
(* scenes bound it, chosen at the start: "nodes", one thread at a time per node  *)
(* and two keys, so that batches are split; "threads", all threads and one more *)
(* operation on one key, so that the threads of a node cross each other.        *)
EXTENDS J2CacheChannel, TLC
CONSTANTS n1, n2, t1, t2, t3, k1, k2
VARIABLE scene

Homes == [t \in Thread |-> IF t = t3 THEN n2 ELSE n1]

InScene ==
  IF scene = "nodes" THEN issued < MaxOps /\ "idle" \in {pc[t1], pc[t2]}
  ELSE \A t \in Thread : k2 \in op[t].keys => op[t].all

\* The threads of n1 are interchangeable.
Symmetry == Permutations({t1, t2})

MCInit == Init /\ scene \in {"nodes", "threads"}
MCNext == Next /\ UNCHANGED scene /\ InScene'
MCSpec == MCInit /\ [][MCNext]_<<vars, scene>>
================================================================================
