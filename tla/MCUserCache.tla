------------------------------ MODULE MCUserCache ------------------------------
(* Instances of UserCache: objects and threads are interchangeable, and the   *)
(* fields of an object nobody refers to are never read again.                 *)
EXTENDS UserCache, TLC

MCSymmetry == Permutations(Object) \cup Permutations(Thread)

MCView == <<db, [o \in InUse \ {None} |-> heap[o]], entry, pc, obj, form, pend,
            locked, faults, cause>>
================================================================================
