----------------------------- MODULE MCScheduleJob -----------------------------
(* Two rows, two keys, two definitions and two concurrent administrators. *)
EXTENDS ScheduleJob, TLC

MCSymmetry ==
  Permutations(Row) \cup Permutations(Name) \cup Permutations(Def) \cup Permutations(Admin)
================================================================================
