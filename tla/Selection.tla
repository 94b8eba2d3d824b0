------------------------------- MODULE Selection -------------------------------
(* What is left of a list from which entries are spliced while it is walked,    *)
(* or of the elements of a page from which some are removed.                    *)
EXTENDS Naturals, Sequences

(* The entries of s that are in keep, in their order. *)
Selected(s, keep) ==
  LET upTo[i \in 0..Len(s)] ==
        IF i = 0 THEN <<>>
        ELSE IF s[i] \in keep THEN Append(upTo[i - 1], s[i]) ELSE upTo[i - 1]
  IN upTo[Len(s)]
================================================================================
