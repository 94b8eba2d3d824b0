----------------------------- MODULE MCTreeService -----------------------------
(* Instances of TreeService.  A scene bounds each: "pair", two requests at once   *)
(* without the fourth id; "deep", all ids and one request at a time; "zero", no   *)
(* further bound.  A state in which a cause has been recorded is checked, and not *)
(* continued where MCUncaused is a constraint: the property says nothing of what  *)
(* follows it.                                                                    *)
EXTENDS TreeService, TLC
CONSTANTS Scenes, Fourth
VARIABLE scene

\* Admins are interchangeable, and so are ids whose last characters are alike.
MCSymmetry == Permutations(Admin) \cup Permutations(Node \ (ZeroEnded \cup {Fourth}))
                \cup Permutations(ZeroEnded)

MCUncaused == cause = {}

InScene == /\ scene = "pair" => Fourth \notin drawn
           /\ scene = "deep" => \E a \in Admin : pc[a] = "idle"

MCInit == Init /\ scene \in Scenes
MCNext == Next /\ UNCHANGED scene /\ InScene'
MCSpec == MCInit /\ [][MCNext]_<<vars, scene>>
================================================================================
