------------------------------- MODULE TabStrip -------------------------------
(***************************************************************************)
(* What the tabs of the main page promise: a set of open pages, one of     *)
(* which the user sees.  The home page cannot be closed.                   *)
(***************************************************************************)
CONSTANTS Url, Home
VARIABLES open, shown

Init == open = {Home} /\ shown = Home

(* Opening a page shows it, whether it was open or not. *)
Show(u) == open' = open \cup {u} /\ shown' = u

(* Closing pages leaves the one shown in view; if that is closed, another  *)
(* open page is shown.                                                     *)
Close(pages) ==
  /\ Home \notin pages
  /\ open' = open \ pages
  /\ shown' \in IF shown \in pages THEN open' ELSE {shown}

(* Closing every other page, or all of them, shows the page that stays. *)
Keep(pages, u) ==
  /\ u \in pages /\ Home \in pages /\ pages \subseteq open
  /\ open' = pages /\ shown' = u

Next == \/ \E u \in Url : Show(u)
        \/ \E pages \in SUBSET open : Close(pages)
        \/ \E pages \in SUBSET open : \E u \in pages : Keep(pages, u)

Spec == Init /\ [][Next]_<<open, shown>>
================================================================================
