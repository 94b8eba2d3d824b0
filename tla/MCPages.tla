------------------------------- MODULE MCPages -------------------------------
(* Finite instances of two pages of the browser that share no state: the tabs  *)
(* of the main page (TabPage) and the editor of a WeChat menu (WxMenuEditor).  *)
(* A behaviour is one of its part, chosen at the start.                        *)
EXTENDS TabPage, WxMenuEditor
CONSTANTS home, page1, page2, page3

VARIABLE part

\* The editor is opened for a new account, or for one to three menus, of which one
\* may have four sub-menus.
Accounts == {<<>>, <<1>>, <<4>>, <<4, 0>>, <<0, 0, 4>>}

\* Four menus and sub-menus are made, or MaxMade of them with a single menu:
\* enough for a sub-menu in column 10.
FewMade == made' <= 4 \/ Len(button) = 1

MCInit == part \in {"tabs", "editor"} /\ Init /\ EditorInit
MCNext ==
  /\ UNCHANGED part
  /\ \/ part = "tabs" /\ Next /\ UNCHANGED editorVars
     \/ part = "editor" /\ EditorNext /\ FewMade /\ UNCHANGED vars
MCSpec == MCInit /\ [][MCNext]_<<part, vars, editorVars>>

(* Every variable of the two pages has its type. *)
PagesTypeOK == TypeOK /\ EditorTypeOK
==============================================================================
