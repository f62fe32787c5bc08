---------------------------- MODULE MCWorkspace -----------------------------
(* Instances of Workspace for TLC. *)
EXTENDS Workspace, TLC

CONSTANTS c1, c2, p1, p2

Both == {c1, c2}
FirstConn == {c1}
SecondConn == {c2}
Nothing == {}
Paths == {p1, p2}
OnePath == {p1}

(* Terminals, terminals that fail, files, files with failures, and both.      *)
Mixed == {<<3, 0, 0>>, <<2, 0, 1>>, <<1, 3, 0>>, <<1, 2, 1>>, <<2, 2, 0>>}

(* One terminal and one editor, and nothing fails. *)
OneEditor == {<<1, 4, 0>>}
=============================================================================
