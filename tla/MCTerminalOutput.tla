-------------------------- MODULE MCTerminalOutput --------------------------
(* Instances of TerminalOutput for TLC. *)
EXTENDS TerminalOutput, TLC

(* The first session begins with an empty line. *)
FirstChunk == {1}
ThirdChunk == {3}
=============================================================================
