--------------------------- MODULE MCFileTransfer ---------------------------
(* Instances of FileTransfer for TLC. *)
EXTENDS FileTransfer, TLC

First == {1}
Second == {2}
FirstTwo == {1, 2}
Third == {3}
Nothing == {}
OneOrThree == {1, 3}
Two == {2}
=============================================================================
