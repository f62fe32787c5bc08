----------------------------- MODULE MCAiQueue -----------------------------
(* Instances of AiQueue for TLC. *)
EXTENDS AiQueue
=============================================================================
