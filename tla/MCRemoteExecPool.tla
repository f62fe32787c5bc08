-------------------------- MODULE MCRemoteExecPool --------------------------
(* Instances of RemoteExecPool for TLC. *)
EXTENDS RemoteExecPool, TLC

CONSTANTS k1, k2, k3, g1, g2, c1, c2, n1, n2

ThreeConns == {k1, k2, k3}
TwoSigs == {g1, g2}
TwoCalls == {c1, c2}
TwoNumbers == {n1, n2}
Requests ==
    {[conn |-> k1, sig |-> g1, mode |-> "retry"], [conn |-> k1, sig |-> g2, mode |-> "warm"],
     [conn |-> k2, sig |-> g1, mode |-> "exec"], [conn |-> k3, sig |-> g1, mode |-> "stream"]}
=============================================================================
