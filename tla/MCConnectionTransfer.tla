------------------------ MODULE MCConnectionTransfer ------------------------
(* Instances of ConnectionTransfer for TLC. *)
EXTENDS ConnectionTransfer

CONSTANTS s1, s2, o1, t1, t2, u1, app, mcp, i1, i2

OneProfileSlot == {s1}
TwoProfileSlots == {s1, s2}
OneAppSlot == {o1}
TwoTx == {t1, t2}
OneUserVal == {u1}
OnlyApp == {app}
AppAndSidecar == {app, mcp}
Nobody == {}
Sidecar == {mcp}
OneStore == {i1}
TwoStores == {i1, i2}
=============================================================================
