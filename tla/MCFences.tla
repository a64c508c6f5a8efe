------------------------------ MODULE MCFences ------------------------------
(* Two clients, three fences, one suspension, two failures.                *)
EXTENDS Fences

CONSTANTS c1, c2, b1, b2

MCClients == {c1, c2}
MCBuffers == {b1, b2}
MCDrivers == {"hantro", "vgem"}
MCVgem == {"vgem"}
=============================================================================
