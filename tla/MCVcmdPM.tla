------------------------------ MODULE MCVcmdPM ------------------------------
(* VcmdPM for TLC, with a joint bound on what disturbs the normal flow:    *)
(* suspensions, signals, hardware errors and high-priority buffers.        *)
EXTENDS VcmdPM

CONSTANT MaxDisturbances

Disturbances ==
    cycles + signals + faults + Cardinality({n \in Ids : prio[n] = "high"})

BoundedDisturbances == Disturbances <= MaxDisturbances
=============================================================================
