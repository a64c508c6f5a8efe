---------------------------- MODULE MCVcmdQueue -----------------------------
(* The instances of VcmdRuns that TLC checks; all constants are ordinary  *)
(* values, given in the MCVcmdQueue*.cfg files.                            *)
EXTENDS VcmdRuns
=============================================================================
