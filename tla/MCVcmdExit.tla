----------------------------- MODULE MCVcmdExit -----------------------------
(* The instances of VcmdWaits that TLC checks: the first visit of a close, *)
(* which starts with vcmd_aborted = 0 and restart_cmdbuf = NULL, and the   *)
(* second one, after a visit that has aborted the encoder.                 *)
EXTENDS VcmdWaits

FirstVisit == {[aborted |-> FALSE, restart |-> None]}
SecondVisit == {[aborted |-> TRUE, restart |-> None],
                [aborted |-> TRUE, restart |-> Foreign]}
=============================================================================
