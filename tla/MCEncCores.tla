----------------------------- MODULE MCEncCores -----------------------------
(***************************************************************************)
(* EncCores on two cores, with two processes of one thread each, which ask *)
(* for one core or for both.                                               *)
(***************************************************************************)
EXTENDS EncCores, TLC

CONSTANTS p1, p2, t1, t2

MCProcOf == (t1 :> p1) @@ (t2 :> p2)
=============================================================================
