----------------------------- MODULE MCDecCores -----------------------------
(***************************************************************************)
(* DecCores on two cores, with two files and three threads, two of which   *)
(* share a file.  One of them, t3, accepts only the second core.           *)
(***************************************************************************)
EXTENDS DecCores, TLC

CONSTANTS f1, f2, t1, t2, t3

MCFileOf == (t1 :> f1) @@ (t2 :> f1) @@ (t3 :> f2)
OneMask == [t \in {t1, t2, t3} |-> IF t = t3 THEN {{1}} ELSE {{0, 1}}]
=============================================================================
