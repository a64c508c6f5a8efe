---------------------------- MODULE MCCmdbufPool ----------------------------
(***************************************************************************)
(* CmdbufPool on five slots (three that can be handed out), two open files *)
(* and three threads, two of which share a file.                           *)
(***************************************************************************)
EXTENDS CmdbufPool, TLC

CONSTANTS f1, f2, t1, t2, t3

MCFilpOf == (t1 :> f1) @@ (t2 :> f1) @@ (t3 :> f2)
=============================================================================
