----------------------------- MODULE MCConnPool -----------------------------
(***************************************************************************)
(* The instances of ConnPool that TLC checks.  The threads are             *)
(* interchangeable: nothing orders them.                                   *)
(***************************************************************************)
EXTENDS ConnPool, TLC

Symmetry == Permutations(Threads)
=============================================================================
