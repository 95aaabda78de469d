---------------------------- MODULE MCStatement ----------------------------
(***************************************************************************)
(* The instances of Statement that TLC checks.  Threads and connections    *)
(* are interchangeable: nothing orders them.                               *)
(***************************************************************************)
EXTENDS Statement, TLC

Symmetry == Permutations(Threads) \cup Permutations(Conns)
=============================================================================
