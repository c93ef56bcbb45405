---------------------------- MODULE MCExtensions ----------------------------
(***************************************************************************)
(* Four extensions, two of which have the same order.  The fourth finds    *)
(* room in the array of the first three, the second and the third do not.  *)
(***************************************************************************)
EXTENDS Extensions, TLC

CONSTANTS e1, e2, e3, e4

MCOrder == (e1 :> 1) @@ (e2 :> 2) @@ (e3 :> 2) @@ (e4 :> 3)

Symmetric == Permutations(Procs)
=============================================================================
