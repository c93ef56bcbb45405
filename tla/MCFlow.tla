------------------------------- MODULE MCFlow -------------------------------
(***************************************************************************)
(* Instances of Flow for TLC: up to three executions, and a tree that      *)
(* keeps one of them.                                                      *)
(***************************************************************************)
EXTENDS FlowProperties, TLC

MCIds == 1..3
MCStatuses == {"running", "success", "failed", "cancelled"}

Symmetric == Permutations(Clients)
=============================================================================
