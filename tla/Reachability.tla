---------------------------- MODULE Reachability ----------------------------
(***************************************************************************)
(* Reachability in a directed graph given as a set of pairs <<from, to>>.  *)
(* This is the reference definition against which the traversal of         *)
(* graph.go is checked, and which the model of scope.go uses in its place. *)
(* It is not recursive: the nodes reachable from a node are those that no  *)
(* closed set holding the node can leave out.                              *)
(***************************************************************************)

(* C is closed under the edges of E. *)
Closed(E, C) == \A edge \in E : edge[1] \in C => edge[2] \in C

(* The members of Nodes reachable from start along E, start included. *)
Reach(E, Nodes, start) ==
    { n \in Nodes : \A C \in SUBSET Nodes :
                        (start \in C /\ Closed(E, C)) => n \in C }
=============================================================================
