------------------------- MODULE ReachabilityProofs -------------------------
(***************************************************************************)
(* What the proofs about graphs need to know of Reach.                     *)
(***************************************************************************)
EXTENDS Reachability, TLAPS

(* A node reaches itself. *)
LEMMA ReachStart ==
    ASSUME NEW E, NEW Nodes, NEW n \in Nodes
    PROVE  n \in Reach(E, Nodes, n)
BY DEF Reach

(* The reachable nodes are closed under the edges. *)
LEMMA ReachStep ==
    ASSUME NEW Nodes, NEW E \in SUBSET (Nodes \X Nodes), NEW s \in Nodes,
           NEW x \in Reach(E, Nodes, s), NEW y, <<x, y>> \in E
    PROVE  y \in Reach(E, Nodes, s)
<1>1. y \in Nodes
  OBVIOUS
<1>2. ASSUME NEW C \in SUBSET Nodes, s \in C, Closed(E, C)
      PROVE  y \in C
  <2>1. x \in C
    BY <1>2 DEF Reach
  <2>2. QED
    BY <1>2, <2>1 DEF Closed
<1>3. QED
  BY <1>1, <1>2 DEF Reach

(* They are the smallest closed set that holds the start. *)
LEMMA ReachLeast ==
    ASSUME NEW E, NEW Nodes, NEW s, NEW C \in SUBSET Nodes,
           s \in C, Closed(E, C)
    PROVE  Reach(E, Nodes, s) \subseteq C
BY DEF Reach
=============================================================================
