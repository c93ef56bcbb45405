---------------------------- MODULE ExecutionTree ----------------------------
(***************************************************************************)
(* flow.go, ExecutionTree: the executions a scope remembers.               *)
(*                                                                         *)
(* addNode runs under the tree's lock, so it is one step.  A node is added *)
(* when its execution ends, which puts children before their parents: the  *)
(* tree is built from the leaves, and a root comes after all it holds.     *)
(***************************************************************************)
EXTENDS Integers, FiniteSets, SequencesExt, Reachability

CONSTANTS
    Ids,       \* execution ids
    Limit,     \* nodes the tree keeps
    Statuses   \* the tags of a node, abstracted to its status

NoParent == 0

ASSUME TreeAssumption ==
    /\ NoParent \notin Ids
    /\ Limit \in Nat

VARIABLES
    nodes,     \* the map nodes: a set of nodes, no two with the same id
    byParent,  \* byParent[id]: children of id in the order they were added
    roots      \* ids of the nodes without a parent, oldest first

treeVars == <<nodes, byParent, roots>>

Nodes == [id : Ids, parent : Ids \union {NoParent}, status : Statuses]

Recorded == { n.id : n \in nodes }

TreeTypeOK ==
    /\ nodes \subseteq Nodes
    /\ byParent \in [Ids -> Seq(Ids)]
    /\ roots \in Seq(Ids)

-----------------------------------------------------------------------------
TreeInit ==
    /\ nodes = {}
    /\ byParent = [id \in Ids |-> <<>>]
    /\ roots = <<>>

Links(children) ==
    { link \in Ids \X Ids : link[2] \in ToSet(children[link[1]]) }

(* A bug: eviction takes the root and leaves what hangs below it. *)
SubtreeRootOnly(children, id) == {id}

(* removeSubtree: the recursion reaches what hangs below the root. *)
Subtree(children, id) == Reach(Links(children), Ids, id)

removeSubtree(ns, children, id) ==
    LET gone == Subtree(children, id)
    IN  /\ nodes' = { n \in ns : n.id \notin gone }
        /\ byParent' = [p \in Ids |-> IF p \in gone THEN <<>> ELSE children[p]]

(* The node among the roots, or among the children of its parent. *)
RootsWith(n) == IF n.parent = NoParent THEN Append(roots, n.id) ELSE roots

ChildrenWith(n) ==
    IF n.parent = NoParent THEN byParent
    ELSE [byParent EXCEPT ![n.parent] = Append(@, n.id)]

Keep(n) ==
    /\ nodes' = nodes \union {n}
    /\ byParent' = ChildrenWith(n)
    /\ roots' = RootsWith(n)

Evict(n) ==
    /\ roots' = Tail(RootsWith(n))
    /\ removeSubtree(nodes \union {n}, ChildrenWith(n), Head(RootsWith(n)))

(* A bug: the limit is tested before the node is added. *)
addNodeLate(n) ==
    IF Cardinality(nodes) > Limit /\ RootsWith(n) # <<>> THEN Evict(n) ELSE Keep(n)

(* A bug: the evicted root stays in the list of roots. *)
addNodeKeepingRoots(n) ==
    IF Cardinality(nodes \union {n}) > Limit /\ RootsWith(n) # <<>>
    THEN /\ removeSubtree(nodes \union {n}, ChildrenWith(n), Head(RootsWith(n)))
         /\ roots' = RootsWith(n)
    ELSE Keep(n)

(* addNode, with evictOldest when the tree is over its limit. *)
addNode(n) ==
    IF Cardinality(nodes \union {n}) > Limit /\ RootsWith(n) # <<>>
    THEN Evict(n)
    ELSE Keep(n)

-----------------------------------------------------------------------------
(* The tree by itself: nodes with new ids come in any order.  The first    *)
(* conjunct spares TLC the search for a node in steps that add none.       *)
Seen == Recorded \union ToSet(roots) \union UNION { ToSet(byParent[p]) : p \in Ids }

AddNew ==
    /\ treeVars' # treeVars
    /\ \E id \in Ids \ Seen : \E parent \in (Ids \ {id}) \union {NoParent} :
          \E status \in Statuses :
              addNode([id |-> id, parent |-> parent, status |-> status])

TreeSpec == TreeInit /\ [][AddNew]_treeVars

-----------------------------------------------------------------------------
(* The tree never outgrows its limit while it has a root to evict: what is *)
(* over it are children whose root is still running, has left the tree     *)
(* before them, or is never recorded (flow.go 151-165).                    *)
WithinLimit == Cardinality(nodes) <= Limit \/ roots = <<>>

(* Roots and children are told apart, and every root is a node: evicting   *)
(* one makes room.                                                         *)
RootsAreNodes ==
    /\ \A i \in 1..Len(roots) : \E n \in nodes : n.id = roots[i] /\ n.parent = NoParent
    /\ \A i, j \in 1..Len(roots) : roots[i] = roots[j] => i = j
    /\ \A p \in Ids : ToSet(roots) \intersect ToSet(byParent[p]) = {}
=============================================================================
