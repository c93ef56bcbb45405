----------------------------- MODULE GraphDebug ------------------------------
(***************************************************************************)
(* extensions/graph_debug.go: the trees the extension draws of the graph   *)
(* when a Resolve has failed, one below each executor nothing leads to.    *)
(*                                                                         *)
(* A tree is the sequence of its nodes, parents first: what is drawn, and  *)
(* below what.  Labels, and the list under the trees, are left out.        *)
(***************************************************************************)
EXTENDS ReactiveGraph

(* ExportAllDependencies has no key without dependents. *)
Nodes == { edge[1] : edge \in Edges } \union { edge[2] : edge \in Edges }

Roots == { n \in Nodes : \A edge \in Edges : edge[2] # n }

Node(executor, parent) == [executor |-> executor, parent |-> parent]

Drawn(tree) == { node.executor : node \in ToSet(tree) }

(* The children in the order of their names, which is any that is fixed.   *)
Children(executor) == SetToSeq(ToSet(downstream[executor]))

(* The calls of buildTree that the loop over the children makes. *)
Below(executor) ==
    [i \in 1..Len(Children(executor)) |-> Node(Children(executor)[i], executor)]

(* A bug: what has been visited is drawn again. *)
buildTreeUnmarked(drawing) ==
    IF drawing.calls = <<>> THEN drawing
    ELSE [tree  |-> Append(drawing.tree, Head(drawing.calls)),
          calls |-> Below(Head(drawing.calls).executor) \o Tail(drawing.calls)]

(* One call of buildTree, the first of those that are still to be made: it *)
(* returns if its executor is visited, that is in the tree already, and    *)
(* else its own calls come before those of its callers.                    *)
buildTree(drawing) ==
    IF drawing.calls = <<>> THEN drawing
    ELSE IF Head(drawing.calls).executor \in Drawn(drawing.tree)
    THEN [drawing EXCEPT !.calls = Tail(@)]
    ELSE [tree  |-> Append(drawing.tree, Head(drawing.calls)),
          calls |-> Below(Head(drawing.calls).executor) \o Tail(drawing.calls)]

(* One for the root and one along each edge: that no more are made, and    *)
(* none is left, is part of what is to be shown.                           *)
MaxCalls == 1 + Cardinality(Edges)

Drawing(root) ==
    LET after[n \in 0..MaxCalls] ==
            IF n = 0 THEN [tree |-> <<>>, calls |-> <<Node(root, root)>>]
            ELSE buildTree(after[n - 1])
    IN  after[MaxCalls]

Tree(root) == Drawing(root).tree

(* When there is no root there is no tree, and the list alone is logged. *)
Trees == { Tree(root) : root \in Roots }

-----------------------------------------------------------------------------
Acyclic == \A e \in Execs :
    \A edge \in Edges : edge[1] = e => e \notin Reach(Edges, Execs, edge[2])

(* graph_debug.go buildTree: the drawing ends, on cycles too; a tree shows *)
(* what is reachable from its root, each executor once and below one that  *)
(* it depends on; and in a graph without cycles, as executors make it, no  *)
(* executor is left out.                                                   *)
DrawnWhole ==
    /\ \A root \in Roots :
          /\ Drawing(root).calls = <<>>
          /\ Drawn(Tree(root)) = Reach(Edges, Execs, root)
          /\ Len(Tree(root)) = Cardinality(Drawn(Tree(root)))
          /\ \A node \in ToSet(Tree(root)) :
                node.executor # root => <<node.parent, node.executor>> \in Edges
    /\ Acyclic => UNION { Drawn(tree) : tree \in Trees } = Nodes
=============================================================================
