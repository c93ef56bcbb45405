------------------------------ MODULE FlowProofs ------------------------------
(***************************************************************************)
(* For any clients and helpers, any number of executions and any limit of  *)
(* the tree: the tree keeps to its limit, whatever order the nodes come    *)
(* in, Flow uses it as the tree's own specification says, an execution     *)
(* comes back after what its factory started, the tree agrees with the     *)
(* callers, and no node outlives a parent whose factory made it.           *)
(***************************************************************************)
EXTENDS FlowProperties, ReachabilityProofs, FiniteSetTheorems, TLAPS

-----------------------------------------------------------------------------
(* The tree keeps to its limit, whatever the limit, the ids and the order  *)
(* in which nodes come.                                                    *)

(* RootsAreNodes of any nodes, lists of children and roots. *)
Rooted(ns, children, rs) ==
    /\ \A i \in 1..Len(rs) : \E n \in ns : n.id = rs[i] /\ n.parent = NoParent
    /\ \A i, j \in 1..Len(rs) : rs[i] = rs[j] => i = j
    /\ \A p \in Ids : ToSet(rs) \intersect ToSet(children[p]) = {}

(* The invariant: the count of nodes means something, and each eviction    *)
(* takes a node away.                                                      *)
TreeInv ==
    /\ TreeTypeOK
    /\ IsFiniteSet(nodes)
    /\ WithinLimit
    /\ RootsAreNodes

(* A node that has not been seen. *)
New(n) == n \in Nodes /\ n.id \notin Seen /\ n.id # n.parent

-----------------------------------------------------------------------------
(* The members of a sequence that is one longer. *)
LEMMA AppendSet ==
    ASSUME NEW S, NEW s \in Seq(S), NEW x \in S
    PROVE  ToSet(Append(s, x)) = ToSet(s) \union {x}
<1> DEFINE t == Append(s, x)
<1>1. /\ Len(s) \in Nat /\ DOMAIN s = 1..Len(s)
      /\ DOMAIN t = 1..Len(s) + 1
      /\ t[Len(s) + 1] = x
      /\ \A i \in 1..Len(s) : t[i] = s[i]
  OBVIOUS
<1> HIDE DEF t
<1>2. ASSUME NEW y \in ToSet(t) PROVE y \in ToSet(s) \union {x}
  <2>1. PICK i \in 1..Len(s) + 1 : y = t[i]
    BY <1>1, <1>2 DEF ToSet
  <2>2. i \in 1..Len(s) \/ i = Len(s) + 1
    BY <1>1
  <2>3. QED
    BY <1>1, <2>1, <2>2 DEF ToSet
<1>3. ASSUME NEW y \in ToSet(s) \union {x} PROVE y \in ToSet(t)
  <2>1. CASE y = x
    <3>1. Len(s) + 1 \in 1..Len(s) + 1
      BY <1>1
    <3>2. QED
      BY <1>1, <2>1, <3>1 DEF ToSet
  <2>2. CASE y \in ToSet(s)
    <3>1. PICK i \in 1..Len(s) : y = s[i]
      BY <1>1, <2>2 DEF ToSet
    <3>2. i \in 1..Len(s) + 1 /\ t[i] = y
      BY <1>1, <3>1
    <3>3. QED
      BY <1>1, <3>2 DEF ToSet
  <2>3. QED
    BY <1>3, <2>1, <2>2
<1>4. QED
  BY <1>2, <1>3 DEF t

(* Adding a node leaves the lists in their types. *)
LEMMA AddTyped ==
    ASSUME TreeTypeOK, NEW n \in Nodes
    PROVE  /\ RootsWith(n) \in Seq(Ids)
           /\ ChildrenWith(n) \in [Ids -> Seq(Ids)]
<1>1. n.id \in Ids /\ n.parent \in Ids \union {NoParent}
  BY DEF Nodes
<1>2. roots \in Seq(Ids) /\ byParent \in [Ids -> Seq(Ids)]
  BY DEF TreeTypeOK
<1>3. ASSUME n.parent # NoParent
      PROVE  ChildrenWith(n) \in [Ids -> Seq(Ids)]
  <2>1. n.parent \in Ids
    BY <1>1, <1>3
  <2>2. Append(byParent[n.parent], n.id) \in Seq(Ids)
    BY <1>1, <1>2, <2>1
  <2>3. QED
    BY <1>2, <1>3, <2>1, <2>2 DEF ChildrenWith
<1>4. QED
  BY <1>1, <1>2, <1>3 DEF RootsWith, ChildrenWith

(* Adding a new node leaves every root a node that is nobody's child. *)
LEMMA AddRooted ==
    ASSUME TreeTypeOK, TreeAssumption, RootsAreNodes, NEW n, New(n)
    PROVE  Rooted(nodes \union {n}, ChildrenWith(n), RootsWith(n))
<1>1. /\ n \in Nodes
      /\ n.id \in Ids /\ n.parent \in Ids \union {NoParent}
      /\ n.id \notin ToSet(roots)
      /\ \A p \in Ids : n.id \notin ToSet(byParent[p])
  BY DEF New, Nodes, Seen
<1>2. roots \in Seq(Ids) /\ byParent \in [Ids -> Seq(Ids)]
  BY DEF TreeTypeOK
<1>3. CASE n.parent = NoParent
  <2>1. RootsWith(n) = Append(roots, n.id) /\ ChildrenWith(n) = byParent
    BY <1>3 DEF RootsWith, ChildrenWith
  <2>2. ToSet(Append(roots, n.id)) = ToSet(roots) \union {n.id}
    BY <1>1, <1>2, AppendSet
  <2>3. /\ Len(Append(roots, n.id)) = Len(roots) + 1
        /\ Append(roots, n.id)[Len(roots) + 1] = n.id
        /\ \A i \in 1..Len(roots) : Append(roots, n.id)[i] = roots[i]
        /\ Len(roots) \in Nat
    BY <1>1, <1>2
  <2>4. \A i \in 1..Len(roots) : roots[i] # n.id
    BY <1>1, <1>2 DEF ToSet
  <2> DEFINE rs == Append(roots, n.id)
  <2>5. \A i \in 1..Len(rs) : \E e \in nodes \union {n} : e.id = rs[i] /\ e.parent = NoParent
    <3> TAKE i \in 1..Len(rs)
    <3>1. CASE i = Len(roots) + 1
      BY <1>3, <2>3, <3>1
    <3>2. CASE i \in 1..Len(roots)
      BY <2>3, <3>2 DEF RootsAreNodes
    <3>3. QED
      BY <2>3, <3>1, <3>2
  <2>6. \A i, j \in 1..Len(rs) : rs[i] = rs[j] => i = j
    <3> TAKE i, j \in 1..Len(rs)
    <3> HAVE rs[i] = rs[j]
    <3>1. CASE i \in 1..Len(roots) /\ j \in 1..Len(roots)
      BY <2>3, <3>1 DEF RootsAreNodes
    <3>2. CASE i = Len(roots) + 1 \/ j = Len(roots) + 1
      BY <2>3, <2>4, <3>2
    <3>3. QED
      BY <2>3, <3>1, <3>2
  <2>7. \A p \in Ids : ToSet(rs) \intersect ToSet(byParent[p]) = {}
    BY <1>1, <2>2 DEF RootsAreNodes
  <2>8. QED
    BY <2>1, <2>5, <2>6, <2>7 DEF Rooted
<1>4. CASE n.parent # NoParent
  <2>1. n.parent \in Ids
    BY <1>1, <1>4
  <2>2. /\ RootsWith(n) = roots
        /\ ChildrenWith(n) = [byParent EXCEPT ![n.parent] = Append(byParent[n.parent], n.id)]
    BY <1>4 DEF RootsWith, ChildrenWith
  <2>3. \A p \in Ids : ToSet(ChildrenWith(n)[p]) \subseteq ToSet(byParent[p]) \union {n.id}
    <3> TAKE p \in Ids
    <3>1. byParent[p] \in Seq(Ids)
      BY <1>2
    <3>2. ToSet(Append(byParent[p], n.id)) = ToSet(byParent[p]) \union {n.id}
      BY <1>1, <3>1, AppendSet
    <3>3. QED
      BY <1>2, <2>1, <2>2, <3>2
  <2>4. QED
    BY <1>1, <2>2, <2>3 DEF RootsAreNodes, Rooted
<1>5. QED
  BY <1>3, <1>4

(* Evicting the oldest root leaves the other roots and their nodes: they   *)
(* hang below nobody, so they are not reached.                             *)
LEMMA EvictRooted ==
    ASSUME NEW ns, NEW children \in [Ids -> Seq(Ids)], NEW rs \in Seq(Ids),
           rs # <<>>, Rooted(ns, children, rs)
    PROVE  LET gone == Subtree(children, Head(rs))
           IN  Rooted({ n \in ns : n.id \notin gone },
                      [p \in Ids |-> IF p \in gone THEN <<>> ELSE children[p]],
                      Tail(rs))
<1> DEFINE gone == Subtree(children, Head(rs))
           left == { n \in ns : n.id \notin gone }
           lists == [p \in Ids |-> IF p \in gone THEN <<>> ELSE children[p]]
<1>1. /\ Len(rs) \in Nat \ {0} /\ Len(Tail(rs)) = Len(rs) - 1
      /\ Head(rs) = rs[1]
      /\ \A i \in 1..Len(rs) - 1 : Tail(rs)[i] = rs[i + 1]
      /\ \A i \in 1..Len(rs) : rs[i] \in Ids
      /\ Tail(rs) \in Seq(Ids)
  OBVIOUS
<1>2. \A i \in 1..Len(rs) - 1 : Tail(rs)[i] \notin gone
  <2> TAKE i \in 1..Len(rs) - 1
  <2> DEFINE C == Ids \ {rs[i + 1]}
  <2>1. rs[i + 1] # rs[1]
    BY <1>1 DEF Rooted
  <2>2. Closed(Links(children), C)
    <3>1. \A link \in Links(children) : link[2] \in Ids /\ link[2] # rs[i + 1]
      <4> TAKE link \in Links(children)
      <4>1. link[1] \in Ids /\ link[2] \in Ids /\ link[2] \in ToSet(children[link[1]])
        BY DEF Links
      <4>2. rs[i + 1] \in ToSet(rs)
        BY <1>1 DEF ToSet
      <4>3. QED
        BY <4>1, <4>2 DEF Rooted
    <3>2. QED
      BY <3>1 DEF Closed
  <2>3. rs[1] \in C /\ C \in SUBSET Ids
    BY <1>1, <2>1
  <2> HIDE DEF C
  <2>4. Reach(Links(children), Ids, rs[1]) \subseteq C
    BY <2>2, <2>3, ReachLeast
  <2>5. QED
    BY <1>1, <2>4 DEF Subtree, C
<1> HIDE DEF gone
<1>3. \A i \in 1..Len(Tail(rs)) :
          \E n \in left : n.id = Tail(rs)[i] /\ n.parent = NoParent
  <2> TAKE i \in 1..Len(Tail(rs))
  <2>1. i + 1 \in 1..Len(rs) /\ Tail(rs)[i] = rs[i + 1] /\ Tail(rs)[i] \notin gone
    BY <1>1, <1>2
  <2>2. QED
    BY <2>1 DEF Rooted
<1>4. \A i, j \in 1..Len(Tail(rs)) : Tail(rs)[i] = Tail(rs)[j] => i = j
  <2> TAKE i, j \in 1..Len(Tail(rs))
  <2>1. /\ i + 1 \in 1..Len(rs) /\ Tail(rs)[i] = rs[i + 1]
        /\ j + 1 \in 1..Len(rs) /\ Tail(rs)[j] = rs[j + 1]
        /\ i \in Nat /\ j \in Nat
    BY <1>1
  <2>2. rs[i + 1] = rs[j + 1] => i + 1 = j + 1
    BY <2>1 DEF Rooted
  <2>3. QED
    BY <2>1, <2>2
<1>5. \A p \in Ids : ToSet(Tail(rs)) \intersect ToSet(lists[p]) = {}
  <2> TAKE p \in Ids
  <2>1. ToSet(Tail(rs)) \subseteq ToSet(rs)
    BY <1>1 DEF ToSet
  <2>2. ToSet(<<>>) = {}
    BY DEF ToSet
  <2>3. ToSet(lists[p]) \subseteq ToSet(children[p])
    BY <2>2
  <2>4. QED
    BY <2>1, <2>3 DEF Rooted
<1>6. Rooted(left, lists, Tail(rs))
  BY <1>3, <1>4, <1>5 DEF Rooted
<1>7. QED
  BY <1>6 DEF gone

-----------------------------------------------------------------------------
(* A new node is kept, or makes the oldest root and what hangs below it    *)
(* go; either way there is room again or no root is left.                  *)
LEMMA AddStep ==
    ASSUME TreeAssumption, TreeInv, NEW n, New(n), addNode(n)
    PROVE  TreeInv'
<1> DEFINE ns == nodes \union {n}
           rs == RootsWith(n)
           children == ChildrenWith(n)
<1>1. TreeTypeOK /\ IsFiniteSet(nodes) /\ WithinLimit /\ RootsAreNodes /\ n \in Nodes
  BY DEF TreeInv, New
<1>2. rs \in Seq(Ids) /\ children \in [Ids -> Seq(Ids)]
  BY <1>1, AddTyped
<1>3. Rooted(ns, children, rs)
  BY <1>1, AddRooted
<1>4. ns \subseteq Nodes
  BY <1>1 DEF TreeTypeOK
<1>5. n \notin nodes
  BY DEF New, Seen, Recorded
<1>6. /\ IsFiniteSet(ns) /\ Cardinality(ns) = Cardinality(nodes) + 1
      /\ Cardinality(nodes) \in Nat /\ Limit \in Nat
  BY <1>1, <1>5, FS_AddElement, FS_CardinalityType DEF TreeAssumption
<1>7. Cardinality(nodes) <= Limit \/ roots = <<>>
  BY <1>1 DEF WithinLimit
<1> HIDE DEF ns, rs, children
<1>8. CASE Keep(n) /\ ~(Cardinality(ns) > Limit /\ rs # <<>>)
  <2>1. nodes' = ns /\ byParent' = children /\ roots' = rs
    BY <1>8 DEF Keep, ns, rs, children
  <2>2. TreeTypeOK' /\ IsFiniteSet(nodes)'
    BY <1>2, <1>4, <1>6, <2>1 DEF TreeTypeOK
  <2>3. RootsAreNodes'
    BY <1>3, <2>1 DEF Rooted, RootsAreNodes
  <2>4. WithinLimit'
    BY <1>6, <1>8, <2>1 DEF WithinLimit
  <2>5. QED
    BY <2>2, <2>3, <2>4 DEF TreeInv
<1>9. CASE Evict(n) /\ rs # <<>>
  <2> DEFINE gone == Subtree(children, Head(rs))
             left == { e \in ns : e.id \notin gone }
             lists == [p \in Ids |-> IF p \in gone THEN <<>> ELSE children[p]]
  <2>1. nodes' = left /\ byParent' = lists /\ roots' = Tail(rs)
    BY <1>9 DEF Evict, removeSubtree, ns, rs, children
  <2>2. Rooted(left, lists, Tail(rs))
    BY <1>2, <1>3, <1>9, EvictRooted
  <2>3. /\ Head(rs) = rs[1] /\ 1 \in 1..Len(rs) /\ Head(rs) \in Ids
        /\ Tail(rs) \in Seq(Ids)
    BY <1>2, <1>9
  <2>4. Head(rs) \in gone
    BY <2>3, ReachStart DEF Subtree
  <2> HIDE DEF gone
  <2>5. TreeTypeOK'
    <3>1. lists \in [Ids -> Seq(Ids)]
      BY <1>2
    <3>2. QED
      BY <1>4, <2>1, <2>3, <3>1 DEF TreeTypeOK
  <2>6. RootsAreNodes'
    BY <2>1, <2>2 DEF Rooted, RootsAreNodes
  <2>7. PICK e \in ns : e.id = Head(rs)
    BY <1>3, <2>3 DEF Rooted
  <2>8. left \subseteq ns \ {e}
    BY <2>4, <2>7
  <2>9. IsFiniteSet(ns \ {e}) /\ Cardinality(ns \ {e}) = Cardinality(nodes)
    <3>1. IsFiniteSet(ns \ {e}) /\ Cardinality(ns \ {e}) = Cardinality(ns) - 1
      BY <1>6, <2>7, FS_RemoveElement
    <3>2. QED
      BY <1>6, <3>1
  <2>10. IsFiniteSet(left) /\ Cardinality(left) <= Cardinality(nodes)
    BY <2>8, <2>9, FS_Subset
  <2>11. Cardinality(left) \in Nat
    BY <2>10, FS_CardinalityType
  <2>12. roots = <<>> => Tail(rs) = <<>>
    BY <1>9 DEF rs, RootsWith
  <2> HIDE DEF left
  <2>13. WithinLimit'
    BY <1>6, <1>7, <2>1, <2>10, <2>11, <2>12 DEF WithinLimit
  <2>14. QED
    BY <2>1, <2>5, <2>6, <2>10, <2>13 DEF TreeInv
<1>10. QED
  BY <1>8, <1>9 DEF addNode, ns, rs

(* A step shows the tree no id but that of the node it adds. *)
LEMMA SeenGrows ==
    ASSUME TreeTypeOK, NEW n \in Nodes, addNode(n)
    PROVE  Seen' \subseteq Seen \union {n.id}
<1> DEFINE rs == RootsWith(n)
           children == ChildrenWith(n)
<1>1. n.id \in Ids /\ n.parent \in Ids \union {NoParent}
  BY DEF Nodes
<1>2. roots \in Seq(Ids) /\ byParent \in [Ids -> Seq(Ids)]
  BY DEF TreeTypeOK
<1>3. rs \in Seq(Ids) /\ children \in [Ids -> Seq(Ids)]
  BY AddTyped
<1>4. ToSet(rs) \subseteq ToSet(roots) \union {n.id}
  BY <1>1, <1>2, AppendSet DEF RootsWith
<1>5. \A p \in Ids : ToSet(children[p]) \subseteq ToSet(byParent[p]) \union {n.id}
  <2> TAKE p \in Ids
  <2>1. CASE n.parent = p
    <3>1. children[p] = Append(byParent[p], n.id) \/ children[p] = byParent[p]
      BY <1>2, <2>1 DEF ChildrenWith
    <3>2. byParent[p] \in Seq(Ids)
      BY <1>2
    <3>3. ToSet(Append(byParent[p], n.id)) = ToSet(byParent[p]) \union {n.id}
      BY <1>1, <3>2, AppendSet
    <3>4. QED
      BY <3>1, <3>3
  <2>2. CASE n.parent # p
    BY <1>1, <1>2, <2>2 DEF ChildrenWith
  <2>3. QED
    BY <2>1, <2>2
<1> HIDE DEF rs, children
<1>6. /\ nodes' \subseteq nodes \union {n}
      /\ ToSet(roots') \subseteq ToSet(rs)
      /\ \A p \in Ids : ToSet(byParent'[p]) \subseteq ToSet(children[p])
  <2>1. CASE Keep(n)
    BY <2>1 DEF Keep, rs, children
  <2>2. CASE Evict(n) /\ rs # <<>>
    <3>1. /\ nodes' \subseteq nodes \union {n}
          /\ byParent' = [p \in Ids |-> IF p \in Subtree(children, Head(rs)) THEN <<>>
                                         ELSE children[p]]
          /\ roots' = Tail(rs)
      BY <2>2 DEF Evict, removeSubtree, rs, children
    <3>2. /\ Len(rs) \in Nat \ {0} /\ Len(Tail(rs)) = Len(rs) - 1
          /\ \A i \in 1..Len(rs) - 1 : Tail(rs)[i] = rs[i + 1]
          /\ Tail(rs) \in Seq(Ids)
      BY <1>3, <2>2
    <3>3. ToSet(Tail(rs)) \subseteq ToSet(rs)
      BY <1>3, <3>2 DEF ToSet
    <3>4. ToSet(<<>>) = {}
      BY DEF ToSet
    <3>5. QED
      BY <3>1, <3>3, <3>4
  <2>3. QED
    BY <2>1, <2>2 DEF addNode, rs
<1>7. QED
  BY <1>4, <1>5, <1>6 DEF Seen, Recorded

(* The empty tree. *)
LEMMA TreeStart == ASSUME TreeAssumption, TreeInit PROVE TreeInv
<1>1. IsFiniteSet({}) /\ Cardinality({}) = 0
  BY FS_EmptySet
<1>2. ToSet(<<>>) = {}
  BY DEF ToSet
<1>3. QED
  BY <1>1, <1>2 DEF TreeInit, TreeInv, TreeTypeOK, WithinLimit, RootsAreNodes,
                    TreeAssumption

(* The invariant is preserved by every step of the tree. *)
LEMMA TreeStep == ASSUME TreeAssumption, TreeInv, [AddNew]_treeVars PROVE TreeInv'
<1>1. CASE AddNew
  <2>1. PICK id \in Ids \ Seen : \E parent \in (Ids \ {id}) \union {NoParent} :
            \E status \in Statuses :
                addNode([id |-> id, parent |-> parent, status |-> status])
    BY <1>1 DEF AddNew
  <2>2. PICK parent \in (Ids \ {id}) \union {NoParent}, status \in Statuses :
            addNode([id |-> id, parent |-> parent, status |-> status])
    BY <2>1
  <2> DEFINE n == [id |-> id, parent |-> parent, status |-> status]
  <2>3. n \in Nodes /\ n.id = id /\ n.parent = parent
    BY DEF Nodes
  <2>4. New(n)
    BY <2>3 DEF New, TreeAssumption
  <2> HIDE DEF n
  <2>5. addNode(n)
    BY <2>2 DEF n
  <2>6. QED
    BY <2>4, <2>5, AddStep
<1>2. CASE UNCHANGED treeVars
  BY <1>2 DEF treeVars, TreeInv, TreeTypeOK, WithinLimit, RootsAreNodes
<1>3. QED
  BY <1>1, <1>2

(* The tree keeps to its limit as long as it has a root to evict, for every *)
(* limit and every order of nodes (flow.go 151-165).                        *)
THEOREM TreeBounded == TreeSpec => [](WithinLimit /\ RootsAreNodes)
<1>1. TreeInit => TreeInv
  BY TreeStart, TreeAssumption
<1>2. TreeInv /\ [AddNew]_treeVars => TreeInv'
  BY TreeStep, TreeAssumption
<1>3. TreeInv => WithinLimit /\ RootsAreNodes
  BY DEF TreeInv
<1>4. QED
  BY <1>1, <1>2, <1>3, PTL DEF TreeSpec

-----------------------------------------------------------------------------
(* The executions: their invariant.                                        *)

N == Cardinality(Ids)

Over(e) == e.at \in {"recorded", "returned"}

(* A status that agrees with what the caller got, or with a context that   *)
(* has ended.                                                              *)
Honest(e, status, ended) ==
    \/ status = "success" /\ (e.outcome = "value" \/ Skipped(e))
    \/ status = "failed" /\ e.outcome \in {"error", "deadline"}
    \/ status = "cancelled" /\ (e.outcome \in {"cancelled", "deadline"} \/ ended)

(* One execution by itself: the factory outlives the wait of its caller    *)
(* only when the context has ended.                                        *)
Local(e, ended) ==
    /\ e.at \in {"hooks", "enter", "cached"} => e.factory = "none" /\ e.outcome = "none"
    /\ e.at = "cached" => e.status = "success"
    /\ e.at = "wait" => e.factory # "none"
    /\ e.at = "finish" => e.outcome # "none"
    /\ e.factory # "done" => e.result = "none"
    /\ e.factory = "run" /\ e.at # "wait" => ended
    /\ e.at \in {"record", "recorded"} => Honest(e, e.status, ended)

Typed ==
    /\ ctx \in [Clients -> {"live"} \union Endings]
    /\ client \in [Clients -> {"idle", "deps", "done"}]
    /\ execs \in Seq(Executions)
    /\ Len(execs) <= N
    /\ asks \in [Actors -> Asks]

Locals == \A x \in Made : Local(execs[x], Ended(x))

(* A child is made after its parent, with the same context, and by a       *)
(* factory that had started, if by a factory.                              *)
Families ==
    \A x \in Made :
        /\ execs[x].parent # NoParent =>
              /\ execs[x].parent \in 1..(x - 1)
              /\ execs[execs[x].parent].client = execs[x].client
        /\ execs[x].caller \in Ids =>
              execs[x].caller \in Made /\ execs[execs[x].caller].factory # "none"

(* Whoever is in Exec1 is there for an execution it could have, and is a   *)
(* factory that runs, if it is a factory.                                  *)
Valid(a, ask) ==
    /\ ask.at # "none" => /\ ask.on \in Made
                          /\ a \in Ids => a \in Made /\ execs[a].factory = "run"
    /\ ask.at \in {"deps", "mark"} => Out(ask.on)
    /\ ask.at = "mark" => Ended(ask.on)

AsksValid == \A a \in Actors : Valid(a, asks[a])

(* Who made a child waits for it, and for one at a time. *)
Waiting ==
    \A x \in Made : execs[x].caller # NoParent /\ ~Over(execs[x]) =>
        asks[execs[x].caller].at = "child"

OneChild ==
    \A x, y \in Made :
        /\ execs[x].caller # NoParent /\ execs[x].caller = execs[y].caller
        /\ ~Over(execs[x]) /\ ~Over(execs[y])
        => x = y

ExecsInv == Typed /\ Locals /\ Families /\ AsksValid /\ Waiting /\ OneChild

(* What the tree has seen is recorded, as what it is. *)
Agreement ==
    /\ \A x \in Seen : x \in Made /\ execs[x].at = "recorded"
    /\ \A n \in nodes : /\ Honest(execs[n.id], n.status, Ended(n.id))
                        /\ n.parent = execs[n.id].parent

FlowInv == ExecsInv /\ TreeInv /\ Agreement

(* What a step may do to an execution, when now says whether it records    *)
(* it: one whose factory has begun comes back only by being recorded.      *)
Goes(e, f, now) ==
    /\ f.client = e.client /\ f.parent = e.parent /\ f.caller = e.caller
    /\ e.factory # "none" => f.factory # "none"
    /\ Over(e) => f.at = e.at
    /\ e.at = "recorded" => f.outcome = e.outcome /\ (f.factory = "none" <=> e.factory = "none")
    /\ Over(f) => Over(e) \/ now \/ e.factory = "none"

(* And to all of them; an ended context stays as it is. *)
Onward ==
    /\ \A c \in Clients : ctx[c] # "live" => ctx'[c] = ctx[c]
    /\ \A x \in Made : x \in Made' /\ Goes(execs[x], execs'[x], Record(x))

-----------------------------------------------------------------------------
(* Ids are the numbers up to N. *)
LEMMA IdsAreNumbers == N \in Nat /\ Ids = 1..N /\ NoParent = 0
BY FlowAssumption, FS_CardinalityType DEF N, NoParent

(* The executions made have ids. *)
LEMMA MadeAreIds == ASSUME Typed PROVE Made \subseteq Ids /\ Len(execs) \in Nat
BY IdsAreNumbers DEF Typed, Made

(* What was honest stays so. *)
LEMMA StaysHonest ==
    ASSUME NEW e, NEW f, NEW s, NEW now, NEW was, NEW is, e.at = "recorded",
           Goes(e, f, now), Honest(e, s, was), was => is
    PROVE  Honest(f, s, is)
BY DEF Goes, Honest, Skipped

(* Finished and Over are the same. *)
LEMMA FinishedIsOver == ASSUME NEW x PROVE Finished(x) <=> Over(execs[x])
BY DEF Finished, Over

(* What is known of an execution. *)
LEMMA Known ==
    ASSUME ExecsInv, NEW x \in Made
    PROVE  /\ execs[x] \in Executions
           /\ Local(execs[x], Ended(x))
           /\ Reason(x) \in {"live", "cancelled", "deadline"}
           /\ Ended(x) <=> Reason(x) # "live"
<1>1. execs \in Seq(Executions) /\ ctx \in [Clients -> {"live"} \union Endings]
  BY DEF ExecsInv, Typed
<1>2. execs[x] \in Executions
  BY <1>1 DEF Made
<1>3. execs[x].client \in Clients
  BY <1>2 DEF Executions
<1>4. QED
  BY <1>1, <1>2, <1>3, FlowAssumption DEF ExecsInv, Locals, Reason, Ended

(* A context that has ended has ended. *)
LEMMA EndedLasts ==
    ASSUME ExecsInv, Onward, NEW x \in Made PROVE Ended(x) => Ended(x)'
<1>1. execs[x].client \in Clients
  BY Known DEF Executions
<1>2. execs'[x].client = execs[x].client
  BY DEF Onward, Goes
<1>3. QED
  BY <1>1, <1>2 DEF Onward, Ended

-----------------------------------------------------------------------------
(* One execution moves.  Whoever made it stops waiting if it is over, and  *)
(* whoever else stops does not wait for a child.                           *)
LEMMA MoveKeeps ==
    ASSUME ExecsInv, NEW x \in Made, NEW e \in Executions, Move(x, e),
           UNCHANGED <<ctx, client>>,
           Goes(execs[x], e, Record(x)), Local(e, Ended(x)),
           asks' \in [Actors -> Asks],
           \A a \in Actors : asks'[a] = asks[a] \/ asks'[a] = NoAsk,
           \A a \in Actors : asks[a].at = "child" /\ asks'[a] # asks[a] =>
               a = execs[x].caller /\ ~Over(execs[x]) /\ Over(e),
           e.factory = execs[x].factory \/ asks[x].at = "none"
    PROVE  ExecsInv' /\ Onward
<1>1. /\ execs \in Seq(Executions) /\ Len(execs) \in Nat /\ x \in 1..Len(execs)
      /\ execs' = [execs EXCEPT ![x] = e]
  BY MadeAreIds DEF ExecsInv, Typed, Made, Move
<1>2. /\ Len(execs') = Len(execs) /\ execs' \in Seq(Executions)
      /\ execs'[x] = e
      /\ \A y \in 1..Len(execs) : y # x => execs'[y] = execs[y]
  BY <1>1
<1>3. Made' = Made
  BY <1>2 DEF Made
<1>4. \A y \in Made : Goes(execs[y], execs'[y], Record(y))
  <2> TAKE y \in Made
  <2>1. CASE y = x
    BY <1>2, <2>1
  <2>2. CASE y # x
    BY <1>2, <2>2 DEF Goes, Made
  <2>3. QED
    BY <2>1, <2>2
<1>5. \A y \in Made : /\ execs'[y].client = execs[y].client
                      /\ execs'[y].parent = execs[y].parent
                      /\ execs'[y].caller = execs[y].caller
                      /\ execs[y].factory # "none" => execs'[y].factory # "none"
                      /\ Over(execs[y]) => Over(execs'[y])
                      /\ Ended(y)' <=> Ended(y)
  BY <1>4 DEF Goes, Over, Ended
<1>6. Typed'
  BY <1>2 DEF ExecsInv, Typed, N
<1>7. Locals'
  <2> SUFFICES ASSUME NEW y \in Made' PROVE Local(execs'[y], Ended(y)')
    BY DEF Locals
  <2>1. Ended(y)' <=> Ended(y)
    BY <1>3, <1>5
  <2>2. CASE y = x
    BY <1>2, <2>1, <2>2 DEF Local, Honest
  <2>3. CASE y # x
    BY <1>2, <1>3, <2>1, <2>3 DEF ExecsInv, Locals, Made, Local, Honest
  <2>4. QED
    BY <2>2, <2>3
<1>8. \A y \in Made : execs[y].parent # NoParent => execs[y].parent \in Made
  BY <1>1 DEF ExecsInv, Families, Made
<1>9. Families'
  BY <1>3, <1>5, <1>8 DEF ExecsInv, Families
<1>10. AsksValid'
  <2> SUFFICES ASSUME NEW a \in Actors PROVE Valid(a, asks[a])'
    BY DEF AsksValid, Actors
  <2>1. CASE asks'[a] = NoAsk
    BY <2>1 DEF Valid, NoAsk, Asking
  <2>2. CASE asks'[a] = asks[a]
    <3>1. Valid(a, asks[a])
      BY DEF ExecsInv, AsksValid
    <3>2. a \in Made /\ execs[a].factory = "run" /\ asks[a].at # "none" =>
              execs'[a].factory = "run"
      BY <1>2 DEF Made
    <3>3. \A y \in Made : Out(y) => Out(y)'
      BY <1>5 DEF Out, Finished, Over
    <3>4. QED
      BY <1>3, <1>5, <2>2, <3>1, <3>2, <3>3 DEF Valid
  <2>3. QED
    BY <2>1, <2>2
<1>11. \A y \in Made : execs[y].caller # NoParent => execs[y].caller \in Actors
  BY Known DEF Executions
<1>12. Waiting'
  <2> SUFFICES ASSUME NEW y \in Made, execs[y].caller # NoParent, ~Over(execs'[y])
               PROVE  asks'[execs[y].caller].at = "child"
    BY <1>3, <1>5 DEF Waiting
  <2>1. ~Over(execs[y]) /\ asks[execs[y].caller].at = "child"
    BY <1>5 DEF ExecsInv, Waiting
  <2>2. asks'[execs[y].caller] = asks[execs[y].caller]
    <3> SUFFICES ASSUME asks'[execs[y].caller] # asks[execs[y].caller] PROVE FALSE
      OBVIOUS
    <3>1. execs[y].caller = execs[x].caller /\ ~Over(execs[x]) /\ Over(e)
      BY <1>11, <2>1
    <3>2. y = x
      BY <2>1, <3>1 DEF ExecsInv, OneChild
    <3>3. QED
      BY <1>2, <3>1, <3>2
  <2>3. QED
    BY <2>1, <2>2
<1>13. OneChild'
  BY <1>3, <1>5 DEF ExecsInv, OneChild
<1>14. QED
  BY <1>3, <1>4, <1>6, <1>7, <1>9, <1>10, <1>12, <1>13 DEF ExecsInv, Onward

(* An execution is made, by Exec or by somebody who then waits for it.     *)
LEMMA MakeKeeps ==
    ASSUME ExecsInv, NEW e \in Executions, execs' = Append(execs, e), UNCHANGED ctx,
           client' \in [Clients -> {"idle", "deps", "done"}],
           Len(execs) < N, Local(e, ctx[e.client] # "live"),
           e.parent # NoParent => e.parent \in Made /\ execs[e.parent].client = e.client,
           \/ e.caller = NoParent /\ asks' = asks
           \/ /\ e.caller \in Actors /\ asks[e.caller].at = "deps"
              /\ asks' = [asks EXCEPT ![e.caller] = Asking("child", e.parent)]
              /\ e.parent # NoParent
    PROVE  ExecsInv' /\ Onward
<1> DEFINE new == Len(execs) + 1
<1>1. /\ Len(execs) \in Nat /\ N \in Nat /\ new \in Nat
      /\ Made = 1..Len(execs) /\ new \notin Made /\ Made \subseteq Ids
      /\ execs \in Seq(Executions) /\ asks \in [Actors -> Asks]
  BY MadeAreIds, IdsAreNumbers DEF ExecsInv, Made, Typed
<1>2. /\ Len(execs') = new /\ execs' \in Seq(Executions)
      /\ execs'[new] = e
      /\ \A y \in 1..Len(execs) : execs'[y] = execs[y]
  BY <1>1
<1>3. Made' = Made \union {new} /\ new <= N
  BY <1>1, <1>2 DEF Made
<1>4. \A y \in Made : /\ execs'[y] = execs[y]
                      /\ Ended(y)' <=> Ended(y)
                      /\ execs[y].parent # NoParent => execs[y].parent \in Made
                      /\ execs[y].caller \in Actors \union {NoParent}
  <2>1. \A y \in Made : execs[y].parent # NoParent => execs[y].parent \in Made
    BY <1>1 DEF ExecsInv, Families
  <2>2. \A y \in Made : execs[y].caller \in Actors \union {NoParent}
    BY Known DEF Executions
  <2>3. QED
    BY <1>1, <1>2, <2>1, <2>2 DEF Ended
<1>5. \A a \in Actors :
          \/ asks'[a] = asks[a]
          \/ /\ a = e.caller /\ asks[a].at = "deps"
             /\ asks'[a].at = "child" /\ asks'[a].on = e.parent
             /\ e.parent \in Made
  BY <1>1 DEF Asking
<1>6. asks' \in [Actors -> Asks]
  BY <1>1 DEF Asks, Asking
<1>7. e.caller # NoParent => /\ e.caller \in Actors
                             /\ asks[e.caller].at = "deps" /\ asks'[e.caller].at = "child"
  BY <1>1 DEF Asking
<1> HIDE DEF new
<1>8. Typed'
  BY <1>2, <1>3, <1>6 DEF ExecsInv, Typed, N
<1>9. Locals'
  <2> SUFFICES ASSUME NEW y \in Made' PROVE Local(execs'[y], Ended(y)')
    BY DEF Locals
  <2>1. CASE y = new
    BY <1>2, <2>1 DEF Local, Honest, Ended
  <2>2. CASE y \in Made
    <3>1. Local(execs[y], Ended(y))
      BY <2>2 DEF ExecsInv, Locals
    <3>2. execs'[y] = execs[y] /\ (Ended(y)' <=> Ended(y))
      BY <1>4, <2>2
    <3>3. QED
      BY <3>1, <3>2 DEF Local, Honest
  <2>3. QED
    BY <1>3, <2>1, <2>2
<1>10. e.caller \in Ids => e.caller \in Made /\ execs[e.caller].factory = "run"
  BY <1>7, IdsAreNumbers DEF ExecsInv, AsksValid, Valid
<1>11. Families'
  <2> SUFFICES ASSUME NEW y \in Made'
               PROVE  /\ execs'[y].parent # NoParent =>
                            /\ execs'[y].parent \in 1..(y - 1)
                            /\ execs'[execs'[y].parent].client = execs'[y].client
                      /\ execs'[y].caller \in Ids =>
                            /\ execs'[y].caller \in Made'
                            /\ execs'[execs'[y].caller].factory # "none"
    BY DEF Families
  <2>1. CASE y = new
    <3>1. execs'[y] = e
      BY <1>2, <2>1
    <3>2. e.parent # NoParent => /\ e.parent \in 1..(y - 1)
                                 /\ execs'[e.parent].client = e.client
      BY <1>1, <1>4, <2>1 DEF new
    <3>3. e.caller \in Ids => e.caller \in Made' /\ execs'[e.caller].factory # "none"
      BY <1>3, <1>4, <1>10
    <3>4. QED
      BY <3>1, <3>2, <3>3
  <2>2. CASE y \in Made
    <3>1. execs'[y] = execs[y]
      BY <1>4, <2>2
    <3>2. execs[y].parent # NoParent =>
              /\ execs[y].parent \in 1..(y - 1)
              /\ execs'[execs[y].parent].client = execs[y].client
      BY <1>4, <2>2 DEF ExecsInv, Families
    <3>3. execs[y].caller \in Ids =>
              execs[y].caller \in Made' /\ execs'[execs[y].caller].factory # "none"
      BY <1>3, <1>4, <2>2 DEF ExecsInv, Families
    <3>4. QED
      BY <3>1, <3>2, <3>3
  <2>3. QED
    BY <1>3, <2>1, <2>2
<1>12. AsksValid'
  <2> SUFFICES ASSUME NEW a \in Actors PROVE Valid(a, asks[a])'
    BY DEF AsksValid, Actors
  <2>1. Valid(a, asks[a])
    BY DEF ExecsInv, AsksValid
  <2>2. \A y \in Made : Out(y) => Out(y)'
    BY <1>4 DEF Out, Finished
  <2>3. CASE asks'[a] = asks[a]
    BY <1>3, <1>4, <2>1, <2>2, <2>3 DEF Valid
  <2>4. CASE asks[a].at = "deps" /\ asks'[a].at = "child" /\ asks'[a].on \in Made
    BY <1>3, <1>4, <2>1, <2>4 DEF Valid
  <2>5. QED
    BY <1>5, <2>3, <2>4
<1>13. Waiting'
  <2> SUFFICES ASSUME NEW y \in Made', execs'[y].caller # NoParent, ~Over(execs'[y])
               PROVE  asks'[execs'[y].caller].at = "child"
    BY DEF Waiting
  <2>1. CASE y = new
    BY <1>2, <1>7, <2>1
  <2>2. CASE y \in Made
    <3>1. execs'[y] = execs[y] /\ asks[execs[y].caller].at = "child"
      BY <1>4, <2>2 DEF ExecsInv, Waiting
    <3>2. asks'[execs[y].caller].at = "child"
      BY <1>4, <1>5, <2>2, <3>1
    <3>3. QED
      BY <3>1, <3>2
  <2>3. QED
    BY <1>3, <2>1, <2>2
<1>14. OneChild'
  <2>1. \A y \in Made : execs[y].caller # NoParent /\ ~Over(execs[y]) =>
            execs[y].caller # e.caller
    BY <1>7 DEF ExecsInv, Waiting
  <2> SUFFICES ASSUME NEW y \in Made', NEW z \in Made',
                      execs'[y].caller # NoParent, execs'[y].caller = execs'[z].caller,
                      ~Over(execs'[y]), ~Over(execs'[z])
               PROVE  y = z
    BY DEF OneChild
  <2>2. CASE y \in Made /\ z \in Made
    BY <1>4, <2>2 DEF ExecsInv, OneChild
  <2>3. CASE y = new /\ z \in Made
    BY <1>2, <1>4, <2>1, <2>3
  <2>4. CASE z = new /\ y \in Made
    BY <1>2, <1>4, <2>1, <2>4
  <2>5. QED
    BY <1>3, <2>2, <2>3, <2>4
<1>15. Onward
  BY <1>3, <1>4 DEF Onward, Goes
<1>16. QED
  BY <1>8, <1>9, <1>11, <1>12, <1>13, <1>14, <1>15 DEF ExecsInv

(* Nothing is done to the executions: a context ends, or somebody who      *)
(* waits for no child goes on in Exec1.                                    *)
LEMMA AskKeeps ==
    ASSUME ExecsInv, UNCHANGED execs,
           client' \in [Clients -> {"idle", "deps", "done"}],
           ctx' \in [Clients -> {"live"} \union Endings],
           \A c \in Clients : ctx[c] # "live" => ctx'[c] = ctx[c],
           asks' \in [Actors -> Asks],
           \A a \in Actors : \/ asks'[a] = asks[a]
                             \/ asks[a].at # "child" /\ Valid(a, asks'[a])
    PROVE  ExecsInv' /\ Onward
<1>1. execs' = execs /\ Made' = Made /\ execs \in Seq(Executions)
  BY DEF Made, ExecsInv, Typed
<1>2. Onward
  BY <1>1 DEF Onward, Goes
<1>3. \A x \in Made : Ended(x) => Ended(x)'
  BY <1>2, EndedLasts
<1>4. Locals'
  BY <1>1, <1>3 DEF ExecsInv, Locals, Local, Honest
<1>5. AsksValid'
  <2> SUFFICES ASSUME NEW a \in Actors PROVE Valid(a, asks[a])'
    BY DEF AsksValid, Actors
  <2>1. Valid(a, asks'[a])
    BY DEF ExecsInv, AsksValid
  <2>2. \A x : Out(x) => Out(x)'
    BY <1>1 DEF Out, Finished
  <2>3. QED
    BY <1>1, <1>3, <2>1, <2>2 DEF Valid
<1>6. Waiting'
  <2>1. \A x \in Made : execs[x].caller # NoParent => execs[x].caller \in Actors
    BY Known DEF Executions
  <2>2. \A a \in Actors : asks[a].at = "child" => asks'[a] = asks[a]
    OBVIOUS
  <2>3. QED
    BY <1>1, <2>1, <2>2 DEF ExecsInv, Waiting
<1>7. QED
  BY <1>1, <1>2, <1>4, <1>5, <1>6 DEF ExecsInv, Typed, N, Families, OneChild

-----------------------------------------------------------------------------
(* The tree is left alone. *)
LEMMA TreeAlone ==
    ASSUME FlowInv, ExecsInv', Onward, UNCHANGED treeVars
    PROVE  FlowInv'
<1>1. nodes' = nodes /\ byParent' = byParent /\ roots' = roots
  BY DEF treeVars
<1>2. TreeInv'
  BY <1>1 DEF FlowInv, TreeInv, TreeTypeOK, WithinLimit, RootsAreNodes
<1>3. Seen' = Seen
  BY <1>1 DEF Seen, Recorded
<1>4. \A x \in Seen : /\ x \in Made /\ x \in Made' /\ execs'[x].at = "recorded"
                     /\ execs[x].at = "recorded" /\ Goes(execs[x], execs'[x], Record(x))
  BY DEF FlowInv, Agreement, Onward, Goes, Over
<1>5. ASSUME NEW n \in nodes
      PROVE  Honest(execs'[n.id], n.status, Ended(n.id)') /\ n.parent = execs'[n.id].parent
  <2>1. n.id \in Seen
    BY DEF Seen, Recorded
  <2>2. Ended(n.id) => Ended(n.id)'
    BY <1>4, <2>1, EndedLasts DEF FlowInv
  <2>3. Honest(execs[n.id], n.status, Ended(n.id)) /\ n.parent = execs[n.id].parent
    BY DEF FlowInv, Agreement
  <2>4. execs'[n.id].parent = execs[n.id].parent
    BY <1>4, <2>1 DEF Goes
  <2>5. QED
    BY <1>4, <2>1, <2>2, <2>3, <2>4, StaysHonest
<1>6. Agreement'
  BY <1>1, <1>3, <1>4, <1>5 DEF Agreement
<1>7. QED
  BY <1>2, <1>6 DEF FlowInv

(* An execution moves and nobody else. *)
LEMMA QuietKeeps ==
    ASSUME FlowInv, NEW x \in Made, NEW e \in Executions, Move(x, e),
           UNCHANGED <<ctx, client, asks, treeVars>>,
           Goes(execs[x], e, Record(x)), Local(e, Ended(x)),
           e.factory = execs[x].factory \/ asks[x].at = "none"
    PROVE  FlowInv' /\ Onward
<1>1. ExecsInv /\ asks \in [Actors -> Asks] /\ asks' = asks
  BY DEF FlowInv, ExecsInv, Typed
<1>2. ExecsInv' /\ Onward
  BY <1>1, MoveKeeps
<1>3. QED
  BY <1>2, TreeAlone

(* An execution comes back to its caller. *)
LEMMA ReturnKeeps ==
    ASSUME ExecsInv, NEW x \in Made, NEW e \in Executions, Returned(x, e),
           UNCHANGED <<ctx, client>>, ~Over(execs[x]), Over(e),
           Goes(execs[x], e, Record(x)), Local(e, Ended(x)),
           e.factory = execs[x].factory
    PROVE  ExecsInv' /\ Onward
<1>1. asks \in [Actors -> Asks] /\ NoAsk \in Asks /\ e.caller = execs[x].caller
  BY DEF ExecsInv, Typed, NoAsk, Asking, Asks, Goes
<1>2. Move(x, e) /\ asks' = IF e.caller = NoParent THEN asks ELSE [asks EXCEPT ![e.caller] = NoAsk]
  BY DEF Returned
<1>3. /\ asks' \in [Actors -> Asks]
      /\ \A a \in Actors : asks'[a] = asks[a] \/ (asks'[a] = NoAsk /\ a = execs[x].caller)
  BY <1>1, <1>2
<1>4. QED
  BY <1>2, <1>3, MoveKeeps

-----------------------------------------------------------------------------
(* The steps of a caller that leave it waiting. *)
LEMMA WaitingSteps ==
    ASSUME FlowInv, NEW x \in Made,
           Enter(x) \/ Skip(x) \/ EnterCancelled(x) \/ Start(x) \/ Receive(x) \/ GiveUp(x)
               \/ Finish(x)
    PROVE  FlowInv' /\ Onward
<1> DEFINE f == execs[x]
<1>1. /\ f \in Executions /\ Local(f, Ended(x)) /\ ExecsInv /\ x \in Ids
      /\ Reason(x) \in {"live", "cancelled", "deadline"} /\ (Ended(x) <=> Reason(x) # "live")
  BY Known, MadeAreIds DEF FlowInv, ExecsInv
<1>2. CASE Enter(x)
  <2> DEFINE e == [f EXCEPT !.at = "enter"]
  <2>1. Move(x, e) /\ UNCHANGED <<ctx, client, asks, treeVars>>
    BY <1>2 DEF Enter
  <2>2. e \in Executions /\ Local(e, Ended(x)) /\ Goes(f, e, Record(x)) /\ e.factory = f.factory
    BY <1>1, <1>2, FlowAssumption DEF Enter, Executions, Outcomes, Local, Goes, Over, Honest
  <2>3. QED
    BY <2>1, <2>2, QuietKeeps
<1>3. CASE Skip(x)
  <2> DEFINE e == [f EXCEPT !.at = "cached", !.status = "success"]
  <2>1. Move(x, e) /\ UNCHANGED <<ctx, client, asks, treeVars>>
    BY <1>3 DEF Skip
  <2>2. e \in Executions /\ Local(e, Ended(x)) /\ Goes(f, e, Record(x)) /\ e.factory = f.factory
    BY <1>1, <1>3, FlowAssumption DEF Skip, Executions, Outcomes, Local, Goes, Over, Honest
  <2>3. QED
    BY <2>1, <2>2, QuietKeeps
<1>4. CASE EnterCancelled(x)
  <2> DEFINE e == [f EXCEPT !.at = "finish", !.outcome = Reason(x), !.status = "cancelled"]
  <2>1. Move(x, e) /\ UNCHANGED <<ctx, client, asks, treeVars>>
    BY <1>4 DEF EnterCancelled
  <2>2. e \in Executions /\ Local(e, Ended(x)) /\ Goes(f, e, Record(x)) /\ e.factory = f.factory
    BY <1>1, <1>4, FlowAssumption
       DEF EnterCancelled, Executions, Outcomes, Local, Goes, Over, Honest
  <2>3. QED
    BY <2>1, <2>2, QuietKeeps
<1>5. CASE Start(x)
  <2> DEFINE e == [f EXCEPT !.at = "wait", !.factory = "run"]
  <2>1. Move(x, e) /\ UNCHANGED <<ctx, client, asks, treeVars>>
    BY <1>5 DEF Start
  <2>2. e \in Executions /\ Local(e, Ended(x)) /\ Goes(f, e, Record(x))
    BY <1>1, <1>5, FlowAssumption DEF Start, Executions, Outcomes, Local, Goes, Over, Honest
  <2>3. f.factory = "none"
    BY <1>1, <1>5 DEF Start, Local
  <2>4. asks[x].at = "none"
    BY <1>1, <2>3 DEF ExecsInv, AsksValid, Valid, Actors
  <2>5. QED
    BY <2>1, <2>2, <2>4, QuietKeeps
<1>6. CASE Receive(x)
  <2> DEFINE e == [f EXCEPT !.at = "finish", !.outcome = f.result, !.result = "none"]
  <2>1. Move(x, e) /\ UNCHANGED <<ctx, client, asks, treeVars>>
    BY <1>6 DEF Receive
  <2>2. e \in Executions /\ Local(e, Ended(x)) /\ Goes(f, e, Record(x)) /\ e.factory = f.factory
    BY <1>1, <1>6, FlowAssumption DEF Receive, Executions, Outcomes, Local, Goes, Over, Honest
  <2>3. QED
    BY <2>1, <2>2, QuietKeeps
<1>7. CASE GiveUp(x)
  <2> DEFINE e == [f EXCEPT !.at = "finish", !.outcome = Reason(x), !.result = "none",
                            !.status = "cancelled"]
  <2>1. Move(x, e) /\ UNCHANGED <<ctx, client, asks, treeVars>>
    BY <1>7 DEF GiveUp
  <2>2. e \in Executions /\ Local(e, Ended(x)) /\ Goes(f, e, Record(x)) /\ e.factory = f.factory
    BY <1>1, <1>7, FlowAssumption DEF GiveUp, Executions, Outcomes, Local, Goes, Over, Honest
  <2>3. QED
    BY <2>1, <2>2, QuietKeeps
<1>8. CASE Finish(x)
  <2> DEFINE e == [f EXCEPT !.at = "record", !.status = FinalStatus(f.outcome)]
  <2>1. Move(x, e) /\ UNCHANGED <<ctx, client, asks, treeVars>>
    BY <1>8 DEF Finish
  <2>2. FinalStatus(f.outcome) \in Statuses /\ Honest(e, FinalStatus(f.outcome), Ended(x))
    BY <1>1, <1>8, FlowAssumption
       DEF Finish, Executions, Outcomes, Local, FinalStatus, Honest, Skipped
  <2>3. e \in Executions /\ Local(e, Ended(x)) /\ Goes(f, e, Record(x)) /\ e.factory = f.factory
    BY <1>1, <1>8, <2>2 DEF Finish, Executions, Local, Goes, Over
  <2>4. QED
    BY <2>1, <2>3, QuietKeeps
<1>9. QED
  BY <1>2, <1>3, <1>4, <1>5, <1>6, <1>7, <1>8

(* The steps with which it comes back unrecorded, and the end of one that  *)
(* was skipped.                                                            *)
LEMMA ReturnSteps ==
    ASSUME FlowInv, NEW x \in Made, StartFails(x) \/ StartCancelled(x) \/ CachedEnd(x)
    PROVE  FlowInv' /\ Onward
<1> DEFINE f == execs[x]
           e(s) == [f EXCEPT !.at = "returned", !.status = s]
           g == [f EXCEPT !.at = "record"]
<1>1. f \in Executions /\ Local(f, Ended(x)) /\ ExecsInv
  BY Known DEF FlowInv
<1>2. ASSUME NEW s \in {"failed", "cancelled"}, f.at \in {"hooks", "cached"},
             Returned(x, e(s)), UNCHANGED <<ctx, client, treeVars>>
      PROVE  FlowInv' /\ Onward
  <2>1. /\ e(s) \in Executions /\ Local(e(s), Ended(x)) /\ Goes(f, e(s), Record(x))
        /\ e(s).factory = f.factory /\ ~Over(f) /\ Over(e(s))
    BY <1>1, <1>2, FlowAssumption DEF Executions, Local, Goes, Over
  <2>2. ExecsInv' /\ Onward
    BY <1>1, <1>2, <2>1, ReturnKeeps
  <2>3. QED
    BY <1>2, <2>2, TreeAlone
<1>3. ASSUME f.at = "cached", Move(x, g), UNCHANGED <<ctx, client, asks, treeVars>>
      PROVE  FlowInv' /\ Onward
  <2>1. g \in Executions /\ Local(g, Ended(x)) /\ Goes(f, g, Record(x)) /\ g.factory = f.factory
    BY <1>1, <1>3 DEF Executions, Local, Goes, Over, Honest, Skipped
  <2>2. QED
    BY <1>3, <2>1, QuietKeeps
<1>4. QED
  BY <1>2, <1>3 DEF StartFails, StartCancelled, CachedEnd

(* What an execution that ends is recorded as. *)
NodeOf(x) == [id |-> x, parent |-> execs[x].parent, status |-> execs[x].status]

(* Its id is new to the tree. *)
LEMMA NodeIsNew ==
    ASSUME FlowInv, NEW x \in Made, execs[x].at = "record" PROVE New(NodeOf(x))
<1>1. /\ Made \subseteq Ids /\ ExecsInv /\ execs[x] \in Executions
      /\ x \in 1..Len(execs) /\ Len(execs) \in Nat
  BY MadeAreIds, Known DEF FlowInv, ExecsInv, Made
<1>2. NodeOf(x) \in Nodes /\ NodeOf(x).id = x /\ NodeOf(x).parent = execs[x].parent
  BY <1>1 DEF NodeOf, Nodes, Executions
<1>3. x \notin Seen
  BY DEF FlowInv, Agreement
<1>4. execs[x].parent # x
  <2>1. CASE execs[x].parent = NoParent
    BY <1>1, <2>1 DEF NoParent
  <2>2. CASE execs[x].parent # NoParent
    BY <1>1, <2>2 DEF ExecsInv, Families
  <2>3. QED
    BY <2>1, <2>2
<1>5. QED
  BY <1>2, <1>3, <1>4 DEF New

(* The execution is recorded. *)
LEMMA RecordKeeps == ASSUME FlowInv, NEW x \in Made, Record(x) PROVE FlowInv' /\ Onward
<1> DEFINE f == execs[x]
           e == [f EXCEPT !.at = "recorded"]
           n == NodeOf(x)
<1>1. f \in Executions /\ Local(f, Ended(x)) /\ ExecsInv
  BY Known DEF FlowInv
<1>2. Returned(x, e) /\ addNode(n) /\ UNCHANGED <<ctx, client>>
  BY DEF Record, NodeOf
<1>3. /\ e \in Executions /\ Local(e, Ended(x)) /\ Goes(f, e, Record(x))
      /\ e.factory = f.factory /\ ~Over(f) /\ Over(e)
      /\ e.at = "recorded" /\ e.parent = f.parent /\ e.client = f.client
      /\ Honest(e, f.status, Ended(x))
  BY <1>1 DEF Record, Executions, Local, Goes, Over, Honest, Skipped
<1>4. New(n) /\ n.id = x /\ n.status = f.status /\ n.parent = f.parent
  BY NodeIsNew DEF NodeOf, Record
<1> HIDE DEF e, n
<1>5. ExecsInv' /\ Onward
  BY <1>1, <1>2, <1>3, ReturnKeeps
<1>6. TreeInv'
  BY <1>2, <1>4, AddStep, TreeAssumption DEF FlowInv
<1>7. x \in Made' /\ execs'[x] = e
  BY <1>1, <1>2, <1>5 DEF Returned, Move, ExecsInv, Typed, Made, Onward
<1>8. Seen' \subseteq Seen \union {x}
  BY <1>2, <1>4, SeenGrows DEF FlowInv, TreeInv, New
<1>9. \A y \in Seen : /\ y \in Made /\ y \in Made' /\ execs[y].at = "recorded"
                      /\ execs'[y].at = "recorded" /\ Goes(execs[y], execs'[y], Record(y))
  BY <1>5 DEF FlowInv, Agreement, Onward, Goes, Over
<1>10. \A y \in Seen' : y \in Made' /\ execs'[y].at = "recorded"
  BY <1>3, <1>7, <1>8, <1>9
<1>11. nodes' \subseteq nodes \union {n}
  BY <1>2 DEF addNode, Keep, Evict, removeSubtree
<1>12. ASSUME NEW m \in nodes
       PROVE  Honest(execs'[m.id], m.status, Ended(m.id)') /\ m.parent = execs'[m.id].parent
  <2>1. m.id \in Seen
    BY DEF Seen, Recorded
  <2>2. Ended(m.id) => Ended(m.id)'
    BY <1>1, <1>5, <1>9, <2>1, EndedLasts
  <2>3. Honest(execs[m.id], m.status, Ended(m.id)) /\ m.parent = execs[m.id].parent
    BY DEF FlowInv, Agreement
  <2>4. execs'[m.id].parent = execs[m.id].parent
    BY <1>9, <2>1 DEF Goes
  <2>5. QED
    BY <1>9, <2>1, <2>2, <2>3, <2>4, StaysHonest
<1>13. Honest(execs'[x], f.status, Ended(x)') /\ f.parent = execs'[x].parent
  <2>1. Ended(x)' <=> Ended(x)
    BY <1>2, <1>3, <1>7 DEF Ended
  <2>2. QED
    BY <1>3, <1>7, <2>1 DEF Honest
<1>14. Agreement'
  <2> SUFFICES ASSUME NEW m \in nodes'
               PROVE  /\ Honest(execs'[m.id], m.status, Ended(m.id)')
                      /\ m.parent = execs'[m.id].parent
    BY <1>10 DEF Agreement
  <2>1. CASE m \in nodes
    BY <1>12, <2>1
  <2>2. CASE m = n
    BY <1>4, <1>13, <2>2
  <2>3. QED
    BY <1>11, <2>1, <2>2
<1>15. QED
  BY <1>5, <1>6, <1>14 DEF FlowInv

LEMMA CallerKeeps == ASSUME FlowInv, NEW x \in Made, CallerStep(x) PROVE FlowInv' /\ Onward
BY WaitingSteps, ReturnSteps, RecordKeeps DEF CallerStep

-----------------------------------------------------------------------------
(* A factory comes to its end outside Exec1. *)
LEMMA FactoryKeeps ==
    ASSUME FlowInv, NEW x \in Made, FactoryReturn(x) PROVE FlowInv' /\ Onward
<1> DEFINE f == execs[x]
<1>1. f \in Executions /\ Local(f, Ended(x))
  BY Known DEF FlowInv
<1>2. PICK result \in Outcomes \ {"none"} :
          Move(x, [f EXCEPT !.factory = "done",
                            !.result = IF f.at = "wait" THEN result ELSE "none"])
  BY DEF FactoryReturn
<1> DEFINE e == [f EXCEPT !.factory = "done",
                          !.result = IF f.at = "wait" THEN result ELSE "none"]
<1>3. e \in Executions /\ Local(e, Ended(x)) /\ Goes(f, e, Record(x))
  BY <1>1 DEF FactoryReturn, Executions, Outcomes, Local, Goes, Over, Honest, Skipped
<1>4. QED
  BY <1>2, <1>3, QuietKeeps DEF FactoryReturn

(* Exec1 writes the cancellation into the execution it was given. *)
LEMMA MarkKeeps == ASSUME FlowInv, NEW a \in Actors, Mark(a) PROVE FlowInv' /\ Onward
<1> DEFINE x == asks[a].on
           f == execs[x]
           e == [f EXCEPT !.status = "cancelled"]
<1>1. ExecsInv /\ asks \in [Actors -> Asks] /\ asks[a].at = "mark"
  BY DEF FlowInv, ExecsInv, Typed, Mark
<1>2. x \in Made /\ Out(x) /\ Ended(x)
  BY <1>1 DEF ExecsInv, AsksValid, Valid
<1>3. f \in Executions /\ Local(f, Ended(x))
  BY <1>1, <1>2, Known
<1>4. Move(x, e) /\ asks' = [asks EXCEPT ![a] = NoAsk] /\ UNCHANGED <<ctx, client, treeVars>>
  BY DEF Mark, Go
<1>5. /\ e \in Executions /\ Local(e, Ended(x)) /\ Goes(f, e, Record(x))
      /\ e.factory = f.factory
  BY <1>2, <1>3, FlowAssumption DEF Executions, Local, Goes, Over, Honest, Out, Finished
<1>6. /\ asks' \in [Actors -> Asks]
      /\ \A b \in Actors : asks'[b] = asks[b] \/ (asks'[b] = NoAsk /\ b = a)
  BY <1>1, <1>4 DEF NoAsk, Asking, Asks
<1> HIDE DEF e
<1>7. ExecsInv' /\ Onward
  BY <1>1, <1>2, <1>4, <1>5, <1>6, MoveKeeps
<1>8. QED
  BY <1>4, <1>7, TreeAlone

(* Exec1 makes a child. *)
LEMMA LaunchChildKeeps ==
    ASSUME FlowInv, NEW a \in Actors, LaunchChild(a) PROVE FlowInv' /\ Onward
<1> DEFINE x == asks[a].on
           e == Child(a)
<1>1. /\ ExecsInv /\ asks[a].at = "deps" /\ Typed
  BY DEF FlowInv, ExecsInv, LaunchChild
<1>2. x \in Made /\ x \in Ids /\ execs[x] \in Executions
  BY <1>1, Known, MadeAreIds DEF ExecsInv, AsksValid, Valid
<1>3. e = Execution(execs[x].client, x, a, "hooks", "running")
  BY DEF Child
<1>4. /\ e \in Executions /\ e.client = execs[x].client /\ e.parent = x /\ e.caller = a
      /\ Local(e, ctx[e.client] # "live")
  BY <1>2, <1>3, FlowAssumption DEF Execution, Executions, Outcomes, Local
<1>5. /\ execs' = Append(execs, e) /\ asks' = [asks EXCEPT ![a] = Asking("child", x)]
      /\ UNCHANGED <<ctx, client, treeVars>>
  BY DEF LaunchChild, Go
<1>6. Len(execs) < N /\ x # NoParent
  BY <1>2, IdsAreNumbers DEF LaunchChild, HasRoomForChild, HasRoom, N
<1> HIDE DEF e
<1>7. ExecsInv' /\ Onward
  BY <1>1, <1>2, <1>4, <1>5, <1>6, MakeKeeps DEF Typed
<1>8. QED
  BY <1>5, <1>7, TreeAlone

(* The other steps in Exec1. *)
LEMMA AskSteps ==
    ASSUME FlowInv, NEW a \in Actors,
           AskCancelled(a) \/ AskFailed(a) \/ \E x \in Made : Ask(a, x)
    PROVE  FlowInv' /\ Onward
<1>1. ExecsInv /\ Typed /\ Valid(a, asks[a]) /\ asks \in [Actors -> Asks]
  BY DEF FlowInv, ExecsInv, AsksValid, Typed
<1>2. ASSUME NEW ask \in Asks, Go(a, ask), Valid(a, ask), asks[a].at # "child",
             UNCHANGED <<ctx, client, execs, treeVars>>
      PROVE  FlowInv' /\ Onward
  <2>1. /\ asks' \in [Actors -> Asks]
        /\ \A b \in Actors : \/ asks'[b] = asks[b]
                             \/ asks[b].at # "child" /\ Valid(b, asks'[b])
    BY <1>1, <1>2 DEF Go
  <2>2. ExecsInv' /\ Onward
    BY <1>1, <1>2, <2>1, AskKeeps DEF Typed
  <2>3. QED
    BY <1>2, <2>2, TreeAlone
<1>3. CASE AskCancelled(a)
  <2> DEFINE ask == Asking("mark", asks[a].on)
  <2>1. ask \in Asks /\ Valid(a, ask)
    BY <1>1, <1>3 DEF AskCancelled, Asking, Asks, Valid
  <2>2. QED
    BY <1>2, <1>3, <2>1 DEF AskCancelled
<1>4. CASE AskFailed(a)
  <2>1. NoAsk \in Asks /\ Valid(a, NoAsk)
    BY DEF NoAsk, Asking, Asks, Valid
  <2>2. QED
    BY <1>2, <1>4, <2>1 DEF AskFailed
<1>5. ASSUME NEW x \in Made, Ask(a, x) PROVE FlowInv' /\ Onward
  <2> DEFINE ask == Asking("deps", x)
  <2>1. x \in Ids
    BY <1>1, MadeAreIds
  <2>2. ask \in Asks /\ Valid(a, ask)
    BY <1>5, <2>1 DEF Ask, MayAsk, Asking, Asks, Valid
  <2>3. QED
    BY <1>2, <1>5, <2>2 DEF Ask, MayAsk
<1>6. QED
  BY <1>3, <1>4, <1>5

-----------------------------------------------------------------------------
(* A client makes a root. *)
LEMMA RootKeeps ==
    ASSUME FlowInv, NEW c \in Clients, Launch(c) \/ CallCancelled(c)
    PROVE  FlowInv' /\ Onward
<1>1. ExecsInv /\ Typed
  BY DEF FlowInv, ExecsInv
<1>2. PICK e \in { Execution(c, NoParent, NoParent, "hooks", "running"),
                   Execution(c, NoParent, NoParent, "returned", "cancelled") } :
          execs' = Append(execs, e)
  BY DEF Launch, CallCancelled
<1>3. /\ HasRoom /\ client' = [client EXCEPT ![c] = "done"]
      /\ UNCHANGED <<ctx, asks, treeVars>>
  BY DEF Launch, CallCancelled
<1>4. /\ e \in Executions /\ e.client = c /\ e.parent = NoParent /\ e.caller = NoParent
      /\ Local(e, ctx[e.client] # "live")
  BY <1>2, FlowAssumption DEF Execution, Executions, Outcomes, Local
<1>5. Len(execs) < N /\ client' \in [Clients -> {"idle", "deps", "done"}]
  BY <1>1, <1>3 DEF HasRoom, N, Typed
<1>6. ExecsInv' /\ Onward
  BY <1>1, <1>2, <1>3, <1>4, <1>5, MakeKeeps
<1>7. QED
  BY <1>3, <1>6, TreeAlone

(* The other steps of a client and its context. *)
LEMMA ClientKeeps ==
    ASSUME FlowInv, NEW c \in Clients, End(c) \/ Call(c) \/ CallFailed(c)
    PROVE  FlowInv' /\ Onward
<1>1. ExecsInv /\ Typed
  BY DEF FlowInv, ExecsInv
<1>2. /\ UNCHANGED <<execs, asks, treeVars>>
      /\ client' \in [Clients -> {"idle", "deps", "done"}]
      /\ ctx' \in [Clients -> {"live"} \union Endings]
      /\ \A d \in Clients : ctx[d] # "live" => ctx'[d] = ctx[d]
  BY <1>1 DEF End, Call, CallFailed, Typed
<1>3. ExecsInv' /\ Onward
  BY <1>1, <1>2, AskKeeps DEF Typed
<1>4. QED
  BY <1>2, <1>3, TreeAlone

-----------------------------------------------------------------------------
(* Nothing has been executed at the start. *)
LEMMA FlowStart == Init => FlowInv
<1> SUFFICES ASSUME Init PROVE FlowInv
  OBVIOUS
<1>1. execs = <<>> /\ Made = {} /\ Len(execs) = 0
  BY DEF Init, Made
<1>2. ExecsInv
  <2>1. Typed
    BY <1>1, IdsAreNumbers DEF Init, Typed, NoAsk, Asking, Asks
  <2>2. AsksValid
    BY DEF Init, AsksValid, Valid, NoAsk, Asking
  <2>3. QED
    BY <1>1, <2>1, <2>2 DEF ExecsInv, Locals, Families, Waiting, OneChild
<1>3. TreeInv
  BY TreeStart, TreeAssumption DEF Init
<1>4. ToSet(<<>>) = {}
  BY DEF ToSet
<1>5. Seen = {} /\ nodes = {}
  BY <1>4 DEF Init, TreeInit, Seen, Recorded
<1>6. QED
  BY <1>2, <1>3, <1>5 DEF FlowInv, Agreement

(* The invariant is preserved by every step. *)
LEMMA FlowStep == ASSUME FlowInv, [Next]_vars PROVE FlowInv' /\ Onward
<1>1. CASE UNCHANGED vars
  <2>1. ExecsInv /\ Typed
    BY DEF FlowInv, ExecsInv
  <2>2. UNCHANGED <<ctx, client, execs, asks, treeVars>>
    BY <1>1 DEF vars, treeVars
  <2>3. ExecsInv' /\ Onward
    BY <2>1, <2>2, AskKeeps DEF Typed
  <2>4. QED
    BY <2>2, <2>3, TreeAlone
<1>2. ASSUME NEW c \in Clients, End(c) \/ Call(c) \/ ClientStep(c) PROVE FlowInv' /\ Onward
  BY <1>2, RootKeeps, ClientKeeps DEF ClientStep
<1>3. ASSUME NEW a \in Actors, AskStep(a) \/ \E x \in Made : Ask(a, x) PROVE FlowInv' /\ Onward
  BY <1>3, AskSteps, MarkKeeps, LaunchChildKeeps DEF AskStep
<1>4. CASE Next
  BY <1>1, <1>2, <1>3, <1>4, CallerKeeps, FactoryKeeps DEF Next, AllReturned
<1>5. QED
  BY <1>1, <1>4

LEMMA FlowAlways == Spec => []FlowInv
BY FlowStart, FlowStep, PTL DEF Spec

(* Every variable keeps its type (flow.go 42-48, 107-128). *)
THEOREM TypeCorrect == Spec => []TypeOK
<1>1. FlowInv => TypeOK
  BY DEF FlowInv, ExecsInv, Typed, TreeInv, TypeOK, N
<1>2. QED
  BY <1>1, FlowAlways, PTL

(* As long as its context lives an execution comes back after everything   *)
(* its own factory started, on it or on any other of the same context      *)
(* (flow.go 440, 509-533).                                                 *)
THEOREM RecordedInOrder == Spec => []ChildrenFirst
<1>1. FlowInv => ChildrenFirst
  <2> SUFFICES ASSUME FlowInv, NEW x \in Made, NEW y \in Made,
                      execs[y].caller = x, Finished(x), ~Ended(x), ~Finished(y)
               PROVE  FALSE
    BY DEF ChildrenFirst
  <2>1. ExecsInv /\ Local(execs[x], Ended(x))
    BY Known DEF FlowInv
  <2>2. x # NoParent /\ x \in Ids
    BY <2>1, MadeAreIds DEF ExecsInv, Made, NoParent
  <2>3. asks[x].at = "child"
    BY <2>1, <2>2, FinishedIsOver DEF ExecsInv, Waiting
  <2>4. execs[x].factory = "run"
    BY <2>1, <2>2, <2>3 DEF ExecsInv, AsksValid, Valid, Actors
  <2>5. QED
    BY <2>1, <2>4 DEF Local, Finished
<1>2. QED
  BY <1>1, FlowAlways, PTL

(* The tree says of every execution what its caller was told, or that its  *)
(* context has ended (flow.go 323-325, 420-432, scope.go 496-506).         *)
THEOREM TreeAgrees == Spec => []StatusHonest
<1>1. FlowInv => StatusHonest
  BY DEF FlowInv, Agreement, Honest, StatusHonest
<1>2. QED
  BY <1>1, FlowAlways, PTL

-----------------------------------------------------------------------------
(* What a step does to the tree. *)
LEMMA TreeMoves ==
    ASSUME FlowInv, [Next]_vars
    PROVE  \/ UNCHANGED treeVars
           \/ \E x \in Made : Record(x) /\ New(NodeOf(x)) /\ addNode(NodeOf(x))
<1>1. ASSUME NEW x \in Made, Record(x) PROVE New(NodeOf(x)) /\ addNode(NodeOf(x))
  BY <1>1, NodeIsNew DEF Record, NodeOf
<1>2. ASSUME NEW c \in Clients, End(c) \/ Call(c) \/ ClientStep(c) PROVE UNCHANGED treeVars
  BY <1>2 DEF End, Call, ClientStep, CallCancelled, CallFailed, Launch
<1>3. ASSUME NEW x \in Made, CallerStep(x), ~Record(x) PROVE UNCHANGED treeVars
  BY <1>3 DEF CallerStep, StartFails, StartCancelled, Enter, Skip, CachedEnd,
              EnterCancelled, Start, Receive, GiveUp, Finish
<1>4. ASSUME NEW x \in Made, FactoryReturn(x) PROVE UNCHANGED treeVars
  BY <1>4 DEF FactoryReturn
<1>5. ASSUME NEW a \in Actors, AskStep(a) \/ \E x \in Made : Ask(a, x) PROVE UNCHANGED treeVars
  BY <1>5 DEF AskStep, AskCancelled, Mark, AskFailed, LaunchChild, Ask
<1>6. CASE UNCHANGED vars
  BY <1>6 DEF vars, treeVars
<1>7. QED
  BY <1>1, <1>2, <1>3, <1>4, <1>5, <1>6 DEF Next, AllReturned

(* Every execution is recorded at most once and under an id of its own:    *)
(* what flows do to the tree is what the tree by itself allows.            *)
THEOREM ImplementsTree == Spec => TreeSpec
<1>1. Init => TreeInit
  BY DEF Init
<1>2. ASSUME FlowInv, [Next]_vars PROVE [AddNew]_treeVars
  <2>1. ASSUME NEW x \in Made, New(NodeOf(x)), addNode(NodeOf(x)), treeVars' # treeVars
        PROVE  AddNew
    <3>1. /\ x \in Ids \ Seen /\ execs[x].parent \in (Ids \ {x}) \union {NoParent}
          /\ execs[x].status \in Statuses
      BY <2>1 DEF New, NodeOf, Nodes
    <3>2. QED
      BY <2>1, <3>1 DEF AddNew, NodeOf
  <2>2. QED
    BY <1>2, <2>1, TreeMoves
<1>3. QED
  BY <1>1, <1>2, FlowAlways, PTL DEF Spec, TreeSpec

(* So the tree of a scope keeps to its limit as long as it has a root to   *)
(* evict (flow.go 151-165).                                                *)
THEOREM LimitKept == Spec => [](WithinLimit /\ RootsAreNodes)
BY ImplementsTree, TreeBounded, PTL

-----------------------------------------------------------------------------
(* Nodes keep their parents.                                               *)

(* Every node that is a child is listed. *)
Listed == \A n \in nodes : n.parent # NoParent => n.id \in ToSet(byParent[n.parent])

(* As long as its context lives, a parent that has come back is in the     *)
(* tree when a child is that its factory made.                             *)
ParentsKept ==
    \A n \in nodes :
        /\ n.parent # NoParent /\ execs[n.id].caller = n.parent
        /\ Finished(n.parent) /\ ~Ended(n.id)
        => n.parent \in Recorded

KeptInv == FlowInv /\ Listed /\ ParentsKept

(* A node that is added is listed under its parent, and what an eviction   *)
(* takes away it takes with all that is listed below it.                   *)
LEMMA ListedStep ==
    ASSUME TreeTypeOK, Listed, NEW n \in Nodes, addNode(n)
    PROVE  /\ Listed'
           /\ \A m \in nodes' : m.parent \in Recorded \union {n.id} => m.parent \in Recorded'
<1> DEFINE ns == nodes \union {n}
           children == ChildrenWith(n)
<1>1. n.id \in Ids /\ n.parent \in Ids \union {NoParent}
  BY DEF Nodes
<1>2. byParent \in [Ids -> Seq(Ids)] /\ ns \subseteq Nodes
  BY DEF TreeTypeOK
<1>3. children \in [Ids -> Seq(Ids)] /\ RootsWith(n) \in Seq(Ids)
  BY AddTyped
<1>4. \A p \in Ids : ToSet(byParent[p]) \subseteq ToSet(children[p])
  <2> TAKE p \in Ids
  <2>1. byParent[p] \in Seq(Ids)
    BY <1>2
  <2>2. ToSet(Append(byParent[p], n.id)) = ToSet(byParent[p]) \union {n.id}
    BY <1>1, <2>1, AppendSet
  <2>3. children[p] = Append(byParent[p], n.id) \/ children[p] = byParent[p]
    BY <1>1, <1>2 DEF ChildrenWith
  <2>4. QED
    BY <2>2, <2>3
<1>5. n.parent # NoParent => n.id \in ToSet(children[n.parent])
  <2> HAVE n.parent # NoParent
  <2>1. n.parent \in Ids /\ byParent[n.parent] \in Seq(Ids)
    BY <1>1, <1>2
  <2>2. ToSet(Append(byParent[n.parent], n.id)) = ToSet(byParent[n.parent]) \union {n.id}
    BY <1>1, <2>1, AppendSet
  <2>3. children[n.parent] = Append(byParent[n.parent], n.id)
    BY <1>2, <2>1 DEF ChildrenWith
  <2>4. QED
    BY <2>2, <2>3
<1> HIDE DEF children
<1>6. \A m \in ns : m.parent # NoParent => m.parent \in Ids /\ m.id \in ToSet(children[m.parent])
  <2> TAKE m \in ns
  <2> HAVE m.parent # NoParent
  <2>1. m.parent \in Ids
    BY <1>2 DEF Nodes
  <2>2. QED
    BY <1>4, <1>5, <2>1 DEF Listed
<1>7. CASE Keep(n)
  <2>1. nodes' = ns /\ byParent' = children
    BY <1>7 DEF Keep, children
  <2>2. Listed'
    BY <1>6, <2>1 DEF Listed
  <2>3. Recorded' = Recorded \union {n.id}
    BY <2>1 DEF Recorded
  <2>4. QED
    BY <2>2, <2>3
<1>8. CASE Evict(n) /\ RootsWith(n) # <<>>
  <2> DEFINE r == Head(RootsWith(n))
             gone == Subtree(children, r)
  <2>1. /\ nodes' = { m \in ns : m.id \notin gone }
        /\ byParent' = [p \in Ids |-> IF p \in gone THEN <<>> ELSE children[p]]
    BY <1>8 DEF Evict, removeSubtree, children
  <2>2. r \in Ids
    BY <1>3, <1>8
  <2>3. \A m \in ns : m.parent # NoParent /\ m.parent \in gone => m.id \in gone
    <3> SUFFICES ASSUME NEW m \in ns, m.parent # NoParent, m.parent \in gone
                 PROVE  m.id \in gone
      OBVIOUS
    <3>1. m.id \in Ids /\ m.parent \in Ids /\ m.id \in ToSet(children[m.parent])
      BY <1>2, <1>6 DEF Nodes
    <3>2. Links(children) \in SUBSET (Ids \X Ids) /\ <<m.parent, m.id>> \in Links(children)
      BY <3>1 DEF Links
    <3>3. QED
      BY <2>2, <3>2, ReachStep DEF Subtree
  <2> HIDE DEF gone
  <2>4. Listed'
    <3> SUFFICES ASSUME NEW m \in nodes', m.parent # NoParent
                 PROVE  m.id \in ToSet(byParent'[m.parent])
      BY DEF Listed
    <3>1. m \in ns /\ m.parent \notin gone
      BY <2>1, <2>3
    <3>2. m.parent \in Ids /\ m.id \in ToSet(children[m.parent])
      BY <1>6, <3>1
    <3>3. QED
      BY <2>1, <3>1, <3>2
  <2>5. ASSUME NEW m \in nodes', m.parent \in Recorded \union {n.id}
        PROVE  m.parent \in Recorded'
    <3>1. PICK k \in ns : k.id = m.parent
      BY <2>5 DEF Recorded
    <3>2. m \in ns /\ m.id \notin gone
      BY <2>1
    <3>3. k.id \in Ids
      BY <1>2 DEF Nodes
    <3>4. m.parent # NoParent
      BY <3>1, <3>3, TreeAssumption
    <3>5. k \in nodes'
      BY <2>1, <2>3, <3>1, <3>2, <3>4
    <3>6. QED
      BY <3>1, <3>5 DEF Recorded
  <2>6. QED
    BY <2>4, <2>5
<1>9. QED
  BY <1>7, <1>8 DEF addNode

(* The factory of a parent whose context lives waits until the child it    *)
(* made is recorded; the parent is recorded itself when it comes back, and *)
(* stays in the tree as long as the child does.                            *)
LEMMA ParentsStep ==
    ASSUME KeptInv, [Next]_vars PROVE KeptInv'
<1>1. ExecsInv /\ TreeTypeOK /\ FlowInv /\ FlowInv' /\ Onward
  BY FlowStep DEF KeptInv, FlowInv, TreeInv
<1>2. ASSUME NEW x \in Made, Record(x)
      PROVE  /\ Listed'
             /\ \A m \in nodes' : m.parent \in Recorded \union {x} => m.parent \in Recorded'
             /\ nodes' \subseteq nodes \union {NodeOf(x)}
  <2>1. New(NodeOf(x)) /\ addNode(NodeOf(x)) /\ NodeOf(x).id = x
    BY <1>1, <1>2, NodeIsNew DEF Record, NodeOf
  <2>2. QED
    BY <1>1, <2>1, ListedStep DEF KeptInv, New, addNode, Keep, Evict, removeSubtree
<1>3. (\E x \in Made : Record(x)) \/ UNCHANGED treeVars
  BY <1>1, TreeMoves
<1>4. Listed'
  BY <1>2, <1>3 DEF treeVars, KeptInv, Listed
<1>5. \A y \in Made : /\ execs[y].parent # NoParent => execs[y].parent \in Made
                      /\ execs'[y].caller = execs[y].caller
                      /\ Ended(y) => Ended(y)'
  BY <1>1, MadeAreIds, EndedLasts DEF ExecsInv, Families, Made, Onward, Goes
<1>6. ASSUME NEW y \in Made, Finished(y)', ~Finished(y), execs[y].factory # "none"
      PROVE  Record(y)
  BY <1>1, <1>6 DEF Onward, Goes, Finished, Over
<1>7. ASSUME NEW n \in nodes', n.parent # NoParent, execs'[n.id].caller = n.parent,
             Finished(n.parent)', ~Ended(n.id)'
      PROVE  n.parent \in Recorded'
  <2> DEFINE x == n.id
             p == n.parent
  <2>1. CASE n \in nodes
    <3>1. x \in Made /\ execs[x].parent = p
      BY <1>1, <2>1 DEF FlowInv, Agreement, Seen, Recorded
    <3>2. p \in Made /\ p \in Ids /\ ~Ended(x) /\ execs[x].caller = p
      BY <1>1, <1>5, <1>7, <3>1, MadeAreIds DEF ExecsInv
    <3>3. execs[p].factory # "none"
      BY <1>1, <3>1, <3>2 DEF ExecsInv, Families
    <3>4. CASE Finished(p)
      <4>1. p \in Recorded
        BY <1>7, <2>1, <3>2, <3>4 DEF KeptInv, ParentsKept
      <4>2. QED
        BY <1>2, <1>3, <4>1 DEF treeVars, Recorded
    <3>5. CASE ~Finished(p)
      <4>1. Record(p)
        BY <1>6, <1>7, <3>2, <3>3, <3>5
      <4>2. QED
        BY <1>2, <3>2, <4>1
    <3>6. QED
      BY <3>4, <3>5
  <2>2. CASE n \notin nodes
    <3>1. PICK c \in Made : Record(c) /\ n = NodeOf(c)
      <4>1. nodes' # nodes
        BY <2>2
      <4>2. QED
        BY <1>2, <1>3, <2>2, <4>1 DEF treeVars
    <3>2. x = c /\ execs[c].parent = p /\ execs[c].at = "record"
      BY <3>1 DEF NodeOf, Record
    <3>3. p \in Made /\ p \in Ids /\ ~Ended(c) /\ execs[c].caller = p
      BY <1>1, <1>5, <1>7, <3>2, MadeAreIds DEF ExecsInv
    <3>4. asks[p].at = "child"
      BY <1>1, <1>7, <3>2, <3>3 DEF ExecsInv, Waiting, Over
    <3>5. execs[p].factory = "run"
      BY <1>1, <3>3, <3>4 DEF ExecsInv, AsksValid, Valid, Actors
    <3>6. ~Ended(p)
      BY <1>1, <1>7, <3>2, <3>3 DEF ExecsInv, Families, Ended
    <3>7. execs[p].at = "wait"
      BY <1>1, <3>3, <3>5, <3>6 DEF ExecsInv, Locals, Local
    <3>8. Record(p)
      BY <1>6, <1>7, <3>3, <3>5, <3>7 DEF Finished
    <3>9. QED
      BY <3>7, <3>8 DEF Record
  <2>3. QED
    BY <2>1, <2>2
<1>8. ParentsKept'
  BY <1>7 DEF ParentsKept
<1>9. QED
  BY <1>1, <1>4, <1>8 DEF KeptInv

LEMMA KeptAlways == Spec => []KeptInv
<1>1. Init => KeptInv
  <2> SUFFICES ASSUME Init PROVE KeptInv
    OBVIOUS
  <2>1. FlowInv /\ nodes = {}
    BY FlowStart DEF Init, TreeInit
  <2>2. QED
    BY <2>1 DEF KeptInv, Listed, ParentsKept
<1>2. QED
  BY <1>1, ParentsStep, PTL DEF Spec

(* A node of the tree is listed under its parent; and as long as its       *)
(* context lives and it was made by its parent's own factory, the parent   *)
(* is in the tree once it has come back: an eviction takes both or neither *)
(* (flow.go 139-176).                                                      *)
THEOREM NothingOrphaned == Spec => []NoOrphans
<1>1. KeptInv => NoOrphans
  BY DEF KeptInv, Listed, ParentsKept, NoOrphans
<1>2. QED
  BY <1>1, KeptAlways, PTL
=============================================================================
