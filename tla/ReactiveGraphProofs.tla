------------------------- MODULE ReactiveGraphProofs -------------------------
(***************************************************************************)
(* What graph.go guarantees for any set of executors, any number of        *)
(* walkers and any history of the graph: the two adjacency maps agree,     *)
(* FindDependents returns the executors reachable from its argument, and   *)
(* what the graph debug extension draws is the whole of the graph.         *)
(***************************************************************************)
EXTENDS GraphDebug, ReachabilityProofs, FiniteSetTheorems, WellFoundedInduction

-----------------------------------------------------------------------------
(* Slices.                                                                 *)

(* Appending adds one element. *)
LEMMA ToSetAppend ==
    ASSUME NEW S, NEW s \in Seq(S), NEW x \in S
    PROVE  ToSet(Append(s, x)) = ToSet(s) \union {x}
<1> DEFINE t == Append(s, x)
<1>1. /\ Len(t) = Len(s) + 1
      /\ Len(s) \in Nat
      /\ \A i \in 1..Len(s) : t[i] = s[i]
      /\ t[Len(s) + 1] = x
  OBVIOUS
<1> HIDE DEF t
<1>2. ASSUME NEW y \in ToSet(t) PROVE y \in ToSet(s) \union {x}
  BY <1>1 DEF ToSet
<1>3. ASSUME NEW y \in ToSet(s) PROVE y \in ToSet(t)
  BY <1>1 DEF ToSet
<1>4. x \in ToSet(t)
  BY <1>1 DEF ToSet
<1>5. QED
  BY <1>2, <1>3, <1>4 DEF t

(* Dropping the last element of a slice that is not empty. *)
LEMMA FrontProperties ==
    ASSUME NEW S, NEW s \in Seq(S), s # <<>>
    PROVE  /\ Front(s) \in Seq(S)
           /\ Len(Front(s)) = Len(s) - 1
           /\ Last(s) \in S
           /\ ToSet(s) = ToSet(Front(s)) \union {Last(s)}
<1>1. Len(s) \in Nat /\ Len(s) > 0 /\ s[Len(s)] \in S
  OBVIOUS
<1>2. /\ Front(s) \in Seq(S)
      /\ Len(Front(s)) = Len(s) - 1
      /\ \A i \in 1..(Len(s) - 1) : Front(s)[i] = s[i]
  <2> DEFINE n == Len(s) - 1
  <2>1. n \in Nat /\ n <= Len(s)
    BY <1>1
  <2> HIDE DEF n
  <2>2. /\ SubSeq(s, 1, n) \in Seq(S)
        /\ Len(SubSeq(s, 1, n)) = n
        /\ \A i \in 1..n : SubSeq(s, 1, n)[i] = s[i]
    BY <2>1
  <2>3. QED
    BY <2>2 DEF n, Front
<1>3. Last(s) = s[Len(s)]
  BY DEF Last
<1>4. ToSet(s) = { s[i] : i \in 1..Len(s) }
  BY DEF ToSet
<1>5. ToSet(Front(s)) = { s[i] : i \in 1..(Len(s) - 1) }
  BY <1>1, <1>2 DEF ToSet
<1>6. QED
  BY <1>1, <1>2, <1>3, <1>4, <1>5

(* appendUnique adds the item and never repeats one. *)
LEMMA AppendUniqueProperties ==
    ASSUME NEW S, NEW s \in Seq(S), NEW x \in S
    PROVE  /\ appendUnique(s, x) \in Seq(S)
           /\ ToSet(appendUnique(s, x)) = ToSet(s) \union {x}
           /\ Unique(s) => Unique(appendUnique(s, x))
BY ToSetAppend DEF appendUnique, Unique, ToSet

(* removeElement takes the item out of a slice that holds it at most once. *)
LEMMA RemoveElementProperties ==
    ASSUME NEW S, NEW s \in Seq(S), NEW x \in S, Unique(s)
    PROVE  /\ removeElement(s, x) \in Seq(S)
           /\ ToSet(removeElement(s, x)) = ToSet(s) \ {x}
           /\ Unique(removeElement(s, x))
<1>1. CASE x \notin ToSet(s)
  BY <1>1 DEF removeElement
<1>2. CASE x \in ToSet(s)
  <2> DEFINE i == FirstIndex(s, x)
             r == removeElement(s, x)
  <2>1. i \in 1..Len(s) /\ s[i] = x
    <3>1. PICK k \in 1..Len(s) : s[k] = x
      BY <1>2 DEF ToSet
    <3>2. \A j \in 1..Len(s) : s[j] = x => k <= j
      BY <3>1 DEF Unique
    <3>3. QED
      BY <3>1, <3>2 DEF FirstIndex
  <2>2. Len(s) \in Nat /\ \A k \in 1..Len(s) : s[k] \in S
    OBVIOUS
  <2>3. r = [k \in 1..(Len(s) - 1) |-> IF k < i THEN s[k] ELSE s[k + 1]]
    BY <1>2 DEF removeElement
  <2> HIDE DEF i, r
  <2>4. r \in Seq(S) /\ Len(r) = Len(s) - 1
    BY <2>1, <2>2, <2>3
  <2>5. \A k \in 1..Len(r) : r[k] = IF k < i THEN s[k] ELSE s[k + 1]
    BY <2>2, <2>3, <2>4
  <2>6. ASSUME NEW y \in ToSet(r) PROVE y \in ToSet(s) \ {x}
    BY <2>1, <2>2, <2>4, <2>5 DEF ToSet, Unique
  <2>7. ASSUME NEW y \in ToSet(s), y # x PROVE y \in ToSet(r)
    <3>1. PICK k \in 1..Len(s) : s[k] = y
      BY DEF ToSet
    <3>2. k # i
      BY <2>1, <2>7, <3>1
    <3>3. CASE k < i
      <4>1. k \in 1..Len(r) /\ r[k] = y
        BY <2>1, <2>2, <2>4, <2>5, <3>1, <3>3
      <4>2. QED
        BY <4>1 DEF ToSet
    <3>4. CASE k > i
      <4>1. k - 1 \in 1..Len(r) /\ r[k - 1] = y
        BY <2>1, <2>2, <2>4, <2>5, <3>1, <3>4
      <4>2. QED
        BY <4>1 DEF ToSet
    <3>5. QED
      BY <2>1, <2>2, <3>2, <3>3, <3>4
  <2>8. Unique(r)
    BY <2>1, <2>2, <2>4, <2>5 DEF Unique
  <2>9. QED
    BY <2>4, <2>6, <2>7, <2>8 DEF r
<1>3. QED
  BY <1>1, <1>2

-----------------------------------------------------------------------------
(* The graph: types and the agreement of the two maps.                     *)

(* AddDependency keeps the two maps typed and in agreement. *)
LEMMA AddKeepsMirror ==
    ASSUME TypeOK, Mirrored,
           NEW e \in Execs, NEW d \in Execs, AddDependency(e, d)
    PROVE  TypeOK' /\ Mirrored'
<1>1. /\ downstream \in [Execs -> Seq(Execs)]
      /\ upstream \in [Execs -> Seq(Execs)]
  BY DEF TypeOK
<1>2. /\ appendUnique(downstream[d], e) \in Seq(Execs)
      /\ ToSet(appendUnique(downstream[d], e)) = ToSet(downstream[d]) \union {e}
      /\ Unique(appendUnique(downstream[d], e))
  BY <1>1, AppendUniqueProperties DEF Mirrored
<1>3. /\ appendUnique(upstream[e], d) \in Seq(Execs)
      /\ ToSet(appendUnique(upstream[e], d)) = ToSet(upstream[e]) \union {d}
      /\ Unique(appendUnique(upstream[e], d))
  BY <1>1, AppendUniqueProperties DEF Mirrored
<1>4. TypeOK'
  BY <1>2, <1>3, MaxChangesAssumption DEF TypeOK, AddDependency, walkVars
<1>5. /\ downstream' = [downstream EXCEPT ![d] = appendUnique(downstream[d], e)]
      /\ upstream' = [upstream EXCEPT ![e] = appendUnique(upstream[e], d)]
  BY DEF AddDependency
<1>6. Mirrored'
  BY <1>1, <1>2, <1>3, <1>5 DEF Mirrored
<1>7. QED
  BY <1>4, <1>6

(* RemoveDependency keeps the two maps typed and in agreement. *)
LEMMA RemoveKeepsMirror ==
    ASSUME TypeOK, Mirrored,
           NEW e \in Execs, NEW d \in Execs, RemoveDependency(e, d)
    PROVE  TypeOK' /\ Mirrored'
<1>1. /\ downstream \in [Execs -> Seq(Execs)]
      /\ upstream \in [Execs -> Seq(Execs)]
  BY DEF TypeOK
<1>2. /\ removeElement(downstream[d], e) \in Seq(Execs)
      /\ ToSet(removeElement(downstream[d], e)) = ToSet(downstream[d]) \ {e}
      /\ Unique(removeElement(downstream[d], e))
  BY <1>1, RemoveElementProperties DEF Mirrored
<1>3. /\ removeElement(upstream[e], d) \in Seq(Execs)
      /\ ToSet(removeElement(upstream[e], d)) = ToSet(upstream[e]) \ {d}
      /\ Unique(removeElement(upstream[e], d))
  BY <1>1, RemoveElementProperties DEF Mirrored
<1>4. TypeOK'
  BY <1>2, <1>3, MaxChangesAssumption DEF TypeOK, RemoveDependency, walkVars
<1>5. /\ downstream' = [downstream EXCEPT ![d] = removeElement(downstream[d], e)]
      /\ upstream' = [upstream EXCEPT ![e] = removeElement(upstream[e], d)]
  BY DEF RemoveDependency
<1>6. Mirrored'
  BY <1>1, <1>2, <1>3, <1>5 DEF Mirrored
<1>7. QED
  BY <1>4, <1>6

(* A walk leaves the graph alone and stays in its types. *)
LEMMA WalkKeepsTypes ==
    ASSUME TypeOK, NEW w \in Walkers,
           (\E e \in Execs : Begin(w, e)) \/ WalkStep(w)
    PROVE  TypeOK' /\ UNCHANGED graphVars
<1> USE DEF TypeOK, graphVars
<1>1. ASSUME NEW e \in Execs, Begin(w, e)
      PROVE  TypeOK' /\ UNCHANGED graphVars
  BY <1>1 DEF Begin
<1>2. ASSUME stack[w] # <<>>
      PROVE  Popped(w) \in Seq(Execs) /\ Top(w) \in Execs
  BY <1>2, FrontProperties DEF Popped, Top
<1>3. ASSUME PopSkip(w)
      PROVE  TypeOK' /\ UNCHANGED graphVars
  BY <1>2, <1>3 DEF PopSkip
<1>4. ASSUME PopVisit(w)
      PROVE  TypeOK' /\ UNCHANGED graphVars
  BY <1>2, <1>4 DEF PopVisit
<1>5. ASSUME Push(w)
      PROVE  TypeOK' /\ UNCHANGED graphVars
  <2>1. downstream[current[w]][next[w]] \in Execs
    BY <1>5 DEF Push
  <2>2. stack' \in [Walkers -> Seq(Execs)]
    BY <1>5, <2>1 DEF Push
  <2>3. next' \in [Walkers -> Nat \ {0}]
    <3>1. next[w] \in Nat \ {0}
      OBVIOUS
    <3>2. next[w] + 1 \in Nat \ {0}
      BY <3>1
    <3>3. next' = [next EXCEPT ![w] = next[w] + 1]
      BY <1>5 DEF Push
    <3>4. QED
      BY <3>2, <3>3
  <2>4. QED
    BY <1>5, <2>2, <2>3 DEF Push
<1>6. ASSUME Pushed(w) \/ Finish(w) \/ Return(w)
      PROVE  TypeOK' /\ UNCHANGED graphVars
  BY <1>6 DEF Pushed, Finish, Return
<1>7. QED
  BY <1>1, <1>3, <1>4, <1>5, <1>6 DEF WalkStep

(* Types and agreement are inductive together: that removeElement stays in *)
(* its type needs that its slice holds no executor twice.                  *)
LEMMA GraphInductive ==
    /\ Init => TypeOK /\ Mirrored
    /\ TypeOK /\ Mirrored /\ [Next]_vars => (TypeOK /\ Mirrored)'
<1>1. Init => TypeOK /\ Mirrored
  BY MaxChangesAssumption DEF Init, TypeOK, Mirrored, ToSet, Unique
<1>2. ASSUME TypeOK, Mirrored, [Next]_vars
      PROVE  (TypeOK /\ Mirrored)'
  <2>1. CASE \E e, d \in Execs : AddDependency(e, d)
    BY <1>2, <2>1, AddKeepsMirror
  <2>2. CASE \E e, d \in Execs : RemoveDependency(e, d)
    BY <1>2, <2>2, RemoveKeepsMirror
  <2>3. CASE \E w \in Walkers : (\E e \in Execs : Begin(w, e)) \/ WalkStep(w)
    <3>1. TypeOK' /\ UNCHANGED graphVars
      BY <1>2, <2>3, WalkKeepsTypes
    <3>2. QED
      BY <1>2, <3>1 DEF graphVars, Mirrored
  <2>4. CASE UNCHANGED vars
    BY <1>2, <2>4 DEF vars, graphVars, walkVars, TypeOK, Mirrored
  <2>5. QED
    BY <1>2, <2>1, <2>2, <2>3, <2>4 DEF Next
<1>3. QED
  BY <1>1, <1>2

(* Every reachable state of the graph and of its walkers is well typed.    *)
THEOREM TypeCorrect == Spec => []TypeOK
<1>1. Spec => [](TypeOK /\ Mirrored)
  BY GraphInductive, PTL DEF Spec
<1>2. QED
  BY <1>1, PTL

(* After any history of calls the two adjacency maps agree and hold no     *)
(* duplicate.                                                              *)
THEOREM MapsAgree == Spec => []Mirrored
<1>1. Spec => [](TypeOK /\ Mirrored)
  BY GraphInductive, PTL DEF Spec
<1>2. QED
  BY <1>1, PTL

-----------------------------------------------------------------------------
(* FindDependents.                                                         *)

(* One walker's part of LoopInvariant. *)
LoopInvariantOf(w) ==
    pc[w] # "idle" =>
        /\ visited[w] \union ToSet(stack[w]) \subseteq Reach(Edges, Execs, start[w])
        /\ start[w] \in visited[w] \union ToSet(stack[w])
        /\ ToSet(dependents[w]) = visited[w] \ {start[w]}
        /\ Unique(dependents[w])
        /\ pc[w] = "push" => current[w] \in visited[w]
        /\ pc[w] = "done" => stack[w] = <<>>
        /\ \A a \in visited[w] : \A i \in 1..Len(downstream[a]) :
              \/ downstream[a][i] \in visited[w] \union ToSet(stack[w])
              \/ pc[w] = "push" /\ a = current[w] /\ i >= next[w]

(* The call pushes the start node: nothing is visited yet. *)
LEMMA BeginKeepsLoop ==
    ASSUME TypeOK, NEW w \in Walkers, NEW e \in Execs, Begin(w, e)
    PROVE  LoopInvariantOf(w)'
<1>1. /\ start'[w] = e /\ stack'[w] = <<e>> /\ visited'[w] = {}
      /\ dependents'[w] = <<>> /\ pc'[w] = "pop"
  BY DEF Begin, TypeOK
<1>2. ToSet(<<e>>) = {e} /\ ToSet(<<>>) = {} /\ Unique(<<>>)
  BY DEF ToSet, Unique
<1>3. e \in Reach(Edges, Execs, e)'
  BY ReachStart
<1>4. QED
  BY <1>1, <1>2, <1>3 DEF LoopInvariantOf

(* A popped executor that was visited before is still accounted for. *)
LEMMA PopSkipKeepsLoop ==
    ASSUME TypeOK, NEW w \in Walkers, LoopInvariantOf(w), PopSkip(w)
    PROVE  LoopInvariantOf(w)'
<1>1. stack[w] \in Seq(Execs) /\ stack[w] # <<>>
  BY DEF TypeOK, PopSkip
<1>2. ToSet(stack[w]) = ToSet(Popped(w)) \union {Top(w)}
  BY <1>1, FrontProperties DEF Popped, Top
<1>3. /\ stack'[w] = Popped(w) /\ Top(w) \in visited[w]
      /\ UNCHANGED <<downstream, pc, start, visited, dependents, current, next>>
      /\ pc[w] = "pop"
  BY DEF PopSkip, TypeOK, graphVars
<1>4. visited[w] \union ToSet(stack'[w]) = visited[w] \union ToSet(stack[w])
  BY <1>2, <1>3
<1>5. Edges' = Edges
  BY <1>3 DEF Edges
<1>6. QED
  BY <1>3, <1>4, <1>5 DEF LoopInvariantOf

(* A newly visited executor moves from the stack to the visited ones and   *)
(* to the slice; all its dependents are still to be pushed.                *)
LEMMA PopVisitKeepsLoop ==
    ASSUME TypeOK, NEW w \in Walkers, LoopInvariantOf(w), PopVisit(w)
    PROVE  LoopInvariantOf(w)'
<1>1. /\ stack[w] \in Seq(Execs) /\ stack[w] # <<>>
      /\ dependents[w] \in Seq(Execs)
  BY DEF TypeOK, PopVisit
<1>2. /\ ToSet(stack[w]) = ToSet(Popped(w)) \union {Top(w)}
      /\ Top(w) \in Execs
  BY <1>1, FrontProperties DEF Popped, Top
<1>3. /\ stack'[w] = Popped(w) /\ visited'[w] = visited[w] \union {Top(w)}
      /\ Top(w) \notin visited[w]
      /\ current'[w] = Top(w) /\ next'[w] = 1 /\ pc'[w] = "push"
      /\ dependents'[w] = IF Top(w) # start[w]
                          THEN Append(dependents[w], Top(w)) ELSE dependents[w]
      /\ UNCHANGED <<downstream, start>>
      /\ pc[w] = "pop"
  BY DEF PopVisit, TypeOK, graphVars
<1>4. visited'[w] \union ToSet(stack'[w]) = visited[w] \union ToSet(stack[w])
  BY <1>2, <1>3
<1>5. Edges' = Edges
  BY <1>3 DEF Edges
<1>6. /\ ToSet(dependents[w]) = visited[w] \ {start[w]}
      /\ Unique(dependents[w])
  BY <1>3 DEF LoopInvariantOf
<1>7. ToSet(dependents'[w]) = visited'[w] \ {start'[w]}
  <2>1. CASE Top(w) = start[w]
    BY <1>3, <1>6, <2>1
  <2>2. CASE Top(w) # start[w]
    <3>1. ToSet(dependents'[w]) = ToSet(dependents[w]) \union {Top(w)}
      BY <1>1, <1>2, <1>3, <2>2, ToSetAppend
    <3>2. QED
      BY <1>3, <1>6, <2>2, <3>1
  <2>3. QED
    BY <2>1, <2>2
<1>8. Unique(dependents'[w])
  <2>1. Top(w) \notin ToSet(dependents[w])
    BY <1>3, <1>6
  <2>2. Unique(Append(dependents[w], Top(w)))
    BY <1>1, <1>2, <1>6, <2>1 DEF Unique, ToSet
  <2>3. QED
    BY <1>3, <1>6, <2>2
<1>9. \A a \in visited'[w] : \A i \in 1..Len(downstream[a]) :
          \/ downstream[a][i] \in visited'[w] \union ToSet(stack'[w])
          \/ pc'[w] = "push" /\ a = current'[w] /\ i >= next'[w]
  BY <1>3, <1>4 DEF LoopInvariantOf
<1>10. QED
  BY <1>3, <1>4, <1>5, <1>7, <1>8, <1>9 DEF LoopInvariantOf

(* A direct dependent of a reachable executor is reachable. *)
LEMMA PushKeepsLoop ==
    ASSUME TypeOK, NEW w \in Walkers, LoopInvariantOf(w), Push(w)
    PROVE  LoopInvariantOf(w)'
<1> DEFINE a == current[w]
           dep == downstream[a][next[w]]
<1>1. /\ a \in Execs /\ next[w] \in 1..Len(downstream[a]) /\ dep \in Execs
      /\ downstream \in [Execs -> Seq(Execs)]
      /\ stack[w] \in Seq(Execs) /\ start[w] \in Execs
  BY DEF TypeOK, Push
<1>2. /\ stack'[w] = IF dep \notin visited[w] THEN Append(stack[w], dep) ELSE stack[w]
      /\ next'[w] = next[w] + 1
      /\ UNCHANGED <<downstream, pc, start, visited, dependents, current>>
      /\ pc[w] = "push"
  BY DEF Push, TypeOK, graphVars
<1>3. visited[w] \union ToSet(stack'[w])
          = visited[w] \union ToSet(stack[w]) \union {dep}
  BY <1>1, <1>2, ToSetAppend
<1>4. Edges' = Edges
  BY <1>2 DEF Edges
<1>5. dep \in Reach(Edges, Execs, start[w])
  <2>1. a \in Reach(Edges, Execs, start[w])
    BY <1>2 DEF LoopInvariantOf
  <2>2. <<a, dep>> \in Edges
    BY <1>1 DEF Edges, ToSet
  <2>3. Edges \in SUBSET (Execs \X Execs)
    BY DEF Edges
  <2>4. QED
    BY <1>1, <2>1, <2>2, <2>3, ReachStep
<1>6. \A b \in visited[w] : \A i \in 1..Len(downstream[b]) :
          \/ downstream[b][i] \in visited[w] \union ToSet(stack'[w])
          \/ b = a /\ i >= next[w] + 1
  <2>1. ASSUME NEW b \in visited[w], NEW i \in 1..Len(downstream[b])
        PROVE  \/ downstream[b][i] \in visited[w] \union ToSet(stack'[w])
               \/ b = a /\ i >= next[w] + 1
    <3>1. CASE b = a /\ i = next[w]
      BY <1>3, <3>1
    <3>2. CASE ~(b = a /\ i = next[w])
      <4>1. \/ downstream[b][i] \in visited[w] \union ToSet(stack[w])
            \/ b = a /\ i >= next[w]
        BY <1>2 DEF LoopInvariantOf
      <4>2. QED
        BY <1>1, <1>3, <3>2, <4>1
    <3>3. QED
      BY <3>1, <3>2
  <2>2. QED
    BY <2>1
<1> HIDE DEF a, dep
<1>7. QED
  BY <1>2, <1>3, <1>4, <1>5, <1>6 DEF LoopInvariantOf, a

(* When the range loop ends all dependents of current are accounted for,   *)
(* and when the stack is empty nothing is left to do.                      *)
LEMMA EndsKeepLoop ==
    ASSUME TypeOK, NEW w \in Walkers, LoopInvariantOf(w),
           Pushed(w) \/ Finish(w) \/ Return(w)
    PROVE  LoopInvariantOf(w)'
<1>1. UNCHANGED <<downstream, start, stack, visited, dependents, current, next>>
  BY DEF Pushed, Finish, Return, graphVars
<1>2. Edges' = Edges
  BY <1>1 DEF Edges
<1>3. CASE Pushed(w)
  <2>1. pc[w] = "push" /\ pc'[w] = "pop" /\ next[w] > Len(downstream[current[w]])
    BY <1>3 DEF Pushed, TypeOK
  <2>2. \A a \in visited[w] : \A i \in 1..Len(downstream[a]) :
            downstream[a][i] \in visited[w] \union ToSet(stack[w])
    <3>1. \A a \in visited[w] : a \in Execs /\ Len(downstream[a]) \in Nat
      BY DEF TypeOK
    <3>2. next[w] \in Nat /\ current[w] \in Execs
      BY DEF TypeOK
    <3>3. \A a \in visited[w] : \A i \in 1..Len(downstream[a]) :
            \/ downstream[a][i] \in visited[w] \union ToSet(stack[w])
            \/ a = current[w] /\ i >= next[w]
      BY <2>1 DEF LoopInvariantOf
    <3>4. QED
      BY <2>1, <3>1, <3>2, <3>3
  <2>3. QED
    BY <1>1, <1>2, <2>1, <2>2 DEF LoopInvariantOf
<1>4. CASE Finish(w)
  <2>1. pc[w] = "pop" /\ pc'[w] = "done" /\ stack[w] = <<>>
    BY <1>4 DEF Finish, TypeOK
  <2>2. QED
    BY <1>1, <1>2, <2>1 DEF LoopInvariantOf
<1>5. CASE Return(w)
  BY <1>5 DEF Return, LoopInvariantOf, TypeOK
<1>6. QED
  BY <1>3, <1>4, <1>5

(* Every step keeps the loop invariant of every walker: a writer runs when *)
(* nobody walks, and a walker touches its own variables only.              *)
LEMMA LoopInductive ==
    /\ Init => LoopInvariant
    /\ TypeOK /\ LoopInvariant /\ [Next]_vars => LoopInvariant'
<1>1. Init => LoopInvariant
  BY DEF Init, LoopInvariant
<1>2. ASSUME TypeOK, LoopInvariant, [Next]_vars, NEW v \in Walkers
      PROVE  LoopInvariantOf(v)'
  <2>1. LoopInvariantOf(v)
    BY <1>2 DEF LoopInvariant, LoopInvariantOf
  <2>2. ASSUME NEW e \in Execs, NEW d \in Execs,
               AddDependency(e, d) \/ RemoveDependency(e, d)
        PROVE  LoopInvariantOf(v)'
    <3>1. pc[v] = "idle" /\ pc' = pc
      BY <2>2 DEF AddDependency, RemoveDependency, WriteLocked, Idle, walkVars
    <3>2. QED
      BY <3>1 DEF LoopInvariantOf
  <2>3. ASSUME NEW w \in Walkers, NEW e \in Execs, Begin(w, e)
        PROVE  LoopInvariantOf(v)'
    <3>1. CASE w = v
      BY <1>2, <2>3, <3>1, BeginKeepsLoop
    <3>2. CASE w # v
      BY <1>2, <2>1, <2>3, <3>2 DEF Begin, TypeOK, graphVars, Edges, LoopInvariantOf
    <3>3. QED
      BY <3>1, <3>2
  <2>4. ASSUME NEW w \in Walkers, WalkStep(w)
        PROVE  LoopInvariantOf(v)'
    <3>1. CASE w = v
      BY <1>2, <2>1, <2>4, <3>1, PopSkipKeepsLoop, PopVisitKeepsLoop,
         PushKeepsLoop, EndsKeepLoop DEF WalkStep
    <3>2. CASE w # v
      <4>1. /\ downstream' = downstream
            /\ pc'[v] = pc[v] /\ start'[v] = start[v] /\ stack'[v] = stack[v]
            /\ visited'[v] = visited[v] /\ dependents'[v] = dependents[v]
            /\ current'[v] = current[v] /\ next'[v] = next[v]
        BY <1>2, <2>4, <3>2
        DEF WalkStep, PopSkip, PopVisit, Push, Pushed, Finish, Return,
            TypeOK, graphVars
      <4>2. Edges' = Edges
        BY <4>1 DEF Edges
      <4>3. QED
        BY <2>1, <4>1, <4>2 DEF LoopInvariantOf
    <3>3. QED
      BY <3>1, <3>2
  <2>5. CASE UNCHANGED vars
    BY <2>1, <2>5 DEF vars, graphVars, walkVars, LoopInvariantOf, Edges
  <2>6. QED
    BY <1>2, <2>2, <2>3, <2>4, <2>5 DEF Next
<1>3. ASSUME TypeOK, LoopInvariant, [Next]_vars
      PROVE  LoopInvariant'
  BY <1>2, <1>3 DEF LoopInvariant, LoopInvariantOf
<1>4. QED
  BY <1>1, <1>3

(* The loop invariant holds in every reachable state. *)
THEOREM LoopCorrect == Spec => [](TypeOK /\ LoopInvariant)
<1>1. Spec => [](TypeOK /\ Mirrored)
  BY GraphInductive, PTL DEF Spec
<1>2. QED
  BY <1>1, LoopInductive, PTL DEF Spec

(* With an empty stack the visited executors are closed under the edges,   *)
(* so they are all that can be reached.                                    *)
LEMMA LoopGivesResult == TypeOK /\ LoopInvariant => WalkResult
<1> SUFFICES ASSUME TypeOK, LoopInvariant, NEW w \in Walkers, pc[w] = "done"
             PROVE  /\ ToSet(dependents[w]) = Reach(Edges, Execs, start[w]) \ {start[w]}
                    /\ Unique(dependents[w])
  BY DEF WalkResult
<1>1. /\ visited[w] \subseteq Reach(Edges, Execs, start[w])
      /\ start[w] \in visited[w]
      /\ ToSet(dependents[w]) = visited[w] \ {start[w]}
      /\ Unique(dependents[w])
      /\ \A a \in visited[w] : \A i \in 1..Len(downstream[a]) :
            downstream[a][i] \in visited[w]
  BY DEF LoopInvariant, ToSet
<1>2. Closed(Edges, visited[w])
  BY <1>1 DEF Closed, Edges, ToSet
<1>3. visited[w] \in SUBSET Execs
  BY DEF TypeOK
<1>4. Reach(Edges, Execs, start[w]) \subseteq visited[w]
  BY <1>1, <1>2, <1>3, ReachLeast
<1>5. QED
  BY <1>1, <1>4

(* FindDependents returns exactly the executors that depend on its         *)
(* argument through reactive edges, each once, whatever the graph.         *)
THEOREM WalkCorrect == Spec => []WalkResult
BY LoopCorrect, LoopGivesResult, PTL

-----------------------------------------------------------------------------
(* The trees of the graph debug extension.                                 *)

(* Every set of numbers has a least one. *)
LEMMA LeastNumber ==
    ASSUME NEW W \in SUBSET Nat, W # {}
    PROVE  \E m \in W : \A n \in W : m <= n
<1>1. PICK m \in W : \A n \in W : ~(<<n, m>> \in OpToRel(<, Nat))
  BY NatLessThanWellFounded, WFMin
<1>2. \A n \in W : ~(n < m)
  BY <1>1 DEF OpToRel
<1>3. QED
  BY <1>2

(* What it is to be in a slice. *)
LEMMA InSlice ==
    ASSUME NEW S, NEW s \in Seq(S)
    PROVE  \A x : x \in ToSet(s) <=> \E i \in 1..Len(s) : s[i] = x
BY DEF ToSet

(* A node of a tree, and a call: an executor, and whose child it is. *)
NodeRecords == [executor : Execs, parent : Execs]

(* The edges from an executor. *)
From(e) == { edge \in Edges : edge[1] = e }

(* The children are the dependents, each once. *)
LEMMA ChildrenAre ==
    ASSUME TypeOK, NEW e \in Execs
    PROVE  /\ Children(e) \in Seq(Execs)
           /\ ToSet(Children(e)) = ToSet(downstream[e])
           /\ IsFiniteSet(ToSet(downstream[e]))
           /\ Len(Children(e)) = Cardinality(ToSet(downstream[e]))
<1> DEFINE s == downstream[e]
           S == ToSet(s)
           n == Cardinality(S)
           IsSeq(f) == f \in [1..n -> S] /\ IsInjective(f)
<1>1. s \in Seq(Execs) /\ Len(s) \in Nat /\ S \subseteq Execs
  BY DEF TypeOK, ToSet
<1>2. IsFiniteSet(S)
  <2>1. IsFiniteSet(1..Len(s))
    BY <1>1, FS_Interval
  <2>2. s \in Surjection(1..Len(s), S)
    BY <1>1 DEF ToSet, Surjection
  <2>3. QED
    BY <2>1, <2>2, FS_Surjection
<1>3. n \in Nat /\ ExistsBijection(1..n, S)
  BY <1>2, FS_CardinalityType
<1>4. \E f : IsSeq(f)
  BY <1>3 DEF ExistsBijection, Bijection, Injection, IsInjective
<1>5. Children(e) = CHOOSE f \in [1..n -> S] : IsInjective(f)
  BY DEF Children, SetToSeq
<1> HIDE DEF n, S
<1>6. IsSeq(Children(e))
  BY <1>4, <1>5
<1> DEFINE f == Children(e)
<1>7. f \in Injection(1..n, S)
  BY <1>6 DEF Injection, IsInjective
<1>8. IsFiniteSet(1..n) /\ Cardinality(1..n) = n
  BY <1>3, FS_Interval
<1>9. f \in Surjection(1..n, S)
  BY <1>2, <1>7, <1>8, FS_Injection DEF n
<1> HIDE DEF f
<1>10. f \in Seq(Execs) /\ Len(f) = n
  <2>1. f \in [1..n -> Execs] /\ n \in Nat
    BY <1>1, <1>3, <1>6 DEF f
  <2>2. QED
    BY <2>1
<1>11. ToSet(f) = S
  BY <1>9, <1>10 DEF ToSet, Surjection
<1>12. QED
  BY <1>2, <1>10, <1>11 DEF f, n, S

(* The calls of the loop: one along each edge from the executor. *)
LEMMA BelowIs ==
    ASSUME TypeOK, NEW e \in Execs
    PROVE  /\ Below(e) \in Seq(NodeRecords)
           /\ \A x \in ToSet(Below(e)) : x.parent = e /\ <<e, x.executor>> \in Edges
           /\ \A c : <<e, c>> \in Edges => c \in Drawn(Below(e))
           /\ IsFiniteSet(From(e))
           /\ Len(Below(e)) = Cardinality(From(e))
<1> DEFINE cs == Children(e)
           S == ToSet(downstream[e])
           b == Below(e)
<1>1. /\ cs \in Seq(Execs) /\ ToSet(cs) = S /\ IsFiniteSet(S)
      /\ Len(cs) = Cardinality(S)
  BY ChildrenAre
<1> HIDE DEF cs
<1>2. b = [i \in 1..Len(cs) |-> [executor |-> cs[i], parent |-> e]]
  BY DEF Below, Node, cs
<1> HIDE DEF b
<1> HIDE DEF S
<1>3. \A i \in 1..Len(cs) : cs[i] \in Execs /\ cs[i] \in S
  <2>1. \A x : x \in ToSet(cs) <=> \E i \in 1..Len(cs) : cs[i] = x
    BY <1>1, InSlice
  <2>2. \A i \in 1..Len(cs) : cs[i] \in Execs
    BY <1>1
  <2>3. QED
    BY <1>1, <2>1, <2>2
<1>4. b \in Seq(NodeRecords) /\ Len(b) = Len(cs)
  <2>1. \A i \in 1..Len(cs) : [executor |-> cs[i], parent |-> e] \in NodeRecords
    BY <1>3 DEF NodeRecords
  <2>2. Len(cs) \in Nat
    BY <1>1
  <2>3. b \in [1..Len(cs) -> NodeRecords]
    BY <1>2, <2>1
  <2>4. QED
    BY <2>2, <2>3
<1>5. \A c : <<e, c>> \in Edges <=> c \in S
  <2>1. S \subseteq Execs
    BY DEF TypeOK, ToSet, S
  <2>2. QED
    BY <2>1 DEF Edges, S
<1>6. \A x \in ToSet(b) : x.parent = e /\ <<e, x.executor>> \in Edges
  BY <1>2, <1>3, <1>4, <1>5 DEF ToSet
<1>7. \A c : <<e, c>> \in Edges => c \in Drawn(b)
  <2>1. ASSUME NEW c \in S PROVE c \in Drawn(b)
    <3>1. PICK i \in 1..Len(cs) : cs[i] = c
      BY <1>1 DEF ToSet
    <3>2. b[i].executor = c /\ b[i] \in ToSet(b)
      BY <1>2, <1>4, <3>1 DEF ToSet
    <3>3. QED
      BY <3>2 DEF Drawn
  <2>2. QED
    BY <1>5, <2>1
<1>8. IsFiniteSet(From(e)) /\ Cardinality(From(e)) = Cardinality(S)
  <2> DEFINE m == [c \in S |-> <<e, c>>]
  <2>1. From(e) = { <<e, c>> : c \in S }
    <3>1. \A edge \in From(e) : edge = <<e, edge[2]>> /\ edge[2] \in S
      <4>1. \A edge \in Edges : edge = <<edge[1], edge[2]>>
        BY DEF Edges
      <4>2. QED
        BY <1>5, <4>1 DEF From
    <3>2. QED
      BY <1>5, <3>1 DEF From
  <2>2. m \in Bijection(S, From(e))
    BY <2>1 DEF Bijection, Injection, Surjection, IsInjective
  <2>3. QED
    BY <1>1, <2>2, FS_Bijection DEF ExistsBijection
<1>9. QED
  BY <1>1, <1>4, <1>6, <1>7, <1>8 DEF b

-----------------------------------------------------------------------------
(* The edges from what is still to be drawn. *)
Undrawn(tree) == { edge \in Edges : edge[1] \notin Drawn(tree) }

(* The calls that are made and will be, which each call makes one less. *)
Work(drawing) == Len(drawing.calls) + Cardinality(Undrawn(drawing.tree))

(* What is drawn or called is reachable and stands below one that it       *)
(* depends on; the children of what is drawn are drawn or called.          *)
DrawInv(root, drawing) ==
    /\ drawing \in [tree : Seq(NodeRecords), calls : Seq(NodeRecords)]
    /\ \A i, j \in 1..Len(drawing.tree) :
           drawing.tree[i].executor = drawing.tree[j].executor => i = j
    /\ root \in Drawn(drawing.tree) \union Drawn(drawing.calls)
    /\ \A x \in ToSet(drawing.tree) \union ToSet(drawing.calls) :
           /\ x.executor \in Reach(Edges, Execs, root)
           /\ x.executor # root => <<x.parent, x.executor>> \in Edges
    /\ \A edge \in Edges : edge[1] \in Drawn(drawing.tree) =>
           edge[2] \in Drawn(drawing.tree) \union Drawn(drawing.calls)

(* The first of some calls is taken away, or replaced by others. *)
LEMMA FirstCall ==
    ASSUME NEW calls \in Seq(NodeRecords), calls # <<>>, NEW b \in Seq(NodeRecords)
    PROVE  /\ Head(calls) \in NodeRecords
           /\ Tail(calls) \in Seq(NodeRecords)
           /\ Len(Tail(calls)) = Len(calls) - 1
           /\ ToSet(calls) = ToSet(Tail(calls)) \union {Head(calls)}
           /\ b \o Tail(calls) \in Seq(NodeRecords)
           /\ Len(b \o Tail(calls)) = Len(b) + Len(calls) - 1
           /\ ToSet(b \o Tail(calls)) = ToSet(b) \union ToSet(Tail(calls))
<1> DEFINE t == Tail(calls)
           u == b \o t
<1>1. /\ Head(calls) = calls[1] /\ Len(calls) \in Nat \ {0}
      /\ t \in Seq(NodeRecords) /\ Len(t) = Len(calls) - 1
      /\ \A i \in 1..Len(t) : t[i] = calls[i + 1]
      /\ Head(calls) \in NodeRecords
  OBVIOUS
<1> HIDE DEF t
<1>2. ToSet(calls) = ToSet(t) \union {Head(calls)}
  <2>1. \A i \in 1..Len(calls) : i = 1 \/ (i - 1 \in 1..Len(t) /\ t[i - 1] = calls[i])
    BY <1>1
  <2>2. \A i \in 1..Len(t) : i + 1 \in 1..Len(calls)
    BY <1>1
  <2>3. 1 \in 1..Len(calls)
    BY <1>1
  <2>4. /\ \A y : y \in ToSet(calls) <=> \E i \in 1..Len(calls) : calls[i] = y
        /\ \A y : y \in ToSet(t) <=> \E i \in 1..Len(t) : t[i] = y
    BY <1>1, InSlice
  <2>5. QED
    BY <1>1, <2>1, <2>2, <2>3, <2>4
<1>3. /\ u \in Seq(NodeRecords) /\ Len(u) = Len(b) + Len(t)
      /\ Len(b) \in Nat /\ Len(t) \in Nat
      /\ \A i \in 1..Len(u) : u[i] = IF i <= Len(b) THEN b[i] ELSE t[i - Len(b)]
  <2>1. t \in Seq(NodeRecords) /\ b \in Seq(NodeRecords)
    BY <1>1
  <2>2. Len(b) \in Nat /\ Len(t) \in Nat
    BY <2>1
  <2>3. u \in Seq(NodeRecords) /\ Len(u) = Len(b) + Len(t)
    BY <2>1
  <2>4. \A i \in 1..Len(b) : u[i] = b[i]
    BY <2>1
  <2>5. \A i \in (Len(b) + 1)..(Len(b) + Len(t)) : u[i] = t[i - Len(b)]
    BY <2>1
  <2> HIDE DEF u
  <2>6. QED
    BY <2>2, <2>3, <2>4, <2>5
<1> HIDE DEF u
<1>4. ToSet(u) = ToSet(b) \union ToSet(t)
  <2>1. \A i \in 1..Len(b) : i \in 1..Len(u) /\ u[i] = b[i]
    BY <1>3
  <2>2. \A i \in 1..Len(t) : Len(b) + i \in 1..Len(u) /\ u[Len(b) + i] = t[i]
    BY <1>3
  <2>3. \A i \in 1..Len(u) : \/ i \in 1..Len(b) /\ u[i] = b[i]
                             \/ i - Len(b) \in 1..Len(t) /\ u[i] = t[i - Len(b)]
    BY <1>3
  <2>4. /\ \A y : y \in ToSet(u) <=> \E i \in 1..Len(u) : u[i] = y
        /\ \A y : y \in ToSet(t) <=> \E i \in 1..Len(t) : t[i] = y
        /\ \A y : y \in ToSet(b) <=> \E i \in 1..Len(b) : b[i] = y
    BY <1>1, <1>3, InSlice
  <2>5. QED
    BY <2>1, <2>2, <2>3, <2>4
<1>5. QED
  BY <1>1, <1>2, <1>3, <1>4 DEF t, u

(* A call that finds its executor visited. *)
LEMMA SkipKeeps ==
    ASSUME NEW root, NEW d, DrawInv(root, d), d.calls # <<>>,
           Head(d.calls).executor \in Drawn(d.tree), IsFiniteSet(Edges)
    PROVE  DrawInv(root, buildTree(d)) /\ Work(buildTree(d)) = Work(d) - 1
<1> DEFINE x == Head(d.calls)
           t == Tail(d.calls)
           d2 == buildTree(d)
<1>1. /\ d \in [tree : Seq(NodeRecords), calls : Seq(NodeRecords)]
      /\ d.tree \in Seq(NodeRecords) /\ d.calls \in Seq(NodeRecords)
  BY DEF DrawInv
<1>2. d2.tree = d.tree /\ d2.calls = t
      /\ (t \in Seq(NodeRecords) => d2 \in [tree : Seq(NodeRecords), calls : Seq(NodeRecords)])
  BY <1>1 DEF buildTree
<1>3. /\ t \in Seq(NodeRecords) /\ Len(t) = Len(d.calls) - 1
      /\ ToSet(d.calls) = ToSet(t) \union {x}
  BY <1>1, FirstCall
<1> HIDE DEF x, t, d2
<1>4. Drawn(d.calls) = Drawn(t) \union {x.executor}
  BY <1>3 DEF Drawn
<1>5. x.executor \in Drawn(d.tree)
  BY DEF x
<1>6. DrawInv(root, d2)
  <2>1. root \in Drawn(d.tree) \union Drawn(t)
    BY <1>4, <1>5 DEF DrawInv
  <2>2. \A edge \in Edges : edge[1] \in Drawn(d.tree) =>
             edge[2] \in Drawn(d.tree) \union Drawn(t)
    BY <1>4, <1>5 DEF DrawInv
  <2>3. QED
    BY <1>2, <1>3, <2>1, <2>2 DEF DrawInv
<1>7. Cardinality(Undrawn(d.tree)) \in Nat /\ Len(d.calls) \in Nat
  <2>1. IsFiniteSet(Undrawn(d.tree))
    BY FS_Subset DEF Undrawn
  <2>2. QED
    BY <1>1, <2>1, FS_CardinalityType
<1>8. Work(d2) = Work(d) - 1
  BY <1>2, <1>3, <1>7 DEF Work
<1>9. QED
  BY <1>6, <1>8 DEF d2

(* A call that draws its executor. *)
LEMMA DrawKeeps ==
    ASSUME TypeOK, NEW root \in Execs, NEW d, DrawInv(root, d), d.calls # <<>>,
           Head(d.calls).executor \notin Drawn(d.tree), IsFiniteSet(Edges)
    PROVE  DrawInv(root, buildTree(d)) /\ Work(buildTree(d)) = Work(d) - 1
<1> DEFINE x == Head(d.calls)
           e == x.executor
           t == Tail(d.calls)
           b == Below(e)
           u == b \o t
           v == Append(d.tree, x)
           d2 == buildTree(d)
<1>1. /\ d \in [tree : Seq(NodeRecords), calls : Seq(NodeRecords)]
      /\ d.tree \in Seq(NodeRecords) /\ d.calls \in Seq(NodeRecords)
  BY DEF DrawInv
<1>2. d2 = [tree |-> v, calls |-> u]
  BY DEF buildTree
<1>3. x \in NodeRecords /\ e \in Execs
  <2>1. x \in NodeRecords
    BY <1>1
  <2> HIDE DEF x
  <2>2. QED
    BY <2>1 DEF NodeRecords
<1>4. /\ b \in Seq(NodeRecords)
      /\ \A y \in ToSet(b) : y.parent = e /\ <<e, y.executor>> \in Edges
      /\ \A c : <<e, c>> \in Edges => c \in Drawn(b)
      /\ IsFiniteSet(From(e))
      /\ Len(b) = Cardinality(From(e))
  <2> HIDE DEF x
  <2>1. QED
    BY <1>3, BelowIs
<1> HIDE DEF b
<1>5. /\ ToSet(d.calls) = ToSet(t) \union {x}
      /\ u \in Seq(NodeRecords)
      /\ Len(u) = Len(b) + Len(d.calls) - 1
      /\ ToSet(u) = ToSet(b) \union ToSet(t)
  <2>1. b \in Seq(NodeRecords)
    BY <1>4
  <2>2. QED
    BY <1>1, <2>1, FirstCall
<1> HIDE DEF u, t, x
<1>6. /\ v \in Seq(NodeRecords) /\ ToSet(v) = ToSet(d.tree) \union {x}
      /\ Len(v) = Len(d.tree) + 1 /\ Len(d.tree) \in Nat
      /\ \A i \in 1..Len(d.tree) : v[i] = d.tree[i]
      /\ v[Len(d.tree) + 1] = x
  BY <1>1, <1>3, ToSetAppend
<1> HIDE DEF v
<1>7. d2.tree = v /\ d2.calls = u
  BY <1>2
<1>8. d2 \in [tree : Seq(NodeRecords), calls : Seq(NodeRecords)]
  BY <1>2, <1>5, <1>6
<1> HIDE DEF d2
<1>9. /\ Drawn(v) = Drawn(d.tree) \union {e}
      /\ Drawn(d.calls) = Drawn(t) \union {e}
      /\ Drawn(u) = Drawn(b) \union Drawn(t)
  BY <1>5, <1>6 DEF Drawn
<1>10. e \notin Drawn(d.tree)
  BY DEF x
<1>11. \A i, j \in 1..Len(v) : v[i].executor = v[j].executor => i = j
  <2>1. \A i \in 1..Len(d.tree) : v[i].executor \in Drawn(d.tree)
    BY <1>6 DEF Drawn, ToSet
  <2>2. \A i, j \in 1..Len(d.tree) : v[i].executor = v[j].executor => i = j
    BY <1>6 DEF DrawInv
  <2>3. \A i \in 1..Len(v) : i \in 1..Len(d.tree) \/ (i = Len(d.tree) + 1 /\ v[i].executor = e)
    BY <1>6
  <2>4. QED
    BY <1>10, <2>1, <2>2, <2>3
<1>12. e \in Reach(Edges, Execs, root)
  BY <1>5 DEF DrawInv
<1>13. \A y \in ToSet(b) : /\ y.executor \in Reach(Edges, Execs, root)
                           /\ <<y.parent, y.executor>> \in Edges
  <2>1. Edges \in SUBSET (Execs \X Execs)
    BY DEF Edges
  <2>2. \A c : <<e, c>> \in Edges => c \in Reach(Edges, Execs, root)
    BY <1>12, <2>1, ReachStep
  <2>3. QED
    BY <1>4, <2>2
<1>14. DrawInv(root, d2)
  <2>1. root \in Drawn(v) \union Drawn(u)
    BY <1>9 DEF DrawInv
  <2>2. \A y \in ToSet(v) \union ToSet(u) :
             /\ y.executor \in Reach(Edges, Execs, root)
             /\ y.executor # root => <<y.parent, y.executor>> \in Edges
    <3>1. \A y \in ToSet(d.tree) \union ToSet(d.calls) :
             /\ y.executor \in Reach(Edges, Execs, root)
             /\ y.executor # root => <<y.parent, y.executor>> \in Edges
      BY DEF DrawInv
    <3>2. QED
      BY <1>5, <1>6, <1>13, <3>1
  <2>3. \A edge \in Edges : edge[1] \in Drawn(v) => edge[2] \in Drawn(v) \union Drawn(u)
    <3> TAKE edge \in Edges
    <3>1. CASE edge[1] \in Drawn(d.tree)
      BY <1>9, <3>1 DEF DrawInv
    <3>2. CASE edge[1] = e
      <4>1. edge = <<e, edge[2]>>
        BY <3>2 DEF Edges
      <4>2. QED
        BY <1>4, <1>9, <4>1
    <3>3. QED
      BY <1>9, <3>1, <3>2
  <2>4. QED
    BY <1>7, <1>8, <1>11, <2>1, <2>2, <2>3 DEF DrawInv
<1>15. Cardinality(Undrawn(d.tree)) = Cardinality(Undrawn(v)) + Cardinality(From(e))
       /\ Cardinality(Undrawn(v)) \in Nat /\ Cardinality(From(e)) \in Nat
  <2>1. Undrawn(d.tree) = Undrawn(v) \union From(e) /\ Undrawn(v) \cap From(e) = {}
    BY <1>9, <1>10 DEF Undrawn, From
  <2>2. IsFiniteSet(Undrawn(v))
    BY FS_Subset DEF Undrawn
  <2>3. Cardinality({}) = 0
    BY FS_EmptySet
  <2>4. Cardinality(Undrawn(v)) \in Nat /\ Cardinality(From(e)) \in Nat
    BY <1>4, <2>2, FS_CardinalityType
  <2>5. Cardinality(Undrawn(v) \union From(e))
            = Cardinality(Undrawn(v)) + Cardinality(From(e)) - Cardinality(Undrawn(v) \cap From(e))
    BY <1>4, <2>2, FS_Union
  <2>6. Cardinality(Undrawn(d.tree)) = Cardinality(Undrawn(v) \union From(e))
    BY <2>1
  <2>7. Cardinality(Undrawn(v) \cap From(e)) = 0
    BY <2>1, <2>3
  <2>8. QED
    BY <2>4, <2>5, <2>6, <2>7
<1>16. Len(d.calls) \in Nat
  BY <1>1
<1>17. Work(d2) = Work(d) - 1
  BY <1>4, <1>5, <1>7, <1>15, <1>16 DEF Work
<1>18. QED
  BY <1>14, <1>17 DEF d2

(* Where it starts, and its steps. *)
First(root) == [tree |-> <<>>, calls |-> <<Node(root, root)>>]

Steps(root, f, n) ==
    f = [i \in 0..n |-> IF i = 0 THEN First(root) ELSE buildTree(f[i - 1])]

(* The function that Drawing computes exists. *)
LEMMA DrawingDefined ==
    ASSUME NEW root, NEW n \in Nat
    PROVE  \E f : Steps(root, f, n)
<1> DEFINE W == { i \in Nat : ~\E f : Steps(root, f, i) }
<1> SUFFICES ASSUME W # {} PROVE FALSE
  OBVIOUS
<1>1. PICK m \in W : \A i \in W : m <= i
  <2>1. W \in SUBSET Nat
    OBVIOUS
  <2> HIDE DEF W
  <2>2. QED
    BY <2>1, LeastNumber
<1>2. CASE m = 0
  <2> DEFINE g == [i \in 0..0 |-> First(root)]
  <2>1. Steps(root, g, 0)
    BY DEF Steps
  <2>2. QED
    BY <1>2, <2>1
<1>3. CASE m # 0
  <2>1. m - 1 \in Nat /\ m - 1 \notin W
    BY <1>1, <1>3
  <2>2. PICK f : Steps(root, f, m - 1)
    BY <2>1
  <2> DEFINE g == [i \in 0..m |-> IF i = m THEN buildTree(f[m - 1]) ELSE f[i]]
  <2>3. \A i \in 0..(m - 1) : f[i] = IF i = 0 THEN First(root) ELSE buildTree(f[i - 1])
    BY <2>2 DEF Steps
  <2>4. \A i \in 0..m : g[i] = IF i = 0 THEN First(root) ELSE buildTree(g[i - 1])
    <3> TAKE i \in 0..m
    <3>1. CASE i = 0
      BY <1>3, <2>1, <2>3, <3>1
    <3>2. CASE i # 0 /\ i # m
      <4>1. i - 1 \in 0..m /\ i - 1 # m /\ i \in 0..(m - 1)
        BY <3>2
      <4>2. g[i - 1] = f[i - 1] /\ g[i] = f[i]
        BY <3>2, <4>1
      <4>3. QED
        BY <2>3, <3>2, <4>1, <4>2
    <3>3. CASE i = m
      <4>1. m - 1 \in 0..m /\ m - 1 # m
        BY <2>1
      <4>2. g[m - 1] = f[m - 1] /\ g[m] = buildTree(f[m - 1])
        BY <4>1
      <4>3. QED
        BY <1>3, <3>3, <4>2
    <3>4. QED
      BY <3>1, <3>2, <3>3
  <2>5. Steps(root, g, m)
    <3>1. g = [i \in 0..m |-> g[i]]
      OBVIOUS
    <3> HIDE DEF g
    <3>2. QED
      BY <2>4, <3>1 DEF Steps
  <2>6. QED
    BY <2>5
<1>4. QED
  BY <1>2, <1>3

(* The drawing ends and keeps the invariant. *)
LEMMA DrawingEnds ==
    ASSUME TypeOK, IsFiniteSet(Edges), NEW root \in Execs
    PROVE  DrawInv(root, Drawing(root)) /\ Drawing(root).calls = <<>>
<1> DEFINE N == MaxCalls
           f == CHOOSE g : Steps(root, g, N)
<1>1. N \in Nat /\ N = 1 + Cardinality(Edges)
  BY FS_CardinalityType DEF MaxCalls
<1>2. Drawing(root) = f[N]
  BY DEF Drawing, Steps, First
<1>3. Steps(root, f, N)
  BY <1>1, DrawingDefined
<1> HIDE DEF N, f
<1>4. f[0] = First(root) /\ \A i \in 1..N : f[i] = buildTree(f[i - 1])
  BY <1>1, <1>3 DEF Steps
<1> DEFINE Good(d, i) == DrawInv(root, d) /\ (d.calls = <<>> \/ Work(d) = N - i)
<1>5. Good(f[0], 0)
  <2> DEFINE r == Node(root, root)
             c == <<r>>
             d == First(root)
  <2>1. d.tree = <<>> /\ d.calls = c /\ d = [tree |-> <<>>, calls |-> c]
    BY DEF First
  <2>2. r \in NodeRecords /\ r.executor = root
    BY DEF NodeRecords, Node
  <2> HIDE DEF r, d
  <2>3. /\ c \in Seq(NodeRecords) /\ ToSet(c) = {r} /\ Len(c) = 1
        /\ ToSet(<<>>) = {} /\ Len(<<>>) = 0 /\ <<>> \in Seq(NodeRecords)
    BY <2>2 DEF ToSet
  <2> HIDE DEF c
  <2>4. Drawn(<<>>) = {} /\ Drawn(c) = {root}
    BY <2>2, <2>3 DEF Drawn
  <2>5. root \in Reach(Edges, Execs, root)
    BY ReachStart
  <2>6. d \in [tree : Seq(NodeRecords), calls : Seq(NodeRecords)]
    BY <2>1, <2>3
  <2>7. DrawInv(root, d)
    BY <2>1, <2>2, <2>3, <2>4, <2>5, <2>6 DEF DrawInv
  <2>8. Undrawn(<<>>) = Edges
    BY <2>4 DEF Undrawn
  <2>9. Work(d) = N
    BY <1>1, <2>1, <2>3, <2>8, FS_CardinalityType DEF Work
  <2>10. QED
    BY <1>1, <1>4, <2>7, <2>9 DEF d
<1>6. ASSUME NEW i \in 1..N, Good(f[i - 1], i - 1)
      PROVE  Good(f[i], i)
  <2>1. f[i] = buildTree(f[i - 1])
    BY <1>4
  <2>2. PICK d : d = f[i - 1]
    OBVIOUS
  <2>3. DrawInv(root, d) /\ (d.calls = <<>> \/ Work(d) = N - (i - 1))
    BY <1>6, <2>2
  <2>4. CASE d.calls = <<>>
    <3>1. buildTree(d) = d
      BY <2>4 DEF buildTree
    <3>2. QED
      BY <2>1, <2>2, <2>3, <2>4, <3>1
  <2>5. CASE d.calls # <<>>
    <3>1. DrawInv(root, buildTree(d)) /\ Work(buildTree(d)) = Work(d) - 1
      BY <2>3, <2>5, SkipKeeps, DrawKeeps
    <3>2. Work(d) = N - (i - 1)
      BY <2>3, <2>5
    <3>3. Work(buildTree(d)) = N - i
      BY <1>1, <3>1, <3>2
    <3>4. QED
      BY <2>1, <2>2, <3>1, <3>3
  <2>6. QED
    BY <2>4, <2>5
<1>7. Good(f[N], N)
  <2> DEFINE W == { i \in 0..N : ~Good(f[i], i) }
  <2> SUFFICES ASSUME W # {} PROVE FALSE
    BY <1>1
  <2> HIDE DEF Good
  <2>1. PICK m \in W : \A i \in W : m <= i
    <3>1. W \in SUBSET Nat
      BY <1>1
    <3> HIDE DEF W
    <3>2. QED
      BY <3>1, LeastNumber
  <2>2. m \in 1..N /\ m - 1 \in 0..N /\ m - 1 \notin W
    BY <1>1, <1>5, <2>1
  <2>3. QED
    BY <1>6, <2>1, <2>2
<1>8. Len(f[N].calls) + Cardinality(Undrawn(f[N].tree)) = 0 => Len(f[N].calls) = 0
  <2>1. Len(f[N].calls) \in Nat
    BY <1>7 DEF DrawInv
  <2>2. IsFiniteSet(Undrawn(f[N].tree))
    BY FS_Subset DEF Undrawn
  <2>3. Cardinality(Undrawn(f[N].tree)) \in Nat
    BY <2>2, FS_CardinalityType
  <2>4. QED
    BY <2>1, <2>3
<1>9. f[N].calls = <<>>
  <2>1. f[N].calls \in Seq(NodeRecords)
    BY <1>7 DEF DrawInv
  <2>2. CASE Work(f[N]) = N - N
    BY <1>1, <1>8, <2>1, <2>2 DEF Work
  <2>3. QED
    BY <1>7, <2>2
<1>10. QED
  BY <1>2, <1>7, <1>9
-----------------------------------------------------------------------------
(* All executors of a graph without cycles hang below a root.              *)

(* There are finitely many executors in the graph. *)
LEMMA NodesFinite ==
    ASSUME IsFiniteSet(Edges)
    PROVE  IsFiniteSet(Nodes) /\ Nodes \subseteq Execs
<1> DEFINE L == { edge[1] : edge \in Edges }
           R == { edge[2] : edge \in Edges }
           l == [edge \in Edges |-> edge[1]]
           r == [edge \in Edges |-> edge[2]]
<1>1. l \in Surjection(Edges, L) /\ r \in Surjection(Edges, R)
  BY DEF Surjection
<1>2. IsFiniteSet(L) /\ IsFiniteSet(R)
  BY <1>1, FS_Surjection
<1>3. IsFiniteSet(L \union R)
  BY <1>2, FS_Union
<1>4. Nodes \subseteq Execs
  BY DEF Nodes, Edges
<1>5. QED
  BY <1>3, <1>4 DEF Nodes

(* Of the executors that lead to n, one that reaches the most is a root.   *)
LEMMA RootAbove ==
    ASSUME IsFiniteSet(Edges), Acyclic, NEW n \in Nodes
    PROVE  \E root \in Roots : n \in Reach(Edges, Execs, root)
<1> DEFINE size(m) == Cardinality(Nodes \ Reach(Edges, Execs, m))
           A == { m \in Nodes : n \in Reach(Edges, Execs, m) }
           W == { size(m) : m \in A }
<1>1. IsFiniteSet(Nodes) /\ Nodes \subseteq Execs /\ n \in Execs
  BY NodesFinite
<1>2. n \in A
  BY <1>1, ReachStart
<1>3. \A m : IsFiniteSet(Nodes \ Reach(Edges, Execs, m)) /\ size(m) \in Nat
  BY <1>1, FS_Difference, FS_CardinalityType
<1>4. PICK m \in A : \A k \in A : size(m) <= size(k)
  <2>1. W \in SUBSET Nat /\ W # {}
    BY <1>2, <1>3
  <2>2. PICK w \in W : \A v \in W : w <= v
    <3> HIDE DEF W
    <3>1. QED
      BY <2>1, LeastNumber
  <2>3. QED
    BY <2>2
<1>5. ASSUME NEW edge \in Edges, edge[2] = m PROVE FALSE
  <2> DEFINE p == edge[1]
  <2>1. /\ p \in Nodes /\ p \in Execs /\ m \in Execs /\ <<p, m>> \in Edges
    BY <1>1, <1>5 DEF Nodes, Edges
  <2>2. p \notin Reach(Edges, Execs, m)
    BY <1>5, <2>1 DEF Acyclic
  <2> HIDE DEF p
  <2>3. Edges \in SUBSET (Execs \X Execs)
    BY DEF Edges
  <2>4. p \in Reach(Edges, Execs, p) /\ m \in Reach(Edges, Execs, p)
    <3>1. p \in Reach(Edges, Execs, p)
      BY <2>1, ReachStart
    <3>2. m \in Reach(Edges, Execs, p)
      BY <2>1, <2>3, <3>1, ReachStep
    <3>3. QED
      BY <3>1, <3>2
  <2>5. Reach(Edges, Execs, m) \subseteq Reach(Edges, Execs, p)
    <3>1. Reach(Edges, Execs, p) \in SUBSET Execs
      BY DEF Reach
    <3>2. Closed(Edges, Reach(Edges, Execs, p))
      <4>1. \A e \in Edges : e = <<e[1], e[2]>>
        BY DEF Edges
      <4>2. \A e \in Edges : e[1] \in Reach(Edges, Execs, p) => e[2] \in Reach(Edges, Execs, p)
        BY <2>1, <2>3, <4>1, ReachStep
      <4>3. QED
        BY <4>2 DEF Closed
    <3>3. QED
      BY <2>4, <3>1, <3>2, ReachLeast
  <2>6. p \in A
    BY <2>1, <2>5
  <2>7. size(p) <= size(m) /\ size(p) # size(m)
    <3> DEFINE P == Nodes \ Reach(Edges, Execs, p)
               M == Nodes \ Reach(Edges, Execs, m)
    <3>1. P \in SUBSET M /\ P # M
      BY <2>1, <2>2, <2>4, <2>5
    <3>2. IsFiniteSet(M)
      BY <1>3
    <3> HIDE DEF P, M
    <3>3. Cardinality(P) <= Cardinality(M) /\ Cardinality(P) # Cardinality(M)
      BY <3>1, <3>2, FS_Subset
    <3>4. QED
      BY <3>3 DEF P, M
  <2>8. size(m) <= size(p)
    BY <1>4, <2>6
  <2>9. size(m) \in Nat /\ size(p) \in Nat
    BY <1>3
  <2>10. QED
    BY <2>7, <2>8, <2>9
<1>6. m \in Roots /\ n \in Reach(Edges, Execs, m)
  BY <1>4, <1>5 DEF Roots
<1>7. QED
  BY <1>6

(* What a finished drawing holds. *)
LEMMA DrawnIsReach ==
    ASSUME TypeOK, IsFiniteSet(Edges), NEW root \in Execs
    PROVE  /\ Drawing(root).calls = <<>>
           /\ Drawn(Tree(root)) = Reach(Edges, Execs, root)
           /\ Len(Tree(root)) = Cardinality(Drawn(Tree(root)))
           /\ \A node \in ToSet(Tree(root)) :
                 node.executor # root => <<node.parent, node.executor>> \in Edges
<1>1. DrawInv(root, Drawing(root)) /\ Drawing(root).calls = <<>>
  BY DrawingEnds
<1>2. PICK d : d = Drawing(root)
  OBVIOUS
<1> DEFINE t == d.tree
<1>3. DrawInv(root, d) /\ d.calls = <<>> /\ Tree(root) = t
  BY <1>1, <1>2 DEF Tree
<1>4. t \in Seq(NodeRecords) /\ Len(t) \in Nat
  BY <1>3 DEF DrawInv
<1>5. ToSet(d.calls) = {} /\ Drawn(d.calls) = {}
  BY <1>3 DEF ToSet, Drawn
<1>6. /\ root \in Drawn(t) /\ Closed(Edges, Drawn(t))
      /\ Drawn(t) \subseteq Reach(Edges, Execs, root)
  BY <1>3, <1>5 DEF DrawInv, Closed, Drawn
<1>7. Drawn(t) = Reach(Edges, Execs, root)
  <2>1. Drawn(t) \in SUBSET Execs
    BY <1>6 DEF Reach
  <2>2. Reach(Edges, Execs, root) \subseteq Drawn(t)
    BY <1>6, <2>1, ReachLeast
  <2>3. QED
    BY <1>6, <2>2
<1>8. Len(t) = Cardinality(Drawn(t))
  <2> DEFINE f == [i \in 1..Len(t) |-> t[i].executor]
  <2>1. \A x : x \in ToSet(t) <=> \E i \in 1..Len(t) : t[i] = x
    BY <1>4, InSlice
  <2>2. \A i, j \in 1..Len(t) : t[i].executor = t[j].executor => i = j
    BY <1>3 DEF DrawInv
  <2> HIDE DEF t
  <2>3. f \in Bijection(1..Len(t), Drawn(t))
    BY <2>1, <2>2 DEF Drawn, Bijection, Injection, Surjection, IsInjective
  <2>4. IsFiniteSet(1..Len(t)) /\ Cardinality(1..Len(t)) = Len(t)
    BY <1>4, FS_Interval
  <2>5. QED
    BY <2>3, <2>4, FS_Bijection DEF ExistsBijection
<1>9. \A node \in ToSet(t) : node.executor # root => <<node.parent, node.executor>> \in Edges
  BY <1>3 DEF DrawInv
<1>10. QED
  BY <1>1, <1>3, <1>7, <1>8, <1>9

(* In a graph with finitely many edges all trees are whole. *)
LEMMA DrawnWholeHolds ==
    TypeOK /\ IsFiniteSet(Edges) => DrawnWhole
<1> SUFFICES ASSUME TypeOK, IsFiniteSet(Edges) PROVE DrawnWhole
  OBVIOUS
<1>1. Roots \subseteq Nodes /\ Nodes \subseteq Execs
  BY NodesFinite DEF Roots
<1>2. \A root \in Roots :
          /\ Drawing(root).calls = <<>>
          /\ Drawn(Tree(root)) = Reach(Edges, Execs, root)
          /\ Len(Tree(root)) = Cardinality(Drawn(Tree(root)))
          /\ \A node \in ToSet(Tree(root)) :
                node.executor # root => <<node.parent, node.executor>> \in Edges
  BY <1>1, DrawnIsReach
<1>3. ASSUME Acyclic PROVE UNION { Drawn(tree) : tree \in Trees } = Nodes
  <2>1. \A root \in Roots : Drawn(Tree(root)) \subseteq Nodes
    <3> TAKE root \in Roots
    <3>1. root \in Nodes /\ Closed(Edges, Nodes)
      BY <1>1 DEF Nodes, Closed
    <3>2. Reach(Edges, Execs, root) \subseteq Nodes
      BY <1>1, <3>1, ReachLeast
    <3>3. QED
      BY <1>2, <3>2
  <2>2. \A n \in Nodes : \E root \in Roots : n \in Drawn(Tree(root))
    BY <1>2, <1>3, RootAbove
  <2>3. QED
    BY <2>1, <2>2 DEF Trees
<1>4. QED
  BY <1>2, <1>3 DEF DrawnWhole

-----------------------------------------------------------------------------
(* A history of calls makes finitely many edges. *)
LEMMA EdgesStayFinite ==
    /\ Init => IsFiniteSet(Edges)
    /\ TypeOK /\ Mirrored /\ IsFiniteSet(Edges) /\ [Next]_vars => IsFiniteSet(Edges)'
<1>1. ASSUME Init PROVE IsFiniteSet(Edges)
  <2>1. Edges = {}
    BY <1>1 DEF Init, Edges, ToSet
  <2>2. QED
    BY <2>1, FS_EmptySet
<1>2. ASSUME TypeOK, Mirrored, IsFiniteSet(Edges), [Next]_vars
      PROVE  IsFiniteSet(Edges)'
  <2>1. ASSUME NEW x, Edges' \subseteq Edges \union {x}
        PROVE  IsFiniteSet(Edges)'
    <3>1. IsFiniteSet(Edges \union {x})
      BY <1>2, FS_AddElement
    <3>2. IsFiniteSet(Edges')
      BY <2>1, <3>1, FS_Subset
    <3>3. QED
      BY <3>2
  <2>2. ASSUME NEW e \in Execs, NEW d \in Execs, AddDependency(e, d)
        PROVE  \E x : Edges' \subseteq Edges \union {x}
    <3>1. downstream[d] \in Seq(Execs)
      BY <1>2 DEF TypeOK
    <3>2. ToSet(appendUnique(downstream[d], e)) \subseteq ToSet(downstream[d]) \union {e}
      BY <3>1, ToSetAppend DEF appendUnique
    <3>3. downstream' = [downstream EXCEPT ![d] = appendUnique(downstream[d], e)]
      BY <2>2 DEF AddDependency
    <3>4. Edges' \subseteq Edges \union {<<d, e>>}
      BY <1>2, <3>2, <3>3 DEF Edges, TypeOK
    <3>5. QED
      BY <3>4
  <2>3. ASSUME NEW e \in Execs, NEW d \in Execs, RemoveDependency(e, d)
        PROVE  Edges' \subseteq Edges
    <3>1. downstream[d] \in Seq(Execs) /\ Unique(downstream[d])
      BY <1>2 DEF TypeOK, Mirrored
    <3>2. ToSet(removeElement(downstream[d], e)) \subseteq ToSet(downstream[d])
      BY <3>1, RemoveElementProperties
    <3>3. downstream' = [downstream EXCEPT ![d] = removeElement(downstream[d], e)]
      BY <2>3 DEF RemoveDependency
    <3>4. QED
      BY <1>2, <3>2, <3>3 DEF Edges, TypeOK
  <2>4. ASSUME NEW w \in Walkers, (\E e \in Execs : Begin(w, e)) \/ WalkStep(w)
        PROVE  Edges' = Edges
    BY <1>2, <2>4, WalkKeepsTypes DEF graphVars, Edges
  <2>5. ASSUME UNCHANGED vars PROVE Edges' = Edges
    BY <2>5 DEF vars, graphVars, Edges
  <2>6. QED
    BY <1>2, <2>1, <2>2, <2>3, <2>4, <2>5 DEF Next
<1>3. QED
  BY <1>1, <1>2

(* After any history of the graph, buildTree returns on every root, and    *)
(* the trees show what is reachable, each executor once, and all of a      *)
(* graph without cycles.                                                   *)
THEOREM TreesWhole == Spec => []DrawnWhole
<1>1. Spec => [](TypeOK /\ Mirrored)
  BY GraphInductive, PTL DEF Spec
<1>2. Spec => []IsFiniteSet(Edges)
  BY <1>1, EdgesStayFinite, PTL DEF Spec
<1>3. QED
  BY <1>1, <1>2, DrawnWholeHolds, PTL

-----------------------------------------------------------------------------
(* FindDependents ends.                                                    *)

(* The edges from what a walk has not visited, and the turns its range     *)
(* loop has left.                                                          *)
Ahead(w) == { edge \in Edges : edge[1] \notin visited[w] }

Left(w) ==
    IF pc[w] = "push" /\ next[w] <= Len(downstream[current[w]])
    THEN Len(downstream[current[w]]) + 1 - next[w] ELSE 0

Rank == [idle |-> 0, done |-> 1, pop |-> 2, push |-> 3]

(* No more steps than this are left to a walk: each edge costs a turn, and *)
(* each executor it pushes a pop, a visit and the end of a range loop.     *)
Budget(w) ==
    4 * (Cardinality(Ahead(w)) + Left(w)) + 2 * Len(stack[w]) + Rank[pc[w]]

(* graph.go FindDependents: a call has a number of steps that the edges    *)
(* bound, each step it takes leaves it with fewer, and nobody adds to them *)
(* while it walks, on diamonds and cycles too.                             *)
WalkShrinks ==
    [][\A w \in Walkers :
          /\ Budget(w) \in Nat
          /\ \A e \in Execs : Begin(w, e) => Budget(w)' = 4 * Cardinality(Edges) + 4
          /\ pc[w] # "idle" => IF WalkStep(w) THEN Budget(w)' < Budget(w)
                               ELSE Budget(w)' = Budget(w)]_vars

(* As many edges leave an executor as it has dependents. *)
LEMMA OutDegree ==
    ASSUME TypeOK, Mirrored, NEW e \in Execs
    PROVE  IsFiniteSet(From(e)) /\ Cardinality(From(e)) = Len(downstream[e])
<1> DEFINE s == downstream[e]
           m == [i \in 1..Len(s) |-> <<e, s[i]>>]
<1>1. s \in Seq(Execs) /\ Len(s) \in Nat /\ Unique(s)
  BY DEF TypeOK, Mirrored
<1>2. \A x : x \in ToSet(s) <=> \E i \in 1..Len(s) : s[i] = x
  BY <1>1, InSlice
<1>3. From(e) = { <<e, x>> : x \in ToSet(s) }
  <2>1. \A edge \in From(e) : edge = <<e, edge[2]>> /\ edge[2] \in ToSet(s)
    BY DEF From, Edges
  <2>2. \A x \in ToSet(s) : <<e, x>> \in From(e)
    <3>1. \A x \in ToSet(s) : x \in Execs
      BY <1>1, <1>2
    <3>2. QED
      BY <3>1 DEF From, Edges
  <2>3. QED
    BY <2>1, <2>2
<1> HIDE DEF s
<1>4. m \in Bijection(1..Len(s), From(e))
  <2>1. \A i \in 1..Len(s) : m[i] = <<e, s[i]>> /\ m[i] \in From(e)
    BY <1>2, <1>3
  <2>2. \A x \in From(e) : \E i \in 1..Len(s) : x = <<e, s[i]>>
    BY <1>2, <1>3
  <2>3. \A i, j \in 1..Len(s) : m[i] = m[j] => i = j
    BY <1>1, <2>1 DEF Unique
  <2>4. m \in [1..Len(s) -> From(e)]
    BY <2>1
  <2> HIDE DEF m
  <2>5. QED
    BY <2>1, <2>2, <2>3, <2>4 DEF Bijection, Injection, Surjection, IsInjective
<1>5. IsFiniteSet(1..Len(s)) /\ Cardinality(1..Len(s)) = Len(s)
  BY <1>1, FS_Interval
<1> HIDE DEF m
<1>6. QED
  BY <1>4, <1>5, FS_Bijection DEF ExistsBijection, s

(* The parts of the budget are numbers. *)
LEMMA BudgetParts ==
    ASSUME TypeOK, IsFiniteSet(Edges), NEW w \in Walkers
    PROVE  /\ Cardinality(Ahead(w)) \in Nat /\ Left(w) \in Nat
           /\ Len(stack[w]) \in Nat /\ Rank[pc[w]] \in Nat
           /\ Budget(w) \in Nat
<1>1. IsFiniteSet(Ahead(w))
  BY FS_Subset DEF Ahead
<1>2. Cardinality(Ahead(w)) \in Nat
  BY <1>1, FS_CardinalityType
<1>3. Left(w) \in Nat
  <2>1. next[w] \in Nat \ {0} /\ Len(downstream[current[w]]) \in Nat
    BY DEF TypeOK
  <2>2. QED
    BY <2>1 DEF Left
<1>4. Len(stack[w]) \in Nat /\ Rank[pc[w]] \in Nat
  BY DEF TypeOK, Rank
<1>5. QED
  BY <1>2, <1>3, <1>4 DEF Budget

(* What a walk still has to do, when it visits an executor. *)
LEMMA VisitShrinks ==
    ASSUME TypeOK, Mirrored, IsFiniteSet(Edges), NEW w \in Walkers, PopVisit(w)
    PROVE  Budget(w)' < Budget(w)
<1> DEFINE e == Top(w)
           B == { edge \in Edges : edge[1] \notin visited[w] \union {e} }
<1>1. /\ stack[w] \in Seq(Execs) /\ stack[w] # <<>> /\ pc[w] = "pop"
      /\ e \notin visited[w]
  BY DEF TypeOK, PopVisit
<1>2. e \in Execs /\ Len(Popped(w)) = Len(stack[w]) - 1
  BY <1>1, FrontProperties DEF Popped, Top
<1>3. /\ stack'[w] = Popped(w) /\ visited'[w] = visited[w] \union {e}
      /\ current'[w] = e /\ next'[w] = 1 /\ pc'[w] = "push"
      /\ downstream' = downstream
  BY DEF PopVisit, TypeOK, graphVars
<1> HIDE DEF e
<1>4. Ahead(w)' = B
  BY <1>3 DEF Ahead, Edges
<1>5. Cardinality(Ahead(w)) = Cardinality(B) + Len(downstream[e]) /\ Cardinality(B) \in Nat
  <2>1. Ahead(w) = B \union From(e) /\ B \cap From(e) = {}
    BY <1>1 DEF Ahead, From
  <2>2. IsFiniteSet(From(e)) /\ Cardinality(From(e)) = Len(downstream[e])
    BY <1>2, OutDegree
  <2>3. IsFiniteSet(B)
    BY FS_Subset
  <2>4. Cardinality(B) \in Nat /\ Cardinality(From(e)) \in Nat
    BY <2>2, <2>3, FS_CardinalityType
  <2> HIDE DEF B
  <2>5. Cardinality(B \union From(e))
            = Cardinality(B) + Cardinality(From(e)) - Cardinality(B \cap From(e))
    BY <2>2, <2>3, FS_Union
  <2>6. Cardinality(Ahead(w)) = Cardinality(B \union From(e))
    BY <2>1
  <2>7. Cardinality(B \cap From(e)) = 0
    BY <2>1, FS_EmptySet
  <2>8. QED
    BY <2>2, <2>4, <2>5, <2>6, <2>7
<1> HIDE DEF B
<1>6. Left(w)' = Len(downstream[e]) /\ Len(downstream[e]) \in Nat
  <2>1. Len(downstream[e]) \in Nat
    BY <1>2 DEF TypeOK
  <2>2. QED
    BY <1>3, <2>1 DEF Left
<1>7. Left(w) = 0 /\ Rank[pc[w]] = 2 /\ Rank[pc'[w]] = 3
  BY <1>1, <1>3 DEF Left, Rank
<1>8. Len(stack[w]) \in Nat
  BY <1>1
<1>9. Budget(w)' = 4 * (Cardinality(B) + Len(downstream[e])) + 2 * (Len(stack[w]) - 1) + 3
  BY <1>2, <1>3, <1>4, <1>6, <1>7 DEF Budget
<1>10. Budget(w) = 4 * (Cardinality(B) + Len(downstream[e])) + 2 * Len(stack[w]) + 2
  BY <1>5, <1>6, <1>7 DEF Budget
<1>11. QED
  BY <1>5, <1>6, <1>8, <1>9, <1>10

(* The other steps. *)
LEMMA StepShrinks ==
    ASSUME TypeOK, Mirrored, IsFiniteSet(Edges), NEW w \in Walkers, WalkStep(w)
    PROVE  Budget(w)' < Budget(w)
<1>1. /\ Cardinality(Ahead(w)) \in Nat /\ Left(w) \in Nat
      /\ Len(stack[w]) \in Nat /\ Budget(w) \in Nat
  BY BudgetParts
<1>2. CASE PopSkip(w)
  <2>1. /\ stack[w] \in Seq(Execs) /\ stack[w] # <<>>
        /\ stack'[w] = Popped(w)
        /\ UNCHANGED <<downstream, pc, visited, current, next>>
    BY <1>2 DEF PopSkip, TypeOK, graphVars
  <2>2. Len(Popped(w)) = Len(stack[w]) - 1
    BY <2>1, FrontProperties DEF Popped
  <2>3. Ahead(w)' = Ahead(w) /\ Left(w)' = Left(w)
    BY <2>1 DEF Ahead, Edges, Left
  <2>4. Rank[pc[w]] \in Nat
    BY DEF TypeOK, Rank
  <2>5. Budget(w)' = 4 * (Cardinality(Ahead(w)) + Left(w)) + 2 * (Len(stack[w]) - 1) + Rank[pc[w]]
    BY <2>1, <2>2, <2>3 DEF Budget
  <2>6. QED
    BY <1>1, <2>4, <2>5 DEF Budget
<1>3. CASE PopVisit(w)
  BY <1>3, VisitShrinks
<1>4. CASE Push(w)
  <2> DEFINE n == Len(downstream[current[w]])
  <2>1. /\ pc[w] = "push" /\ next[w] <= n /\ next[w] \in Nat /\ n \in Nat
        /\ next'[w] = next[w] + 1
        /\ UNCHANGED <<downstream, pc, visited, current>>
    BY <1>4 DEF Push, TypeOK, graphVars
  <2>2. Len(stack'[w]) \in Nat /\ Len(stack'[w]) <= Len(stack[w]) + 1
    <3>1. stack[w] \in Seq(Execs)
      BY DEF TypeOK
    <3>2. \E d \in Execs : stack'[w] \in {stack[w], Append(stack[w], d)}
      <4>1. downstream[current[w]][next[w]] \in Execs
        BY <2>1 DEF TypeOK
      <4>2. QED
        BY <1>4, <4>1 DEF Push, TypeOK
    <3>3. QED
      BY <3>1, <3>2
  <2>3. Ahead(w)' = Ahead(w)
    BY <2>1 DEF Ahead, Edges
  <2>4. Left(w) = n + 1 - next[w] /\ Left(w)' = n - next[w]
    BY <2>1 DEF Left
  <2> HIDE DEF n
  <2>5. Budget(w)' = 4 * (Cardinality(Ahead(w)) + (n - next[w])) + 2 * Len(stack'[w]) + Rank[pc[w]]
    BY <2>1, <2>3, <2>4 DEF Budget
  <2>6. Budget(w) = 4 * (Cardinality(Ahead(w)) + (n + 1 - next[w])) + 2 * Len(stack[w]) + Rank[pc[w]]
    BY <2>4 DEF Budget
  <2>7. Rank[pc[w]] = 3
    BY <2>1 DEF Rank
  <2>8. /\ Cardinality(Ahead(w)) \in Nat /\ next[w] \in Nat /\ n \in Nat
        /\ Len(stack[w]) \in Nat
    BY <1>1, <2>1
  <2>9. \A c, k, i, l, m \in Nat : m <= l + 1 =>
            4 * (c + (k - i)) + 2 * m + 3 < 4 * (c + (k + 1 - i)) + 2 * l + 3
    OBVIOUS
  <2>10. 4 * (Cardinality(Ahead(w)) + (n - next[w])) + 2 * Len(stack'[w]) + 3
           < 4 * (Cardinality(Ahead(w)) + (n + 1 - next[w])) + 2 * Len(stack[w]) + 3
    BY <2>2, <2>8, <2>9
  <2>11. QED
    BY <2>5, <2>6, <2>7, <2>10
<1>5. CASE Pushed(w) \/ Finish(w) \/ Return(w)
  <2>1. /\ UNCHANGED <<downstream, stack, visited, current, next>>
        /\ \/ pc[w] = "push" /\ pc'[w] = "pop" /\ next[w] > Len(downstream[current[w]])
           \/ pc[w] = "pop" /\ pc'[w] = "done"
           \/ pc[w] = "done" /\ pc'[w] = "idle"
    BY <1>5 DEF Pushed, Finish, Return, TypeOK, graphVars
  <2>2. Ahead(w)' = Ahead(w)
    BY <2>1 DEF Ahead, Edges
  <2>3. Left(w) = 0 /\ Left(w)' = 0
    <3>1. next[w] \in Nat /\ Len(downstream[current[w]]) \in Nat
      BY DEF TypeOK
    <3>2. QED
      BY <2>1, <3>1 DEF Left
  <2>4. Budget(w) = 4 * (Cardinality(Ahead(w)) + 0) + 2 * Len(stack[w]) + Rank[pc[w]]
        /\ Budget(w)' = 4 * (Cardinality(Ahead(w)) + 0) + 2 * Len(stack[w]) + Rank[pc'[w]]
    BY <2>1, <2>2, <2>3 DEF Budget
  <2>5. Rank[pc[w]] = Rank[pc'[w]] + 1 /\ Rank[pc'[w]] \in Nat
    BY <2>1 DEF Rank
  <2>6. QED
    BY <1>1, <2>4, <2>5
<1>6. QED
  BY <1>2, <1>3, <1>4, <1>5 DEF WalkStep

(* A call begins with all edges ahead of it. *)
LEMMA BeginBudget ==
    ASSUME TypeOK, IsFiniteSet(Edges), NEW w \in Walkers, NEW e \in Execs, Begin(w, e)
    PROVE  Budget(w)' = 4 * Cardinality(Edges) + 4
<1>1. /\ pc'[w] = "pop" /\ stack'[w] = <<e>> /\ visited'[w] = {}
      /\ downstream' = downstream
  BY DEF Begin, TypeOK, graphVars
<1>2. Ahead(w)' = Edges
  BY <1>1 DEF Ahead, Edges
<1>3. Left(w)' = 0 /\ Rank[pc'[w]] = 2 /\ Len(stack'[w]) = 1
  BY <1>1 DEF Left, Rank
<1>4. Cardinality(Edges) \in Nat
  BY FS_CardinalityType
<1>5. Budget(w)' = 4 * (Cardinality(Edges) + 0) + 2 * 1 + 2
  BY <1>2, <1>3 DEF Budget
<1>6. QED
  BY <1>4, <1>5

(* Nobody else gives a walk more to do. *)
LEMMA OthersKeepBudget ==
    ASSUME TypeOK, [Next]_vars, NEW w \in Walkers, pc[w] # "idle", ~WalkStep(w)
    PROVE  Budget(w)' = Budget(w)
<1>1. /\ downstream' = downstream
      /\ pc'[w] = pc[w] /\ stack'[w] = stack[w] /\ visited'[w] = visited[w]
      /\ current'[w] = current[w] /\ next'[w] = next[w]
  <2>1. ASSUME NEW e \in Execs, NEW d \in Execs,
               AddDependency(e, d) \/ RemoveDependency(e, d)
        PROVE  FALSE
    BY <2>1 DEF AddDependency, RemoveDependency, WriteLocked, Idle
  <2>2. ASSUME NEW v \in Walkers, NEW e \in Execs, Begin(v, e)
        PROVE  <1>1
    <3>1. v # w
      BY <2>2 DEF Begin, Idle
    <3>2. QED
      BY <2>2, <3>1 DEF Begin, TypeOK, graphVars
  <2>3. ASSUME NEW v \in Walkers, WalkStep(v)
        PROVE  <1>1
    <3>1. v # w
      BY <2>3
    <3>2. QED
      BY <2>3, <3>1 DEF WalkStep, PopSkip, PopVisit, Push, Pushed, Finish, Return,
         TypeOK, graphVars
  <2>4. CASE UNCHANGED vars
    BY <2>4 DEF vars, graphVars, walkVars
  <2>5. QED
    BY <2>1, <2>2, <2>3, <2>4 DEF Next
<1>2. Ahead(w)' = Ahead(w) /\ Left(w)' = Left(w)
  BY <1>1 DEF Ahead, Edges, Left
<1>3. QED
  BY <1>1, <1>2 DEF Budget

(* Every step of a walk brings it nearer to its end: that it gets there,   *)
(* as WalkEnds says, needs only that it is scheduled.                      *)
THEOREM WalkBounded == Spec => WalkShrinks
<1>1. Spec => [](TypeOK /\ Mirrored)
  BY GraphInductive, PTL DEF Spec
<1>2. Spec => []IsFiniteSet(Edges)
  BY <1>1, EdgesStayFinite, PTL DEF Spec
<1>3. ASSUME TypeOK, Mirrored, IsFiniteSet(Edges), [Next]_vars, NEW w \in Walkers
      PROVE  /\ Budget(w) \in Nat
             /\ \A e \in Execs : Begin(w, e) => Budget(w)' = 4 * Cardinality(Edges) + 4
             /\ pc[w] # "idle" => IF WalkStep(w) THEN Budget(w)' < Budget(w)
                                  ELSE Budget(w)' = Budget(w)
  BY <1>3, BudgetParts, BeginBudget, StepShrinks, OthersKeepBudget
<1>4. TypeOK /\ Mirrored /\ IsFiniteSet(Edges) /\ [Next]_vars =>
          [\A w \in Walkers :
             /\ Budget(w) \in Nat
             /\ \A e \in Execs : Begin(w, e) => Budget(w)' = 4 * Cardinality(Edges) + 4
             /\ pc[w] # "idle" => IF WalkStep(w) THEN Budget(w)' < Budget(w)
                                  ELSE Budget(w)' = Budget(w)]_vars
  BY <1>3
<1>5. QED
  BY <1>1, <1>2, <1>4, PTL DEF Spec, WalkShrinks
=============================================================================
