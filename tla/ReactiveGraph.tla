---------------------------- MODULE ReactiveGraph ----------------------------
(***************************************************************************)
(* graph.go: the reactive dependency graph of a scope.                     *)
(*                                                                         *)
(* The graph is kept twice, as adjacency slices from a dependency to its   *)
(* dependents (downstream) and back (upstream).  Writers hold g.mu and     *)
(* change both maps in one step.  FindDependents holds g.mu for reading    *)
(* over its whole loop, so several walks interleave with each other and    *)
(* none interleaves with a writer; its loop is modelled one pop and one    *)
(* pushed dependent at a time.                                             *)
(*                                                                         *)
(* A key whose slice is empty and a missing key are read alike everywhere  *)
(* in graph.go, so both are <<>> here.  resetVisited clears two maps that  *)
(* nothing ever fills and has no counterpart.                              *)
(***************************************************************************)
EXTENDS Integers, SequencesExt, Reachability

CONSTANTS
    Execs,       \* executors
    Walkers,     \* goroutines that call FindDependents
    MaxChanges   \* bound on the calls of AddDependency and RemoveDependency

ASSUME MaxChangesAssumption == MaxChanges \in Nat

VARIABLES
    downstream,  \* downstream[d]: slice of the dependents of d
    upstream,    \* upstream[e]: slice of the dependencies of e
    changes,     \* calls of the two writers so far
    pc,          \* where each walker is: "idle", "pop", "push" or "done"
    start,       \* argument of the walker's FindDependents
    stack,       \* the explicit stack of its loop
    visited,     \* the executors its loop has taken from the stack
    dependents,  \* the slice it returns
    current,     \* the executor being expanded
    next         \* index in downstream[current] of the next one to push

graphVars == <<downstream, upstream, changes>>
walkVars == <<pc, start, stack, visited, dependents, current, next>>
vars == <<graphVars, walkVars>>

-----------------------------------------------------------------------------
(* A bug: the item is appended again. *)
appendAlways(slice, item) == Append(slice, item)

appendUnique(slice, item) ==
    IF item \in ToSet(slice) THEN slice ELSE Append(slice, item)

(* Where item first occurs in slice. *)
FirstIndex(slice, item) ==
    CHOOSE i \in 1..Len(slice) :
        slice[i] = item /\ \A j \in 1..Len(slice) : slice[j] = item => i <= j

removeElement(slice, item) ==
    IF item \in ToSet(slice)
    THEN LET i == FirstIndex(slice, item)
         IN  [k \in 1..(Len(slice) - 1) |-> IF k < i THEN slice[k] ELSE slice[k + 1]]
    ELSE slice

(* The edges of the graph, from dependency to dependent. *)
Edges == { edge \in Execs \X Execs : edge[2] \in ToSet(downstream[edge[1]]) }

Idle(w) == pc[w] = "idle"

-----------------------------------------------------------------------------
Init ==
    /\ downstream = [e \in Execs |-> <<>>]
    /\ upstream = [e \in Execs |-> <<>>]
    /\ changes = 0
    /\ pc = [w \in Walkers |-> "idle"]
    /\ start \in [Walkers -> Execs]
    /\ current = start
    /\ stack = [w \in Walkers |-> <<>>]
    /\ visited = [w \in Walkers |-> {}]
    /\ dependents = [w \in Walkers |-> <<>>]
    /\ next = [w \in Walkers |-> 1]

(* A writer has g.mu: no walker holds it for reading. *)
WriteLocked == \A w \in Walkers : Idle(w)

AddDependency(dependent, dependency) ==
    /\ WriteLocked
    /\ changes < MaxChanges
    /\ changes' = changes + 1
    /\ downstream' = [downstream EXCEPT
            ![dependency] = appendUnique(@, dependent)]
    /\ upstream' = [upstream EXCEPT
            ![dependent] = appendUnique(@, dependency)]
    /\ UNCHANGED walkVars

RemoveDependency(dependent, dependency) ==
    /\ WriteLocked
    /\ changes < MaxChanges
    /\ changes' = changes + 1
    /\ downstream' = [downstream EXCEPT
            ![dependency] = removeElement(@, dependent)]
    /\ upstream' = [upstream EXCEPT
            ![dependent] = removeElement(@, dependency)]
    /\ UNCHANGED walkVars

(* FindDependents(e): take g.mu for reading and push the start node. *)
Begin(w, e) ==
    /\ Idle(w)
    /\ pc' = [pc EXCEPT ![w] = "pop"]
    /\ start' = [start EXCEPT ![w] = e]
    /\ current' = [current EXCEPT ![w] = e]
    /\ stack' = [stack EXCEPT ![w] = <<e>>]
    /\ visited' = [visited EXCEPT ![w] = {}]
    /\ dependents' = [dependents EXCEPT ![w] = <<>>]
    /\ next' = [next EXCEPT ![w] = 1]
    /\ UNCHANGED graphVars

Top(w) == Last(stack[w])
Popped(w) == Front(stack[w])

(* Pop an executor met before: continue. *)
PopSkip(w) ==
    /\ pc[w] = "pop"
    /\ stack[w] # <<>>
    /\ Top(w) \in visited[w]
    /\ stack' = [stack EXCEPT ![w] = Popped(w)]
    /\ UNCHANGED <<graphVars, pc, start, visited, dependents, current, next>>

(* A bug: the executor is not marked. *)
PopVisitUnmarked(w) ==
    /\ pc[w] = "pop"
    /\ stack[w] # <<>>
    /\ Top(w) \notin visited[w]
    /\ stack' = [stack EXCEPT ![w] = Popped(w)]
    /\ current' = [current EXCEPT ![w] = Top(w)]
    /\ next' = [next EXCEPT ![w] = 1]
    /\ pc' = [pc EXCEPT ![w] = "push"]
    /\ UNCHANGED <<graphVars, start, visited, dependents>>

(* A bug: the range loop counts from zero. *)
PopVisitFromZero(w) ==
    /\ pc[w] = "pop"
    /\ stack[w] # <<>>
    /\ Top(w) \notin visited[w]
    /\ stack' = [stack EXCEPT ![w] = Popped(w)]
    /\ visited' = [visited EXCEPT ![w] = @ \union {Top(w)}]
    /\ dependents' = [dependents EXCEPT
            ![w] = IF Top(w) # start[w] THEN Append(@, Top(w)) ELSE @]
    /\ current' = [current EXCEPT ![w] = Top(w)]
    /\ next' = [next EXCEPT ![w] = 0]
    /\ pc' = [pc EXCEPT ![w] = "push"]
    /\ UNCHANGED <<graphVars, start>>

(* A bug: the walks share the visited map, as the map of the graph is.     *)
PopVisitShared(w) ==
    /\ pc[w] = "pop"
    /\ stack[w] # <<>>
    /\ Top(w) \notin visited[w]
    /\ stack' = [stack EXCEPT ![w] = Popped(w)]
    /\ visited' = [v \in Walkers |-> visited[v] \union {Top(w)}]
    /\ dependents' = [dependents EXCEPT
            ![w] = IF Top(w) # start[w] THEN Append(@, Top(w)) ELSE @]
    /\ current' = [current EXCEPT ![w] = Top(w)]
    /\ next' = [next EXCEPT ![w] = 1]
    /\ pc' = [pc EXCEPT ![w] = "push"]
    /\ UNCHANGED <<graphVars, start>>

(* Pop a new executor: mark it, and report it unless it is the start. *)
PopVisit(w) ==
    /\ pc[w] = "pop"
    /\ stack[w] # <<>>
    /\ Top(w) \notin visited[w]
    /\ stack' = [stack EXCEPT ![w] = Popped(w)]
    /\ visited' = [visited EXCEPT ![w] = @ \union {Top(w)}]
    /\ dependents' = [dependents EXCEPT
            ![w] = IF Top(w) # start[w] THEN Append(@, Top(w)) ELSE @]
    /\ current' = [current EXCEPT ![w] = Top(w)]
    /\ next' = [next EXCEPT ![w] = 1]
    /\ pc' = [pc EXCEPT ![w] = "push"]
    /\ UNCHANGED <<graphVars, start>>

(* One turn of the range loop over the direct dependents of current. *)
Push(w) ==
    /\ pc[w] = "push"
    /\ next[w] <= Len(downstream[current[w]])
    /\ LET dep == downstream[current[w]][next[w]]
       IN  stack' = [stack EXCEPT
                ![w] = IF dep \notin visited[w] THEN Append(@, dep) ELSE @]
    /\ next' = [next EXCEPT ![w] = @ + 1]
    /\ UNCHANGED <<graphVars, pc, start, visited, dependents, current>>

(* A bug: the range loop leaves the last dependent out. *)
PushedEarly(w) ==
    /\ pc[w] = "push"
    /\ next[w] >= Len(downstream[current[w]])
    /\ pc' = [pc EXCEPT ![w] = "pop"]
    /\ UNCHANGED <<graphVars, start, stack, visited, dependents, current, next>>

(* The range loop is over: back to the test of the outer loop. *)
Pushed(w) ==
    /\ pc[w] = "push"
    /\ next[w] > Len(downstream[current[w]])
    /\ pc' = [pc EXCEPT ![w] = "pop"]
    /\ UNCHANGED <<graphVars, start, stack, visited, dependents, current, next>>

(* The stack is empty: the slice is what the call returns. *)
Finish(w) ==
    /\ pc[w] = "pop"
    /\ stack[w] = <<>>
    /\ pc' = [pc EXCEPT ![w] = "done"]
    /\ UNCHANGED <<graphVars, start, stack, visited, dependents, current, next>>

(* The deferred RUnlock. *)
Return(w) ==
    /\ pc[w] = "done"
    /\ pc' = [pc EXCEPT ![w] = "idle"]
    /\ UNCHANGED <<graphVars, start, stack, visited, dependents, current, next>>

(* The steps FindDependents takes once it is called. *)
WalkStep(w) ==
    \/ PopSkip(w)
    \/ PopVisit(w)
    \/ Push(w)
    \/ Pushed(w)
    \/ Finish(w)
    \/ Return(w)

Next ==
    \/ \E dependent, dependency \in Execs : AddDependency(dependent, dependency)
    \/ \E dependent, dependency \in Execs : RemoveDependency(dependent, dependency)
    \/ \E w \in Walkers, e \in Execs : Begin(w, e)
    \/ \E w \in Walkers : WalkStep(w)

Spec == Init /\ [][Next]_vars

(* A goroutine inside FindDependents is scheduled again; nobody is obliged *)
(* to call anything.                                                       *)
FairSpec == Spec /\ \A w \in Walkers : WF_vars(WalkStep(w))

-----------------------------------------------------------------------------
(* Every variable stays in its type, for any number of walkers.            *)
TypeOK ==
    /\ downstream \in [Execs -> Seq(Execs)]
    /\ upstream \in [Execs -> Seq(Execs)]
    /\ changes \in 0..MaxChanges
    /\ pc \in [Walkers -> {"idle", "pop", "push", "done"}]
    /\ start \in [Walkers -> Execs]
    /\ stack \in [Walkers -> Seq(Execs)]
    /\ visited \in [Walkers -> SUBSET Execs]
    /\ dependents \in [Walkers -> Seq(Execs)]
    /\ current \in [Walkers -> Execs]
    /\ next \in [Walkers -> Nat \ {0}]

Unique(s) == \A i, j \in 1..Len(s) : s[i] = s[j] => i = j

(* After any history of AddDependency and RemoveDependency (graph.go       *)
(* 29-57) the two adjacency maps describe the same edges and no slice      *)
(* holds an executor twice.  removeElement takes out one occurrence only,  *)
(* so a duplicate would leave a removed dependency behind.                 *)
Mirrored ==
    \A d, e \in Execs :
        /\ e \in ToSet(downstream[d]) <=> d \in ToSet(upstream[e])
        /\ Unique(downstream[d])
        /\ Unique(upstream[e])

(* What FindDependents returns (graph.go 102) is exactly the executors     *)
(* reachable from its argument, without the argument and without           *)
(* repetition, on every graph: diamonds, cycles and self-loops included.   *)
WalkResult ==
    \A w \in Walkers : pc[w] = "done" =>
        /\ ToSet(dependents[w]) = Reach(Edges, Execs, start[w]) \ {start[w]}
        /\ Unique(dependents[w])

(* The loop invariant of FindDependents (graph.go 75-100): everything met  *)
(* so far is reachable, the slice holds what was visited, and a dependent  *)
(* of a visited executor is visited, on the stack, or still to be pushed.  *)
LoopInvariant ==
    \A w \in Walkers : pc[w] # "idle" =>
        /\ visited[w] \union ToSet(stack[w]) \subseteq Reach(Edges, Execs, start[w])
        /\ start[w] \in visited[w] \union ToSet(stack[w])
        /\ ToSet(dependents[w]) = visited[w] \ {start[w]}
        /\ Unique(dependents[w])
        /\ pc[w] = "push" => current[w] \in visited[w]
        /\ pc[w] = "done" => stack[w] = <<>>
        /\ \A a \in visited[w] : \A i \in 1..Len(downstream[a]) :
              \/ downstream[a][i] \in visited[w] \union ToSet(stack[w])
              \/ pc[w] = "push" /\ a = current[w] /\ i >= next[w]

(* FindDependents returns on every graph, cyclic ones included (graph.go   *)
(* 59-60, 75-100).                                                         *)
WalkEnds == \A w \in Walkers : (pc[w] # "idle") ~> (pc[w] = "idle")
=============================================================================
