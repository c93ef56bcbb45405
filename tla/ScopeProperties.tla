--------------------------- MODULE ScopeProperties ---------------------------
(***************************************************************************)
(* What is true of a scope: always, when no call is under way, when the    *)
(* callers keep updates apart, and what the repository says of it.         *)
(***************************************************************************)
EXTENDS Scope

(* Every variable stays in its type; no error is ever cached, and nobody   *)
(* holds a run that was not made (scope.go 196-205, 299-320, 354-371).     *)
ScopeTypeOK ==
    /\ cache \in [Execs -> Values]
    /\ edges \subseteq Execs \X Execs
    /\ registry \in [Execs -> 0..Len(runs)]
    /\ runs \in Seq([exec : Execs, closed : Nat])
    /\ stack \in [Procs -> Seq(Frames)]
    /\ job \in [Procs -> Jobs]
    /\ calls \in 0..MaxCalls
    /\ disposals \in 0..MaxCalls
    /\ \A e \in Execs : cache[e].kind # "error" /\ cache[e].run <= Len(runs)
    /\ \A p \in Procs : job[p].held \subseteq 1..Len(runs)

-----------------------------------------------------------------------------
(* Whatever interleaves: updates, releases, disposals, failing factories.  *)

IsLinked(e) == Reactive[e] \X {e} \subseteq edges

(* A value that a Resolve cached has all its declared reactive edges in    *)
(* the graph, so that the next Update finds it (scope.go 110-117 before    *)
(* 133, 150 and 205).                                                      *)
Linked ==
    \A e \in Execs :
        cache[e].kind \in {"factory", "preset"} => IsLinked(e)

(* The cleanups of one run run at most once outside Dispose, and at most   *)
(* once more for every Dispose, which leaves them registered; what is      *)
(* registered has been run by nothing but a Dispose (scope.go 299-320,     *)
(* 354-371).                                                               *)
Registered(r) == registry[runs[r].exec] = r

CleanedOnce ==
    \A r \in 1..Len(runs) :
        runs[r].closed <= disposals + (IF Registered(r) THEN 0 ELSE 1)

(* A preset keeps the factory it replaces out of the cache: no cached      *)
(* value, its own executor's included, is one that this factory made or    *)
(* took part in, although a Resolve of a dependent and a flow do run that  *)
(* factory and drop what it returns (scope.go 119-161).                    *)
PresetHolds ==
    \A e \in ValuePresets \union DOMAIN Replacement, x \in Execs :
        <<e, 0>> \notin cache[x].data

(* Every call returns: no call waits for another one and the recursion     *)
(* over the dependencies ends.                                             *)
CallsReturn == \A p \in Procs : ~Idle(p) ~> Idle(p)

-----------------------------------------------------------------------------
(* When no call is under way, or the callers keep updates apart.           *)

(* A cached value that its own factory made was computed from the cached   *)
(* values of its reactive dependencies: reading it never shows an older    *)
(* source than reading them (executor.go 52-53, scope.go 229-264).         *)
FreshWhenQuiet ==
    Quiet => \A e \in Execs \ DOMAIN Replacement : cache[e].kind = "factory" =>
        \A d \in Reactive[e] :
            cache[d].kind # "none" => cache[d].data \subseteq cache[e].data

(* No cached value stands on a resource whose cleanup has run (scope.go    *)
(* 239-264).                                                               *)
UsableWhenQuiet ==
    Quiet => \A e \in Execs : cache[e].run # 0 => runs[cache[e].run].closed = 0

(* The resource of a cached value is the one its executor has registered,  *)
(* for an executor that neither another one nor a flow runs as a           *)
(* dependency: Update and Dispose then clean up what is in use (scope.go   *)
(* 205, 306).                                                              *)
Roots == { e \in Execs \ FlowDeps : \A x \in Execs : e \notin ToSet(Eager[x]) }

RootsRegistered ==
    Quiet => \A e \in Roots : cache[e].run # 0 => registry[e] = cache[e].run

(* The scope implements ReactiveStore: a dependent that an Update has yet  *)
(* to delete counts as gone from the moment the new value is stored.       *)
Doomed == UNION { job[p].todo : p \in { q \in Procs : job[q].at = "delete" } }

Store == INSTANCE ReactiveStore WITH
    Stamps <- 1..MaxCalls,
    value <- [e \in Execs |-> IF e \in Doomed THEN {} ELSE cache[e].data]

ImplementsStore == Store!Spec

(* Seen that way a value is never older than what it was derived from, not *)
(* even between the steps of an Update.                                    *)
StoreFresh == Store!Fresh

-----------------------------------------------------------------------------
(* What the repository says and the code does not do.                      *)

(* SKILL.md 191 and 203: Dispose runs all cleanups; what is resolved is    *)
(* cached and cleaned up on dispose.  When a Dispose returns and nothing   *)
(* else is under way, every run that opened something has been closed.     *)
DisposeCleansAll ==
    [][(\E p \in Procs : job[p].at = "dispose") /\ Quiet' =>
          \A r \in 1..Len(runs) : runs'[r].closed > 0]_vars
=============================================================================
