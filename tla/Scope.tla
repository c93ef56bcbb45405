-------------------------------- MODULE Scope --------------------------------
(***************************************************************************)
(* scope.go, executor.go and controller.go: resolving, updating, releasing *)
(* and disposing executors in one scope, by goroutines that interleave.    *)
(*                                                                         *)
(* A goroutine inside Resolve or ResolveAny has a stack of frames, one per *)
(* active call.  A step is what happens between two accesses to what other *)
(* goroutines see: the cache (a sync.Map), the graph (under s.mu) or the   *)
(* cleanup registry (under cleanupMu).                                     *)
(*                                                                         *)
(* Values are abstracted to what the properties tell apart: where a value  *)
(* came from, the resource its factory opened, and the factories, presets  *)
(* and updates it was computed from.  Two runs of one factory on the same  *)
(* inputs give equal values unless they open something.  Types and         *)
(* extensions are left out.                                                *)
(***************************************************************************)
EXTENDS Executors

CONSTANTS
    Procs,         \* goroutines that use the scope
    ValuePresets,  \* executors preset to a value
    Replacement,   \* executor presets: a function from the replaced executors
    Closers,       \* executors whose factory calls OnCleanup
    Faulty,        \* executors whose factory may return an error
    Updatable,     \* executors the callers update
    FlowDeps,      \* executors that flows depend on
    Calls,         \* the calls the callers make
    Overlap,       \* may other calls overlap an Update?
    Cancellable,   \* may the context of an Update be cancelled?
    MaxCalls       \* bound on the number of calls

AllCalls == {"Get", "Exec", "Update", "Release", "Reload", "Dispose"}

ASSUME ScopeAssumption ==
    /\ MaxCalls \in Nat
    /\ ValuePresets \subseteq Execs
    /\ DOMAIN Replacement \subseteq Execs \ ValuePresets
    /\ \A e \in DOMAIN Replacement : Replacement[e] \in Execs
    /\ Calls \subseteq AllCalls
    /\ Overlap \in BOOLEAN
    /\ Cancellable \in BOOLEAN

VARIABLES
    cache,     \* cache[e]: the cached value, or NoValue
    edges,     \* the reactive graph: pairs <<dependency, dependent>>
    registry,  \* registry[e]: the run whose cleanups are registered, or 0
    runs,      \* the factory runs that registered cleanups: executor, times closed
    stack,     \* stack[p]: the Resolve and ResolveAny frames of p
    job,       \* job[p]: where p is in Update or Dispose
    calls,     \* calls made so far
    disposals  \* calls of Dispose so far

vars == <<cache, edges, registry, runs, stack, job, calls, disposals>>

-----------------------------------------------------------------------------
(* What a value is computed from: <<e, 0>> says that the factory of e took *)
(* part, <<e, n>> the update made by call n, and <<e, PresetVersion>> the  *)
(* value e is preset to.                                                   *)
PresetVersion == -1
Versions == Execs \X (PresetVersion..MaxCalls)

Kinds == {"none", "error", "factory", "preset", "update"}
Values == [kind : Kinds, run : Nat, data : SUBSET Versions]

Value(kind, run, data) == [kind |-> kind, run |-> run, data |-> data]
NoValue == Value("none", 0, {})
Failure == Value("error", 0, {})

(* Frames.  At "load", "link", "deps" and "store" the frame is a call of   *)
(* Resolve, at "gets" a call of ResolveAny; i counts the dependencies done *)
(* and got is what the last call it made returned.                         *)
Frames == [exec : Execs, at : {"load", "link", "deps", "store", "gets"},
           i : Nat, data : SUBSET Versions, got : Values]

Frame(e, at) == [exec |-> e, at |-> at, i |-> 0, data |-> {}, got |-> NoValue]
Resolve(e) == Frame(e, "load")
ResolveAny(e) == Frame(e, "gets")

(* Where a goroutine is in Update, with the executor it updates and the    *)
(* dependents it found, or in Dispose, with the runs it copied.            *)
Jobs == [at : {"idle", "self", "dependents", "delete", "dispose"},
         target : SUBSET Execs, version : Nat, victims : SUBSET Execs,
         todo : SUBSET Execs, held : SUBSET Nat]

NoJob == [at |-> "idle", target |-> {}, version |-> 0, victims |-> {},
          todo |-> {}, held |-> {}]

Idle(p) == stack[p] = <<>> /\ job[p] = NoJob
Quiet == \A p \in Procs : Idle(p)

(* A bug: only direct dependents are found. *)
DirectDependents(e) == { d \in Execs : <<e, d>> \in edges }

(* The executors Update invalidates: what FindDependents returns, see      *)
(* ReactiveGraph.  They are taken in any order, that of the slice included. *)
Dependents(e) == Reach(edges, Execs, e) \ {e}

-----------------------------------------------------------------------------
Init ==
    /\ cache = [e \in Execs |-> NoValue]
    /\ edges = {}
    /\ registry = [e \in Execs |-> 0]
    /\ runs = <<>>
    /\ stack = [p \in Procs |-> <<>>]
    /\ job = [p \in Procs |-> NoJob]
    /\ calls = 0
    /\ disposals = 0

(* The stack discipline: the top frame of p goes on as f, calls g, or      *)
(* returns v to the frame below it.                                        *)
Top(p) == Last(stack[p])

Goto(p, f) == stack' = [stack EXCEPT ![p] = Append(Front(@), f)]

Invoke(p, f, g) == stack' = [stack EXCEPT ![p] = Append(Append(Front(@), f), g)]

Return(p, v) ==
    stack' = [stack EXCEPT ![p] =
        IF Len(@) = 1 THEN <<>>
        ELSE Append(Front(Front(@)), [Last(Front(@)) EXCEPT !.got = v])]

At(p, label) == stack[p] # <<>> /\ Top(p).at = label

-----------------------------------------------------------------------------
(* The calls.  Without Overlap the callers keep an Update apart from       *)
(* everything else.                                                        *)
Begin(p, call) ==
    /\ call \in Calls
    /\ Idle(p)
    /\ calls < MaxCalls
    /\ calls' = calls + 1
    /\ Overlap \/ \A q \in Procs : job[q] = NoJob

(* Resolve and Controller.Get. *)
Get(p, e) ==
    /\ Begin(p, "Get")
    /\ stack' = [stack EXCEPT ![p] = <<Resolve(e)>>]
    /\ UNCHANGED <<cache, edges, registry, runs, job, disposals>>

(* Exec and Exec1 run the factories of a flow's dependencies. *)
FlowDependency(p, e) ==
    /\ Begin(p, "Exec")
    /\ e \in FlowDeps
    /\ stack' = [stack EXCEPT ![p] = <<ResolveAny(e)>>]
    /\ UNCHANGED <<cache, edges, registry, runs, job, disposals>>

Release(p, e) ==
    /\ Begin(p, "Release")
    /\ cache' = [cache EXCEPT ![e] = NoValue]
    /\ UNCHANGED <<edges, registry, runs, stack, job, disposals>>

Reload(p, e) ==
    /\ Begin(p, "Reload")
    /\ cache' = [cache EXCEPT ![e] = NoValue]
    /\ stack' = [stack EXCEPT ![p] = <<Resolve(e)>>]
    /\ UNCHANGED <<edges, registry, runs, job, disposals>>

-----------------------------------------------------------------------------
(* A bug: the cache is read for the callers of the scope only, and not for *)
(* what a factory Gets.                                                    *)
LoadForCallers(p) ==
    /\ At(p, "load")
    /\ LET f == Top(p) IN
        IF cache[f.exec].kind # "none" /\ Len(stack[p]) = 1
        THEN Return(p, cache[f.exec])
        ELSE Goto(p, [f EXCEPT !.at = "link"])
    /\ UNCHANGED <<cache, edges, registry, runs, job, calls, disposals>>

(* Resolve: the cache is read; a hit is returned. *)
Load(p) ==
    /\ At(p, "load")
    /\ LET f == Top(p) IN
        IF cache[f.exec].kind # "none"
        THEN Return(p, cache[f.exec])
        ELSE Goto(p, [f EXCEPT !.at = "link"])
    /\ UNCHANGED <<cache, edges, registry, runs, job, calls, disposals>>

(* A bug: a preset returns before the reactive edges are added. *)
LinkAfterPresets(p) ==
    /\ At(p, "link")
    /\ LET f == Top(p)
           e == f.exec
       IN  \/ /\ e \in ValuePresets
              /\ Goto(p, [f EXCEPT !.at = "store",
                     !.got = Value("preset", 0, {<<e, PresetVersion>>})])
              /\ UNCHANGED edges
           \/ /\ e \in DOMAIN Replacement
              /\ Invoke(p, [f EXCEPT !.at = "store"], ResolveAny(Replacement[e]))
              /\ UNCHANGED edges
           \/ /\ e \notin ValuePresets \union DOMAIN Replacement
              /\ Goto(p, [f EXCEPT !.at = "deps"])
              /\ edges' = edges \union (Reactive[e] \X {e})
    /\ UNCHANGED <<cache, registry, runs, job, calls, disposals>>

(* Under s.mu the reactive edges are added; then the presets, which never  *)
(* change, decide how to go on.                                            *)
Link(p) ==
    /\ At(p, "link")
    /\ LET f == Top(p)
           e == f.exec
       IN  /\ edges' = edges \union (Reactive[e] \X {e})
           /\ \/ /\ e \in ValuePresets
                 /\ Goto(p, [f EXCEPT !.at = "store",
                        !.got = Value("preset", 0, {<<e, PresetVersion>>})])
              \/ /\ e \in DOMAIN Replacement
                 /\ Invoke(p, [f EXCEPT !.at = "store"], ResolveAny(Replacement[e]))
              \/ /\ e \notin ValuePresets \union DOMAIN Replacement
                 /\ Goto(p, [f EXCEPT !.at = "deps"])
    /\ UNCHANGED <<cache, registry, runs, job, calls, disposals>>

(* A bug: the loop over the dependencies does not advance. *)
PreResolveStuck(p) ==
    /\ At(p, "deps")
    /\ LET f == Top(p)
           e == f.exec
       IN  IF f.got.kind = "error" THEN Return(p, Failure)
           ELSE IF f.i < Len(Eager[e])
           THEN Invoke(p, [f EXCEPT !.got = NoValue], ResolveAny(Eager[e][f.i + 1]))
           ELSE Invoke(p, [f EXCEPT !.at = "store", !.got = NoValue], ResolveAny(e))
    /\ UNCHANGED <<cache, edges, registry, runs, job, calls, disposals>>

(* A bug: what running a dependency returned is cached for it. *)
PreResolveKeeping(p) ==
    /\ At(p, "deps")
    /\ LET f == Top(p)
           e == f.exec
       IN  /\ IF f.got.kind = "error" THEN Return(p, Failure)
              ELSE IF f.i < Len(Eager[e])
              THEN Invoke(p, [f EXCEPT !.i = @ + 1, !.got = NoValue],
                          ResolveAny(Eager[e][f.i + 1]))
              ELSE Invoke(p, [f EXCEPT !.at = "store", !.got = NoValue], ResolveAny(e))
           /\ cache' = IF f.got.kind \in {"none", "error"} THEN cache
                       ELSE [cache EXCEPT ![Eager[e][f.i]] = f.got]
    /\ UNCHANGED <<edges, registry, runs, job, calls, disposals>>

(* Each dependency that is not lazy is run through ResolveAny and its      *)
(* result is dropped; then the executor's own factory is run.              *)
PreResolve(p) ==
    /\ At(p, "deps")
    /\ LET f == Top(p)
           e == f.exec
       IN  IF f.got.kind = "error" THEN Return(p, Failure)
           ELSE IF f.i < Len(Eager[e])
           THEN Invoke(p, [f EXCEPT !.i = @ + 1, !.got = NoValue],
                       ResolveAny(Eager[e][f.i + 1]))
           ELSE Invoke(p, [f EXCEPT !.at = "store", !.got = NoValue], ResolveAny(e))
    /\ UNCHANGED <<cache, edges, registry, runs, job, calls, disposals>>

(* A bug: an error is cached too. *)
StoreErrors(p) ==
    /\ At(p, "store")
    /\ Return(p, Top(p).got)
    /\ cache' = [cache EXCEPT ![Top(p).exec] = Top(p).got]
    /\ UNCHANGED <<edges, registry, runs, job, calls, disposals>>

(* The value that came back is cached and returned; an error is not cached. *)
StoreValue(p) ==
    /\ At(p, "store")
    /\ LET e == Top(p).exec
           v == Top(p).got
       IN  /\ Return(p, v)
           /\ cache' = IF v.kind = "error" THEN cache ELSE [cache EXCEPT ![e] = v]
    /\ UNCHANGED <<edges, registry, runs, job, calls, disposals>>

(* ResolveAny: the factory Gets what it reads, one after the other, and    *)
(* gives up when one fails.                                                *)
Gather(p) == Top(p).data \union Top(p).got.data

(* A bug: the controller runs the factory of what it is asked for. *)
FactoryGetDirectly(p) ==
    /\ At(p, "gets")
    /\ LET f == Top(p) IN
        /\ f.got.kind # "error"
        /\ f.i < Len(Reads[f.exec])
        /\ Invoke(p, [f EXCEPT !.i = @ + 1, !.got = NoValue, !.data = Gather(p)],
                  ResolveAny(Reads[f.exec][f.i + 1]))
    /\ UNCHANGED <<cache, edges, registry, runs, job, calls, disposals>>

FactoryGet(p) ==
    /\ At(p, "gets")
    /\ LET f == Top(p) IN
        /\ f.got.kind # "error"
        /\ f.i < Len(Reads[f.exec])
        /\ Invoke(p, [f EXCEPT !.i = @ + 1, !.got = NoValue, !.data = Gather(p)],
                  Resolve(Reads[f.exec][f.i + 1]))
    /\ UNCHANGED <<cache, edges, registry, runs, job, calls, disposals>>

FactoryFail(p) ==
    /\ At(p, "gets")
    /\ LET f == Top(p) IN
        \/ f.got.kind = "error"
        \/ f.exec \in Faulty /\ f.i = Len(Reads[f.exec])
    /\ Return(p, Failure)
    /\ UNCHANGED <<cache, edges, registry, runs, job, calls, disposals>>

(* The factory returns; what it passed to OnCleanup is registered in place *)
(* of what an earlier run had registered.                                  *)
FactoryDone(p) ==
    /\ At(p, "gets")
    /\ LET f == Top(p)
           e == f.exec
           run == IF e \in Closers THEN Len(runs) + 1 ELSE 0
       IN  /\ f.got.kind # "error"
           /\ f.i = Len(Reads[e])
           /\ Return(p, Value("factory", run, {<<e, 0>>} \union Gather(p)))
           /\ IF e \in Closers
              THEN /\ runs' = Append(runs, [exec |-> e, closed |-> 0])
                   /\ registry' = [registry EXCEPT ![e] = run]
              ELSE UNCHANGED <<runs, registry>>
    /\ UNCHANGED <<cache, edges, job, calls, disposals>>

-----------------------------------------------------------------------------
(* cleanupExecutor: take the entries from the registry and run them. *)
Close(r) == runs' = [runs EXCEPT ![r].closed = @ + 1]

(* A bug: the entries stay in the registry. *)
CleanupKeeping(e) ==
    /\ UNCHANGED registry
    /\ IF registry[e] = 0 THEN UNCHANGED runs ELSE Close(registry[e])

Cleanup(e) ==
    /\ registry' = [registry EXCEPT ![e] = 0]
    /\ IF registry[e] = 0 THEN UNCHANGED runs ELSE Close(registry[e])

(* Update: collect the dependents under s.mu. *)
Update(p, e) ==
    /\ Begin(p, "Update")
    /\ e \in Updatable
    /\ Overlap \/ Quiet
    /\ job' = [job EXCEPT ![p] =
            [at |-> "self", target |-> {e}, version |-> calls + 1,
             victims |-> Dependents(e), todo |-> Dependents(e), held |-> {}]]
    /\ UNCHANGED <<cache, edges, registry, runs, stack, disposals>>

UpdateSelf(p, e) ==
    /\ job[p].at = "self"
    /\ job[p].target = {e}
    /\ Cleanup(e)
    /\ job' = [job EXCEPT ![p].at = "dependents"]
    /\ UNCHANGED <<cache, edges, stack, calls, disposals>>

UpdateDependent(p, d) ==
    /\ job[p].at = "dependents"
    /\ d \in job[p].todo
    /\ Cleanup(d)
    /\ job' = [job EXCEPT ![p].todo = @ \ {d}]
    /\ UNCHANGED <<cache, edges, stack, calls, disposals>>

(* A cancelled context is seen before each dependent and before the store. *)
UpdateCancelled(p) ==
    /\ Cancellable
    /\ job[p].at = "dependents"
    /\ job' = [job EXCEPT ![p] = NoJob]
    /\ UNCHANGED <<cache, edges, registry, runs, stack, calls, disposals>>

(* A bug: the dependents stay cached. *)
UpdateStoreOnly(p, e) ==
    /\ job[p].at = "dependents"
    /\ job[p].target = {e}
    /\ job[p].todo = {}
    /\ cache' = [cache EXCEPT ![e] = Value("update", 0, {<<e, job[p].version>>})]
    /\ job' = [job EXCEPT ![p] = NoJob]
    /\ UNCHANGED <<edges, registry, runs, stack, calls, disposals>>

UpdateStore(p, e) ==
    /\ job[p].at = "dependents"
    /\ job[p].target = {e}
    /\ job[p].todo = {}
    /\ cache' = [cache EXCEPT ![e] = Value("update", 0, {<<e, job[p].version>>})]
    /\ job' = [job EXCEPT ![p] =
            IF job[p].victims = {} THEN NoJob
            ELSE [job[p] EXCEPT !.at = "delete", !.todo = job[p].victims]]
    /\ UNCHANGED <<edges, registry, runs, stack, calls, disposals>>

UpdateDelete(p, d) ==
    /\ job[p].at = "delete"
    /\ d \in job[p].todo
    /\ cache' = [cache EXCEPT ![d] = NoValue]
    /\ job' = [job EXCEPT ![p] =
            IF job[p].todo = {d} THEN NoJob ELSE [job[p] EXCEPT !.todo = @ \ {d}]]
    /\ UNCHANGED <<edges, registry, runs, stack, calls, disposals>>

(* Dispose: copy the registry under cleanupMu, leaving it as it is, and    *)
(* run what was copied, in the order of a Go map.                          *)
Dispose(p) ==
    /\ Begin(p, "Dispose")
    /\ LET copied == { registry[e] : e \in Execs } \ {0}
       IN  job' = [job EXCEPT ![p] = IF copied = {} THEN NoJob
                                     ELSE [NoJob EXCEPT !.at = "dispose", !.held = copied]]
    /\ disposals' = disposals + 1
    /\ UNCHANGED <<cache, edges, registry, runs, stack>>

DisposeRun(p, r) ==
    /\ job[p].at = "dispose"
    /\ r \in job[p].held
    /\ Close(r)
    /\ job' = [job EXCEPT ![p] =
            IF job[p].held = {r} THEN NoJob ELSE [job[p] EXCEPT !.held = @ \ {r}]]
    /\ UNCHANGED <<cache, edges, registry, stack, calls, disposals>>

-----------------------------------------------------------------------------
Call(p) ==
    \/ \E e \in Execs : Get(p, e)
    \/ \E e \in Execs : FlowDependency(p, e)
    \/ \E e \in Execs : Release(p, e)
    \/ \E e \in Execs : Reload(p, e)
    \/ \E e \in Execs : Update(p, e)
    \/ Dispose(p)

Step(p) ==
    \/ Load(p)
    \/ Link(p)
    \/ PreResolve(p)
    \/ StoreValue(p)
    \/ FactoryGet(p)
    \/ FactoryFail(p)
    \/ FactoryDone(p)
    \/ \E e \in Execs : UpdateSelf(p, e)
    \/ \E d \in Execs : UpdateDependent(p, d)
    \/ UpdateCancelled(p)
    \/ \E e \in Execs : UpdateStore(p, e)
    \/ \E d \in Execs : UpdateDelete(p, d)
    \/ \E r \in 1..Len(runs) : DisposeRun(p, r)

(* The callers have made all their calls and all have returned. *)
AllReturned == Quiet /\ calls = MaxCalls /\ UNCHANGED vars

Next == (\E p \in Procs : Call(p) \/ Step(p)) \/ AllReturned

Spec == Init /\ [][Next]_vars

(* A goroutine inside a call is scheduled again, and factories and         *)
(* cleanups return; nobody is obliged to call anything.                    *)
Fairness == \A p \in Procs : WF_vars(Step(p))

FairSpec == Spec /\ Fairness
=============================================================================
