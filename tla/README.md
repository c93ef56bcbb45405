# Verification of pumped-go

pumped-go is a dependency-injection library for Go. A program declares
*executors* (a factory and what it depends on) and resolves them in a *scope*,
which caches their values, invalidates dependents when a value is updated, and
runs cleanups. *Flows* are short executions on top of a scope. *Extensions*
wrap what a scope does. The repository comes with examples, three of which keep
state of their own. This directory models the library and these examples in
TLA+, checks them with TLC on small instances, and proves the central facts
with TLAPS for all instances.

## 1. The system

### Components

| Component | Source | State | Operations | Status |
|---|---|---|---|---|
| reactive graph | `graph.go` | `dependents`, `dependencies`: two maps of slices | AddDependency, RemoveDependency, FindDependents | modelled |
| scope | `scope.go` | `cache` (a `sync.Map`), `graph`, `presets`, `cleanupRegistry`, `extensions`, `execTree` | NewScope, Resolve, Update, cleanup, Dispose, UseExtension, Exec | modelled |
| executors | `executor.go`, `executor_generated.go`, `context.go` | immutable declarations | Provide, Derive1..9, ResolveAny, OnCleanup | modelled |
| controllers | `controller.go` | none | Get, Update/Set, Release, Reload, Peek, IsCached | modelled |
| flows | `flow.go`, `flow_generated.go`, `scope.go` Exec | `ExecutionCtx.data` of each execution, a result channel | Exec, Exec1, executeFlow, finalize | modelled |
| execution tree | `flow.go` | `nodes`, `byParent`, `roots`, `limit` | addNode, evictOldest, removeSubtree | modelled |
| extensions | `scope.go`, `extension.go` | the scope's slice of extensions | UseExtension; Resolve, Update, Exec and Dispose that call hooks | modelled |
| graph debug extension | `extensions/graph_debug.go` | none that its trees depend on | draws the graph when a Resolve fails | partly: the trees |
| health monitor: scheduler | `examples/health-monitor/scheduler.go` | `running`, `stopCh`, `wg`, a loop with its ticker, goroutines of checks | Start, Stop, run, performCheck | modelled |
| health monitor: incident detector | `incident_detector.go`, `repositories.go` | tables of services, checks and incidents | ProcessHealthCheck, the statements | modelled |
| health monitor: handlers, wiring | `handlers.go`, `graph.go`, `main.go` | none | Create, Update, Delete, TriggerCheck; reads | partly: no HTTP, no executors |
| http-api | `examples/http-api` | a store of users and posts for every run of its factory | the seven handlers over three services | modelled |
| cli-tasks | `examples/cli-tasks` | a file of tasks, or memory | add, list, complete, stats | modelled |
| tags, errors, typed cache | `tag.go`, `errors.go`, `cache.go` | maps of tags | typed accessors, error values; `cache.go` is used by nothing | not modelled |
| logging extension, code generator | `extensions/logging.go`, `codegen/` | none | logs; writes two source files | not modelled |
| basic, order-processing | `examples/` | none | straight-line use of the library | not modelled |

### How they interact

A `Resolve` reads the cache; on a miss it takes `s.mu` to add the executor's
reactive edges to the graph, looks for a preset, runs every dependency that is
not lazy through `ResolveAny` *and drops the result*, and runs its own factory.
The factory calls `Controller.Get` on what it reads, which is another `Resolve`
on the same goroutine. The value is stored in the cache at the very end.
`ResolveAny` runs a factory and registers its cleanups under `cleanupMu`; it
looks at neither cache nor presets.

An `Update` collects the dependents under `s.mu`, cleans up the executor and
then each dependent, stores the new value and deletes the dependents one by
one. Its context is checked before each dependent and before the store. None of
this is done under one lock, so Resolves, Updates, Releases and Disposes of
several goroutines interleave between any two of these steps.

An `Exec` runs the dependencies of its flow through `ResolveAny`, makes an
execution and starts a goroutine for the factory. The caller waits for the
factory's result or for the end of the context, whichever it sees first, sets
the status, and adds a node to the execution tree. `Exec1` makes a child of the
execution it is called on, with the same context, and its caller is the child's
caller. A factory calls it on its own execution, on one that has come back, as
the package comment does (`doc.go` 121), or on any other that it has got hold of,
and so may any other goroutine. When a caller stops waiting its factory goes on,
and may still write to the data of the execution and call `Exec1`.

An extension is called by whoever resolves, updates, executes or disposes. `Exec`
and `Dispose` copy the slice of extensions under `s.mu`; `Resolve` and `Update`
only take the slice there and read it afterwards, while `UseExtension` may
append to the same array and sort it.

The scheduler of the health monitor runs one goroutine for its loop and one
for every check. A check probes its service, saves the result and tells the
detector, which reads the active incident, decides, and writes one back; the
handlers change the same tables. `http-api` resolves a service of the scope in
every handler, so that several first requests resolve at once. `cli-tasks` is a
process for every command, and the processes share a file only.

### What is hard

Interleavings of the steps above; values that are computed from a cache that
changes meanwhile; a cancelled update; factories that fail in the middle of a
resolution; factories that run more often than their values are used; cycles
in the graph; factories that outlive the wait for them and write to what is
being recorded; an eviction while executions of the evicted root's family are
still running; a slice that is sorted under its readers; goroutines that are
added to a wait group while somebody waits; rows that are read, changed and
written back by several at once; a process that is killed, or a write that
fails, between two statements or in the middle of a file. The hazards are listed one by one, each at its line, in
`PROJECT.json`, with the properties that would catch it, or why none does yet.

### What makes the components correct

* Graph: both maps hold the same edges; a walk returns exactly what is
  reachable, once each, and ends.
* Scope: what is cached can be found by the next update; a derived value is
  never older than what it was derived from when updates are kept apart; no
  value in use stands on a closed resource; no resource is closed too often;
  presets hold; every call returns; errors are not cached.
* Flows: a cancelled `Exec` or `Exec1` comes back whatever the factories do; what
  is recorded is what the caller got; an execution comes back after what its
  own factory made of it.
* Execution tree: within its limit as long as there is something to evict; what
  is evicted goes with all that hangs below it; nothing is recorded twice.
* Extensions: an operation calls the hooks of every extension whose
  registration had returned, in order, once each, and in reverse at the end.
* Health monitor: Stop leaves nothing running and comes back; there is one
  loop; incidents count what the detector has seen, and no more.
* cli-tasks: numbers are unique; what a command reported is in the file; a file
  that cannot be read is not made worse.
* http-api: all services stand on one storage, so that what one request
  reported every later one sees; and where first requests race, that they agree
  in the end on what is cached.

## 2. Modules

| Module | Models | Built from |
|---|---|---|
| `Reachability` | reference definition of what is reachable in a graph | |
| `ReactiveGraph` | `graph.go` | `Reachability` |
| `Executors` | `executor.go`: the declarations, as constants | `Reachability` |
| `Scope` | `scope.go`, `ResolveAny`, the factories, `controller.go` | `Executors` |
| `ScopeProperties` | properties of `Scope` and its refinement mapping | `Scope`, `ReactiveStore` |
| `ReactiveStore` | what the scope promises: an abstract store of derived values | `Executors` |
| `ExecutionTree` | `flow.go`, ExecutionTree | `Reachability` |
| `Flow` | `scope.go` Exec, `flow.go` Exec1 and executeFlow | `ExecutionTree` |
| `FlowProperties` | properties of `Flow` | `Flow` |
| `Extensions` | `scope.go`: UseExtension and those who call hooks | |
| `GraphDebug` | `extensions/graph_debug.go`: the trees | `ReactiveGraph` |
| `Monitor` | `examples/health-monitor` | |
| `MonitorProperties` | what its handlers answer, and what incidents promise | `Monitor` |
| `Tasks` | `examples/cli-tasks` | |
| `Api` | `examples/http-api`, over the scope of its `graph.go` | an instance of `Scope` |
| `ReachabilityProofs`, `ReactiveGraphProofs`, `ScopeProofs`, `FlowProofs`, `ExtensionsProofs`, `MonitorProofs`, `TasksProofs`, `ApiProofs` | theorems | |
| `MCReactiveGraph`, `MCScope`, `MCFlow`, `MCCalls`, `MCExtensions`, `MCMonitor`, `MCStores` | instances for TLC | |

### ReactiveGraph

`dependents` and `dependencies` are the two maps, with slices as sequences:
`appendUnique` and `removeElement` are the helpers of the same names. A walk is
a record with the local variables of `FindDependents`: the stack, the visited
set, the result, and how far the loop over the dependents of the current node
has got. Each iteration is an action (`PopSkip`, `PopVisit`, `Push`, `Pushed`),
and `Return` leaves the function. The graph's own lock is what keeps `AddDependency` and `RemoveDependency` apart from a walk; walks
run at the same time under its read lock.

### Scope

The state of the scope is `cache`, `edges` (the graph as a set of pairs, which
`ReactiveGraph` justifies: `Mirrored` says that the two maps are such a set,
`WalkResult` that `FindDependents` returns `Dependents`) and `registry`. `runs`
is history: the factory runs that registered cleanups and how often each was
closed. A goroutine has a stack of frames, one for each active call:

| frame at | code |
|---|---|
| `load` | `cache.Load`, scope.go 101 |
| `link` | the loop under `s.mu` and the presets, 110-152 |
| `deps` | the loop over the dependencies, 155-164 |
| `store` | `cache.Store` and the return, 133, 150, 196-213 |
| `gets` | inside `ResolveAny`, executor.go 31-44: the factory calls Get |

and a `job` while it is inside `Update` (`self`, `dependents`, `delete`) or
`Dispose`. What a value is made of is abstracted to the factories, presets and
updates that took part in it (`data`: `<<e, 0>>` for the factory of `e`), what
made it (`kind`) and the run that opened its resource (`run`). What a
replacement returned is cached as it is, so that a value tells which factory ran.
Two runs of one factory on the same inputs, which in the code make two instances,
give equal values unless the factory opens something: `Closers` tells them apart,
and `Api` makes every factory one of them. The order in which the code takes dependents, and the
order of the map in `Dispose`, are left open.

Callers may do one call at a time per goroutine. Calls from inside a factory
other than Get are left out, and so are the hooks of extensions, which are in
`Extensions`. `Overlap = FALSE` says that
callers keep an Update apart from all other calls, which the documentation does
not ask of them but some properties need.

### ReactiveStore

What the scope is for, as two actions, a promise and no translation of any lines:
a value per executor;
`Fill` computes a missing one from its dependencies, `Put` gives an executor a
new value and drops everything derived from it. `Fresh` says that a value is
never older than what it was derived from. `Scope` implements it when updates
are kept apart: the mapping counts a dependent as gone from the moment the
update has stored its value, although the code deletes it some steps later.

### ExecutionTree

`nodes`, `byParent` and `roots` are the fields of the struct; a node keeps its
status of all its tags. `addNode` with its eviction is one step, as it is under
the tree's lock. The recursion of `removeSubtree` is `Reach` over the lists of
children. By itself (`TreeSpec`) the tree takes new nodes in any order.

### Flow

An execution has two control points. `at` is where its caller is, `factory`
where the goroutine of its factory is; and everybody who calls Exec1, the
factory of an execution or a helper, is at a place there before the child
exists (`asks`):

| at | code | asks | code |
|---|---|---|---|
| `hooks` | made; OnFlowStart, flow.go 349-375 | `none` | not in Exec1 |
| `enter` | called executeFlow, 418 | `deps` | before the child exists, 319-347 |
| `wait` | the select, 509 | `mark` | about to write to the data of the execution it was called on, 323, 337 |
| `finish` | back from executeFlow, 420 | `child` | is the caller of a child |
| `cached` | skipped; OnFlowEnd, 403-410 | **factory** | |
| `record` | status set; OnFlowEnd, finalize, addNode, 434-441 | `none`, `run` | not started; in the factory, 502 |
| `recorded`, `returned` | over, with or without a node | `done` | returned or panicked |

`parent` is the execution Exec1 was called on, `caller` who called it. `Ask` lets
anybody who runs call Exec1 on any execution whose context is out of the hands
of its maker (`Out`): one whose factory has started, for the factory has it and
may pass it on, or that has come back, for its caller has it. Nothing else keeps
families in order, so that children of a finished and recorded execution occur,
children made by the factory of another, and a mark on an execution that is
over. `Helpers` are goroutines that are no factories: clients that use a result,
and what clients and factories start.

`outcome` is what executeFlow returned and `result` what is in `resultCh`.
Exec1 and Exec take the same steps except that only Exec1 can skip, so that
one set of actions stands for both. A goroutine is in one call of Exec1 at a
time; a factory may do anything between its calls, return at any time or never,
and return any error, that of a context of its own included. Left out: values,
other tags than the status, what panics add to a failure, an error of OnFlowEnd
of an execution that was not skipped (it reaches the caller, not the tree).

### Extensions

A Go slice is an array and a length, so `arrays` keeps every array there has
been, and `length` is that of `s.extensions`. `append` writes to the last array
while it has room and starts one of twice the size when it has not. For up to
twelve elements `sort.Slice` is an insertion sort: on a sorted slice with
one new element it swaps that element to its left, and a swap is two writes
(`SwapLeft`, `SwapRight`). `mu` is `s.mu`. `Take` and `ReadOne` are Resolve and
Update, which read places of the array they took; `Notify` is the loop over
OnError, which reads them again. A read of a place that is being swapped may
return `Torn`, for an interface value is two words. `Copy`, `FlowStart`,
`FlowEnd` and `DisposeOne` work on the copy that Exec and Dispose make. `Init`
is the constructor with `WithExtension` options: any sorted sequence of
different extensions in an array of the capacity that appending gives.

### GraphDebug

`Trees` is what the extension draws of the graph's edges: one tree for every
executor nothing leads to, as the sequence of its nodes, each with its parent.
The code draws by recursion. Here a drawing is the tree as far as it goes and the
calls of `buildTree` still to be made, in the order in which the recursion
makes them; `buildTree` is one call, which returns if its executor is visited and
else draws it and makes its own calls first. `Drawing` makes `MaxCalls` of them,
one for the root and one along every edge, and `DrawnWhole` says that none is left
then. It is evaluated on every graph that the run of `ReactiveGraph` makes.

### Monitor

| State | Code |
|---|---|
| `running`, `closed`, `stopping` | Scheduler: running; is stopCh closed; is a Stop inside `wg.Wait`, with the lock |
| `loops`, `tasks`, `wg` | goroutines in `run` (with `lastCheck` and the tick of the ticker) and in `performCheck`; those counted in `wg`, by name |
| `services`, `checks`, `incidents` | the three tables; `known` is history: the ids given out |
| `client` | a client of the server with its request |

A task is at `check` (the probe), `save` (INSERT), `detect` (SELECT of the active
incident and the decision), `create` or `update` (INSERT or UPDATE from the
copy). Each is an action, and any of them but the probe may fail, which ends
the task: `performCheck` logs and returns. `processed` marks the checks the
detector has finished with; it is not a column. `Restart` kills the process,
with its goroutines, and keeps the tables. `calm` says that checks end within
the second, that no statement fails and that nobody triggers a check by hand:
what the example promises its user is about such times. An incident starts at
the time of its first failed check.

### Tasks

A process is at `load` (or `get`, the first of the two loads of `complete`),
`truncate`, `write`, and then `done`. `file` is `whole` with its tasks,
`missing`, `empty` (truncated) or `torn` (not a list of tasks): os.WriteFile
truncates when it opens and writes from the first byte, so that a shorter text
over a longer one leaves a tail. `pending` is the text to be written. `kind` is
what Config asks for: with memory, every process starts with nothing. The lock
of `FileStorage` keeps nobody out here, since a process has one goroutine.
`exclusive` says that somebody runs one command at a time.

### Api

`S` is the scope with the executors of `graph.go`, and a goroutine of it runs a
handler (`Receive` to `Answer`), so that a handler's `Resolve` takes all the steps of `Scope`. A run of a factory is an object:
`objects[run]` holds what it was given, for a service, and users and posts, for
a storage. Which object a service was given is what was returned to the frame
of its factory (`returned`). `reported` holds what requests have reported, and a
request remembers what of that it did not find, though it had been reported
before the request came (`missing`). Each call of MemoryStorage is one step, as
it is under its lock: PostService.Create and GetStats take two.

Requests come at any time, two first ones at once included, as `net/http` starts
a goroutine for each. `replaced` is history: it says that a cached storage has
been replaced by another, which is what such first requests may do.

## 3. What is checked

| Run | Instance | Shows |
|---|---|---|
| `graph` | 3 executors, 2 walks, 3 writes, all graphs | maps agree, the loop's invariant, walks return what is reachable and end; drawn trees are whole |
| `scope_sequential` | a diamond with a static edge, 1 goroutine, 5 calls of Get, Exec, Update; cleanups; a failing factory | cached values are fresh, usable, and registered |
| `calls` | a chain, 2 goroutines, 5 calls, updates kept apart; or 2 executions of 1 client with a helper | implements `ReactiveStore`; every call returns, Exec and Exec1 too once the context has ended |
| `scope_overlap` | presets of both kinds, 2 goroutines, any 3 calls of all 6 kinds, cancellation, failures | types, `Linked`, `CleanedOnce`, `PresetHolds` |
| `flow` | 2 clients, 3 executions, any factory calls Exec1 on any execution, limit 1, cancellation, failing hooks | children first, no orphans, honest statuses, the limit; implements `TreeSpec` |
| `extensions` | 4 extensions, up to 3 at the start, 3 goroutines | hooks are called in order, once each, and paired; wrapping is whole unless the array moves |
| `monitor` | 1 service, two intervals, three sets of bounds | Stop drains and returns; one loop; incidents never count too much, and exactly in calm times |
| `stores` | 4 commands of cli-tasks, or 3 requests of http-api from 2 goroutines | numbers unique, reported work kept, a broken file stays; one storage and nothing missed unless a cached storage is replaced, and a storage that stays in the end |
| `api_race` | 2 first requests | **violated**: services over two storages |
| `flow_race` | 1 client | **violated**: two goroutines at an execution's map |
| `scope_dispose` | a chain whose source has a cleanup | **violated**: Dispose leaves a run's resource open |
| `scope_stale` | a chain, an update overlapping a resolve | **violated**: a stale dependent stays cached |

Bounds. The graph run enumerates every history of three writes on three
executors, enough for a cycle of three, a diamond's two paths, a self-loop, and
an edge added twice and removed. In the scope runs a chain of three has a
transitive dependent and a diamond a static edge between reactive ones; two
goroutines are what a race of resolve and update, of two resolves or of two
updates takes; `MaxCalls` lets a value be resolved, updated, resolved again and
updated again (5), or any three calls overlap (3). `MaxCalls` also bounds the
versions of values. `SYMMETRY` over goroutines is used only in runs without
liveness: `scope_overlap`, `extensions`, and `stores`, where it is over the
handlers and the emails, and `flow`, where it is over the clients. In `flow` three
executions are a root with a child beside another root, whose record evicts the
first, or a family of three, in which the third may be made by the root, by its
child, or by the root on its child; with limit 1 the tree is full from the
second node on, so that children wait in it for a parent that is evicted as soon
as it comes, and roots are evicted while others run. `HasRoomForChild` keeps an
id for each client that has not called. In `calls` two executions are enough, for
an execution comes back by steps of its own caller: what can keep it is its
factory, its context, or a child that the same goroutine waits for. Both endings of a context and a helper
occur there. In `flow` a context ends by cancellation only: with deadlines too
the run has six times the states, and that `StatusHonest` holds with them, where
executeFlow records a failure, is left to `TreeAgrees`, which is proved for
both. `MCCalls` runs the scope or the flows in each behaviour, and leaves the
other in its initial state; they share nothing in the models.

In `extensions` one goroutine registers while another reads and a third
registers too; `MaxFirst` = 3 gives arrays of the sizes 0, 1, 2 and 4, the last
with a free place. `Limits` of `Monitor` are alternatives, each a behaviour's
bounds: three checks that may all overlap, with a deletion or an update
of the service or a check triggered by its client; two checks with a failing
statement and a Stop or a restart; two checks with four calls of Start and
Stop, or restarts. `limit.time` bounds the clock, so that
the third tick is the last. One service is enough, since nothing relates the
rows of two. Four commands are an add, two completions that overlap, and one
that comes later; `Ids` has a number for each. Three requests are two that
create over a storage that is there, or race for it, and one that asks; once a
storage has been replaced only two requests are made, which is what it takes to
replace one and to see what it leaves. Emails are two, so that one may be taken.
`MCStores` extends
`Tasks` and `Api` and runs them in one run, one of the two in each behaviour (the
other stays in its initial state), because neither is large.

Fairness. `FairSpec` of `Scope` is weak fairness of every goroutine's next
step inside a call: the Go scheduler runs every runnable goroutine, no lock is
held over a factory, and factories and cleanups are assumed to return. Nobody is
obliged to call anything. In `Flow` the goroutine of a client is scheduled, and so is whoever
is inside Exec1, and the hooks and dependencies it waits for come back; factories
get no fairness at all, which is the point of `CancelReturns` and `Exec1Returns`. In `ReactiveGraph` it is the same for every walk. In `Monitor` it is weak
fairness of each check's steps (a probe has a timeout, a statement returns),
of Stop's return once the wait group is empty, and of the loop's leaving once
`stopCh` is closed: `select` takes a ready case at random, so that a closed
channel is not passed over for ever, although a tick may be taken first.

### The four divergences that runs show

* `scope_dispose`. Pre-resolution runs the factory of a dependency and drops
  the value (`scope.go` 159); the dependent's factory then resolves it again
  and `registerCleanups` replaces the first run's entries (306). Nothing closes
  the first run, against `SKILL.md` 191 and 203. `RootsRegistered` says where
  the problem stops: the resource of an executor that nobody depends on is
  always the registered one.
* `scope_stale`. Resolve stores what it computed without looking for updates
  since (205). `doc.go` 290 says that all operations are thread-safe and
  `executor.go` 52 that a reactive dependency's change invalidates.
* `api_race`. Two first requests both miss in the cache, both run the factory of
  the storage, and the second store replaces the first (`scope.go` 101, 205): a
  user service over one storage and a post service over another are cached, users
  that are then created cannot have posts and are missing from the statistics,
  until the process ends. The example's `README.md` 74 says "services resolved
  once" and `executor.go` 50 "resolves once and caches forever". What remains:
  as long as no cached storage is replaced all services stand on it and later
  requests see everything (`OneUnlessReplaced`, `ReadsUnlessReplaced`), and the
  storage that is cached when the last of the first requests has stored its own
  stays (`StorageSettles`).
* `flow_race`. A factory whose caller has given up calls `Exec1`, which writes
  to the data of the parent (`flow.go` 323, 337) while the caller writes to the
  same Go map (420) or copies it (100). `doc.go` 290 says that all operations
  are thread-safe. `StatusHonest` says what the tree keeps where the race does
  not corrupt the map: a success or a failure is what the caller got, and
  "cancelled" stands only where the context has ended.

### Others, met while modelling

A cancelled Update has run cleanups when it returns without touching the cache
(`scope.go` 244-258): what was cleaned up stays cached on closed resources, in
what `context_test.go` 184-185 calls a consistent state. `UsableWhenQuiet` is
therefore checked without cancellation; with `Cancellable` it is violated.

cli-tasks: Config asks for the memory store, so that the sequence of `add` and
`complete` in its README fails: every command has a list of its own. Two
processes that overlap lose the changes of one; a completion of a task that is
no longer there is reported (`storage.go` 154). A crash between truncating
and writing leaves a file that every later command refuses.

Health monitor: a scheduler that was stopped and is started again stops at
once, for its channel is closed, and panics when it is stopped again. Its
factory calls Start and its cleanup Stop, while the README says that `main`
does. Overlapping checks may start two incidents, lose a count or open a
recovered incident again; `NeverOvercounts` and `CalmLedger` say what remains.
A check that was triggered by a client is never shown to the detector. Incidents and
checks of a deleted service stay, because SQLite enforces foreign keys only
when asked to.

Extensions: a Resolve that overlaps a registration may call an extension twice
and another not at all, and OnError may go to other extensions than those that
wrapped the call, although all operations are said to be thread-safe.

Of the scope: a Resolve overwrites an Update's value, and of two Resolves of one
executor the slower replaces the instance that the faster has handed out;
a preset whose replacement reads the executor it replaces, as a wrapper would,
is resolved without end (138); `Release` and `Reload` leave
dependents with values computed from the old one, which is why the freshness
runs leave them out; the reactive dependencies of a preset's replacement are
never linked, because it is run by `ResolveAny` (138); a static dependency is
not "resolved once" (`executor.go` 50), as `ResolveAny` runs it each time; and
`Dispose` follows the order of a Go map, while `SKILL.md` promises the reverse
resolution order in line 928 and dependencies before dependents in line 511.
Of flows: a deadline that executeFlow sees is recorded as a failure, since only
`context.Canceled` is tested (`flow.go` 423), while one seen before is a
cancellation, and the tests take either (`context_test.go` 267, 434); an
execution that is cancelled or fails before its factory starts is not in the
tree that "automatically tracks all executions" (`README.md` 220); a child that is
recorded after its parent was evicted, which a cancellation makes possible and
Exec1 on a finished execution, stays in the tree for good: `NoOrphans` excludes
it only where the parent's own factory made the child in a living context; and
Exec1 on a finished execution whose context has ended writes "cancelled" over the
status in its data (`flow.go` 323-325), while the node that was recorded keeps
its own. An execution may be recorded as cancelled although its caller got a
value, if somebody else called Exec1 on it while it was being recorded.

## 4. What is proved

For every choice of the constants that satisfies the modules' assumptions:

* `ReachabilityProofs`: `Reach` holds its start, is closed, and is the least
  such set. It is defined without recursion for this reason.
* `ReactiveGraphProofs`: `TypeCorrect`, `MapsAgree`, `LoopCorrect`,
  `WalkCorrect` and `WalkBounded`. The maps agree because `appendUnique` adds
  an element once and `removeElement` takes the first occurrence, which on
  slices without repetition is the only one. For the walk the invariant
  is that everything visited or on the stack is reachable, and that what was
  visited has its dependents visited, on the stack or yet to be pushed: when
  the stack is empty, the visited nodes are closed and therefore `Reach`. That a
  walk ends needs a number that each of its steps lowers (`Budget`): four for every edge
  that is yet to be pushed along, two for every executor on the stack, and a
  rank of the place in the loop. It starts at four times the number of edges
  plus four, and no other walk changes it; writers wait meanwhile.
* `ReactiveGraphProofs`, the trees: `TreesWhole`. What is drawn or called is
  reachable from the root, and the dependents of what is drawn are drawn or
  called, so that a drawing without calls is closed and therefore `Reach`
  (`DrawInv`). The calls left and the edges out of what is not drawn are together
  one less after every call (`Work`), and no more than `MaxCalls` at the start.
  This needs finitely many edges, which is not assumed of the executors but proved
  of every reachable state (`EdgesStayFinite`). In a graph without cycles everybody
  has a root above, because among those that reach it one reaches most (`RootAbove`).
* `ScopeProofs`: `TypeCorrect`, `ResolvedIsLinked` and `ClosedOnce`, with any
  overlap of calls. `Linked` is not inductive, since edges are added long before
  a value is stored: the inductive invariant `IInv` says it of the frames on the
  stacks too (past `link` the executor of a frame is linked) and survives because
  edges and runs only grow (`SoundnessGrows`). The lemmas about `Goto`, `Invoke`
  and `Return` carry it through the stacks; there is one lemma for each action.
  `ClosedOnce` needs a budget: a run in the registry has not been closed at
  all outside a Dispose, and one that a Dispose holds is paid for by it.
* `ScopeProofs`, the values: what cached values promise. What a frame of a stack is
  computing, or has been handed, is described by an algebra of stacks (`Awaits`,
  `Held`) with a lemma for each of `Goto`, `Invoke` and `Return`, so that a claim
  about the cache can be made of every value on its way there. Each theorem but
  the first has a hypothesis about the callers, and is false without it:

  | Theorem | Hypothesis | Why |
  |---|---|---|
  | `PresetsKept` | `PlainReplacements`: a replacement has no preset itself | a replacement is run by `ResolveAny`, presets or not |
  | `FreshKept` | `Exclusive`: no overlapping updates, no Release, no Reload | a Resolve stores what it read before the Update |
  | `StoreImplemented`, `StoreKeptFresh` | `SourceUpdates`: besides, what is updated is derived from nothing | the new value of a derived executor is older than its dependencies may be |
  | `UsableKept` | `Lasting`: besides, no Update is cancelled and nobody disposes | both close resources whose values stay cached |
  | `RootsKept` | `Single`: one goroutine | of two, the slower one to store may be the faster one to register |

  The inductive invariant of freshness says that a value on its way to the cache
  is as new as what is cached below it; an Update keeps it because nobody
  computes meanwhile and because the dependents it has yet to delete are known.
  `StoreImplemented` maps an Update's store to `Put`, a `cache.Store` to `Fill`
  unless the value was there, and everything else to a stutter. `StoreIsFresh`
  needs no hypothesis: in the abstract store a stale value would need a dependency
  newer than it, and `Put` drops all dependents in the same step. `StoreKeptFresh`
  is the two together.
* `FlowProofs`, the tree: `TreeBounded`. `WithinLimit` needs that an eviction
  really takes a node away (`RootsAreNodes`), and this needs that a root hangs
  below nobody, so that it is not reached when an older one is evicted: the
  members of `Ids` without it are a closed set, and `ReachLeast` applies.
* `FlowProofs`, the flows: `TypeCorrect`, `RecordedInOrder`, `TreeAgrees`,
  `ImplementsTree` and `LimitKept`, whoever calls Exec1 on whatever execution. The
  invariant (`FlowInv`) has a part about each execution (`Local`: a factory that is alive
  after its caller's wait has an ended context, and what is about to be recorded
  is `Honest`), one about families (`Families`: a child has its parent's
  context), parts about those in Exec1 (`AsksValid`: a factory that asks is
  running, and whoever marks an execution has seen its context end; `Waiting`,
  `OneChild`: who made a child waits for it, one at a time), and one about the
  tree (`Agreement`: what the tree has seen is recorded, as what it is). A mark is
  "cancelled" on an execution whose context has ended, which is honest at every
  place. `ImplementsTree` carries the tree's bound over to the flows.
* `FlowProofs`, what stays: `NothingOrphaned`. It follows from how a step may
  move an execution (`Goes`), which is shown for every action (`Onward`). A node is
  listed under its parent for good, hence leaves with it: the evicted set is
  closed under lists. And a parent that came back in a living context has waited
  for what its own factory made, so that it comes to the tree after them and
  leaves with them.
* `ExtensionsProofs`: `HooksInOrder` and `ReadsInOrder`, for any orders and any
  number of goroutines. The invariant (`HookInv`) follows the insertion sort: all
  of the array is sorted but for the place of the new element, which may belong
  further to the left, and half way through a swap this holds of the array that
  the second write will make (`InPlace`, `Swapped`). Hence the array is whole
  and sorted whenever `s.mu` is free, which is when slices are taken; a copy
  keeps it, and a slice is as good as a copy to those that nothing is moved
  under (`Slices`): an append without room leaves the old array alone. What
  has been called is then the front of the copy and what has been wrapped or
  ended its back, until they are the whole of it.
* `ApiProofs`: `OneStorageKept` and `ReadsWritesKept`, for any number of handlers
  and requests, first ones at once included, on the executors of `graph.go`. The
  invariant (`ApiInv`), which holds until a cached storage is replaced (`Sound`),
  follows what each frame of the scope has been handed: a factory runs with a
  storage only after that came out of the cache, because `Storage` is resolved, not
  run, when a factory Gets it; the runs of its factory that pre-resolution drops
  are in nobody's parts. What was reported is then in the cached storage, which
  only grows.
* `ApiProofs`: `CachedStorageStays`, with any races. A `Resolve` of the storage that starts
  when one is cached returns that one, so that no new frame comes to be about to
  cache another (`Leaves`, one lemma for each step of the scope).
* `TasksProofs`: `TypeCorrect`, `NumbersUnique`, `BrokenForGood` and `KeptApart`.
  Numbers are unique because the new one is above all that were loaded and a
  completion keeps the number; this has to be said of `pending` too, which is
  what the file will be. `KeptApart` needs that a process which runs alone
  loaded what the file holds now, and that the task it writes back continues
  the one it has read.
* `MonitorProofs`: `TypeCorrect`, `Drained`, `AtMostOneLoop`,
  `PanicAfterRestart`, `WaitIsForLiving` and `ChecksEnd`. The invariant (`LifeInv`) ties `wg` to the goroutines:
  every loop and every check that is alive is counted, nobody is counted in a
  scheduler that neither runs nor is being stopped, and a channel that is
  closed while the scheduler runs has seen a second start. That checks are only added by a loop that is counted itself is
  why Stop cannot miss one. The other direction is why Stop does not wait in vain:
  whoever is counted is alive, `stopCh` is closed while Stop waits
  (`WaitsForLiving`), and a check has at most four steps, which nobody prolongs
  (`ChecksShorten`).
* `MonitorProofs`, the books: `CountsCovered` and `BooksBalanced`. The invariant (`BookInv`) charges
  each failed check the detector has finished with to one incident, and says that
  an incident counts no more than is charged to it, and that a copy under way
  counts at most one more, for the check being dealt with, whose row nobody else
  deals with. The charge is a quantified function, not a variable: the step that
  writes a copy back moves the check's charge to that incident. That the sum in
  `Counted` is a number of charged checks is `FoldIsCount`: the library's
  induction theorems take an operator and cannot be used, so that it is proved by a
  smallest counterexample, from the well-foundedness of strict inclusion on
  finite sets.
  `BooksBalanced` needs `CalmInv`: as long as every check ends before the next tick,
  a second has one check, one row and one pending task of a service, nothing
  changes between the copy of an incident and its write-back, and the bound of
  `BookInv` is an equality, so that units and failed checks are in bijection
  (`ExactCovers`).

Every invariant and action property of the passing runs is a theorem. Only
model-checked is liveness (`WalkEnds`, `CallsReturn`, `CancelReturns`,
`Exec1Returns`, `StopReturns`), which is out of the provers' reach. Of two of them the part that
is about safety is proved: for `WalkEnds` that a walk has a bounded number of steps
(`WalkBounded`), so that only the scheduling is left to fairness; for `StopReturns`
that Stop waits for the living and that checks end (`WaitIsForLiving`,
`ChecksEnd`), so that what is left to fairness is that a closed channel is chosen
by the loop's select, and that checks are scheduled. `CallsReturn` would need
a measure over the graph of dependencies, by induction over data.
The four divergences are runs that find a violation, and nothing of them is proved.

## 5. Limits

Not modelled and why: types and their assertions (checked by the Go compiler
but for presets), tags (typed maps without rules of their own), formatting and
logging, code generation, HTTP and SQL plumbing, what hooks do to values, the
straight-line examples, and lazy dependencies, which only differ from static ones in that
pre-resolution skips them: an instance expresses one by leaving it out of
`Eager`.
