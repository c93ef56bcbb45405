------------------------------- MODULE Monitor -------------------------------
(***************************************************************************)
(* examples/health-monitor: the scheduler, the checks it starts, the       *)
(* detector that turns checks into incidents, the tables they share and    *)
(* the handlers that change them.                                          *)
(*                                                                         *)
(* A goroutine runs the scheduler's loop and starts one more for every     *)
(* check.  Each statement on the database is one step; what a goroutine    *)
(* does with a row it has read it does on a copy, and others may run in    *)
(* between.  Start and Stop are called by anyone; Stop keeps the           *)
(* scheduler's lock while it waits for the goroutines.  Names, endpoints   *)
(* and response times are left out.                                        *)
(***************************************************************************)
EXTENDS Integers, Sequences, FiniteSets

CONSTANTS
    Services,    \* ids of services; an id is given out once
    Intervals,   \* check intervals, in seconds, that requests ask for
    Limits       \* the bounds, one of which a behaviour keeps to: seconds,
                 \* checks the scheduler starts in one process, calls of Start
                 \* and Stop with restarts, requests, and statements that fail

ASSUME MonitorAssumption ==
    /\ IsFiniteSet(Services)
    /\ Services # {}
    /\ Intervals \subseteq Int
    /\ Limits \subseteq [{"time", "tasks", "calls", "requests", "failures"}
                         -> Nat]

VARIABLES
    limit,      \* the bounds of this behaviour
    calm,       \* do checks end before the next second, does nobody trigger
                \* one, and does no statement fail?
    clock,      \* seconds
    services,   \* the table services: the intervals of those there are
    known,      \* the ids given out
    checks,     \* the table health_checks, in the order of the inserts
    incidents,  \* the table incidents, in the order of the inserts
    running,    \* Scheduler.running
    closed,     \* is stopCh closed?
    stopping,   \* is a Stop waiting, with the lock?
    panicked,   \* has closing stopCh panicked?
    wg,         \* the goroutines wg waits for
    loops,      \* the goroutines in run, in the order of their starts
    tasks,      \* the goroutines in performCheck, likewise
    client,     \* a client of the HTTP server, with its request
    used        \* what is used up of the bounds

tables == <<services, known, checks, incidents>>
scheduler == <<running, closed, stopping, panicked>>
vars == <<limit, calm, clock, tables, scheduler, wg, loops, tasks, client, used>>

-----------------------------------------------------------------------------
(* The third status of types.go, unknown, is given to no check. *)
Statuses == {"healthy", "unhealthy"}
Never == -1
Times == {Never} \union Nat

(* processed is no column: has the detector dealt with this check?         *)
Checks == [service : Services, status : Statuses, time : Times,
           processed : BOOLEAN]

Incidents == [service : Services, started : Times, recovered : BOOLEAN,
              failed : Nat]

(* A loop has its lastCheck, and the tick that its ticker holds for it.    *)
Loops == [alive : BOOLEAN, last : [Services -> Times], tick : Times]

(* row: the check saved; id, recovered and failed: the copy of an incident *)
(* that the detector is going to write back.                               *)
Tasks == [at : {"check", "save", "detect", "create", "update", "done"},
          service : Services, status : Statuses, time : Times,
          row : Nat, id : Nat, recovered : BOOLEAN, failed : Nat]

Requests == [at : {"idle", "put", "check", "save"}, service : Services,
             status : Statuses, time : Times]

LoopAlive(i) == i \in DOMAIN loops /\ loops[i].alive
TaskAlive(i) == i \in DOMAIN tasks /\ tasks[i].at # "done"

Use(what) == used' = [used EXCEPT ![what] = @ + 1]

(* NewScheduler, in a process that has just started. *)
NewProcess ==
    /\ running' = FALSE /\ closed' = FALSE /\ stopping' = FALSE
    /\ panicked' = FALSE
    /\ wg' = {} /\ loops' = <<>> /\ tasks' = <<>>
    /\ client' = [client EXCEPT !.at = "idle"]

(* NewDB makes empty tables where there are none. *)
Init ==
    /\ limit \in Limits
    /\ calm \in BOOLEAN
    /\ clock = 0
    /\ services = [s \in {} |-> 0] /\ known = {}
    /\ checks = <<>> /\ incidents = <<>>
    /\ running = FALSE /\ closed = FALSE /\ stopping = FALSE
    /\ panicked = FALSE
    /\ wg = {} /\ loops = <<>> /\ tasks = <<>>
    /\ \E s \in Services : client = [at |-> "idle", service |-> s,
                                     status |-> "healthy", time |-> Never]
    /\ used = [calls |-> 0, requests |-> 0, failures |-> 0]

-----------------------------------------------------------------------------
(* The process is killed and started again; the database stays.  main      *)
(* resolves SchedulerExec before there is a server, and its factory calls  *)
(* Start (StartRun); Dispose calls Stop.                                   *)
Restart ==
    /\ used.calls < limit.calls
    /\ Use("calls")
    /\ NewProcess
    /\ UNCHANGED <<limit, calm, clock, tables>>

(* A bug: Start does not wait for the lock that Stop holds. *)
MayStartUnlocked == ~running

(* Start and Stop; without effect when running says so. *)
MayStart == ~stopping /\ ~running

(* A bug: Stop does not look at running. *)
MayStopAgain == ~stopping

MayStop == ~stopping /\ running

StartRun ==
    /\ used.calls < limit.calls
    /\ MayStart
    /\ running' = TRUE
    /\ wg' = wg \union {<<"loop", Len(loops) + 1>>}
    /\ loops' = Append(loops, [alive |-> TRUE, tick |-> Never,
                               last |-> [s \in Services |-> Never]])
    /\ Use("calls")
    /\ UNCHANGED <<limit, calm, clock, tables, closed, stopping, panicked, tasks,
                   client>>

(* A channel can be closed once; the panic ends the process. *)
Stop ==
    /\ used.calls < limit.calls
    /\ MayStop
    /\ IF closed
       THEN panicked' = TRUE /\ UNCHANGED <<running, closed, stopping>>
       ELSE /\ closed' = TRUE /\ running' = FALSE /\ stopping' = TRUE
            /\ UNCHANGED panicked
    /\ Use("calls")
    /\ UNCHANGED <<limit, calm, clock, tables, wg, loops, tasks, client>>

StopReturn ==
    /\ stopping
    /\ wg = {}
    /\ stopping' = FALSE
    /\ UNCHANGED <<limit, calm, clock, tables, running, closed, panicked, wg, loops,
                   tasks, client, used>>

-----------------------------------------------------------------------------
(* A second passes: a ticker whose channel is full drops the tick.         *)
Tick ==
    /\ clock < limit.time
    /\ calm => /\ \A i \in DOMAIN tasks : ~TaskAlive(i)
               /\ \A i \in DOMAIN loops : loops[i].tick = Never
    /\ clock' = clock + 1
    /\ loops' = [ i \in DOMAIN loops |->
                    IF loops[i].alive /\ loops[i].tick = Never
                    THEN [loops[i] EXCEPT !.tick = clock + 1]
                    ELSE loops[i] ]
    /\ UNCHANGED <<limit, calm, tables, scheduler, wg, tasks, client, used>>

(* run: the loop sees that stopCh is closed; a tick may be there, too.     *)
LoopStop(i) ==
    /\ LoopAlive(i)
    /\ closed
    /\ loops' = [loops EXCEPT ![i] = [alive |-> FALSE, tick |-> Never,
                                      last |-> [s \in Services |-> Never]]]
    /\ wg' = wg \ {<<"loop", i>>}
    /\ UNCHANGED <<limit, calm, clock, tables, scheduler, tasks, client, used>>

(* checkServices lists the services and starts a check for each that is    *)
(* due, in any order of their names.                                       *)
Due(i) == { s \in DOMAIN services :
    \/ loops[i].last[s] = Never
    \/ loops[i].tick - loops[i].last[s] >= services[s] }

NewTask(s) == [at |-> "check", service |-> s, status |-> "healthy",
               time |-> clock, row |-> 0, id |-> 0, recovered |-> FALSE,
               failed |-> 0]

(* A bug: wg.Add is forgotten. *)
SpawnUncounted(due) ==
    /\ \E new \in [1..Cardinality(due) -> due] :
          /\ \A s \in due : \E k \in DOMAIN new : new[k] = s
          /\ tasks' = tasks \o [k \in DOMAIN new |-> NewTask(new[k])]
    /\ UNCHANGED wg

Spawn(due) ==
    /\ \E new \in [1..Cardinality(due) -> due] :
          /\ \A s \in due : \E k \in DOMAIN new : new[k] = s
          /\ tasks' = tasks \o [k \in DOMAIN new |-> NewTask(new[k])]
    /\ wg' = wg \union { <<"task", k>> :
                  k \in Len(tasks) + 1 .. Len(tasks) + Cardinality(due) }

CheckServices(i) ==
    /\ LoopAlive(i)
    /\ loops[i].tick # Never
    /\ Len(tasks) + Cardinality(Due(i)) <= limit.tasks
    /\ Spawn(Due(i))
    /\ loops' = [loops EXCEPT ![i].tick = Never,
                    ![i].last = [ s \in Services |->
                        IF s \in Due(i) THEN loops[i].tick ELSE @[s] ]]
    /\ UNCHANGED <<limit, calm, clock, tables, scheduler, client, used>>

ListFails(i) ==
    /\ ~calm
    /\ used.failures < limit.failures
    /\ LoopAlive(i)
    /\ loops[i].tick # Never
    /\ loops' = [loops EXCEPT ![i].tick = Never]
    /\ Use("failures")
    /\ UNCHANGED <<limit, calm, clock, tables, scheduler, wg, tasks, client>>

-----------------------------------------------------------------------------
(* performCheck *)

Move(i, task) ==
    /\ tasks' = [tasks EXCEPT ![i] = task]
    /\ UNCHANGED <<limit, calm, clock, services, known, scheduler, loops, client>>

Continue(i, task) == Move(i, task) /\ UNCHANGED wg

(* A bug: wg.Done is forgotten. *)
DoneUncounted(i) ==
    Continue(i, [NewTask(tasks[i].service) EXCEPT !.at = "done", !.time = Never])

Done(i) ==
    /\ Move(i, [NewTask(tasks[i].service) EXCEPT !.at = "done", !.time = Never])
    /\ wg' = wg \ {<<"task", i>>}

(* A bug: a service of a type that has no probe gets the status unknown,   *)
(* which types.go declares and neither the detector nor a request expects. *)
CheckUnknown(i) ==
    /\ TaskAlive(i)
    /\ tasks[i].at = "check"
    /\ \E status \in Statuses \union {"unknown"} :
          Continue(i, [tasks[i] EXCEPT !.at = "save", !.status = status])
    /\ UNCHANGED <<checks, incidents, used>>

(* Check: it has its time from before the probe, and ends by its timeout.  *)
Check(i) ==
    /\ TaskAlive(i)
    /\ tasks[i].at = "check"
    /\ \E status \in Statuses :
          Continue(i, [tasks[i] EXCEPT !.at = "save", !.status = status])
    /\ UNCHANGED <<checks, incidents, used>>

Row(r) == [service |-> r.service, status |-> r.status, time |-> r.time,
           processed |-> FALSE]

(* The service need not be there: SQLite does not enforce foreign keys.    *)
Save(i) ==
    /\ TaskAlive(i)
    /\ tasks[i].at = "save"
    /\ checks' = Append(checks, Row(tasks[i]))
    /\ Continue(i, [tasks[i] EXCEPT !.at = "detect", !.row = Len(checks) + 1])
    /\ UNCHANGED <<incidents, used>>

Processed(i) == checks' = [checks EXCEPT ![tasks[i].row].processed = TRUE]

(* A bug: recovered incidents count as active. *)
ActiveEver(s) == { k \in DOMAIN incidents : incidents[k].service = s }

(* GetActive: of those that have not recovered, one started last.          *)
Active(s) == { k \in DOMAIN incidents :
    incidents[k].service = s /\ ~incidents[k].recovered }

GetActive(s) == { k \in Active(s) :
    \A j \in Active(s) : incidents[j].started <= incidents[k].started }

(* A bug: every copy counts one more. *)
CopyCounting(i, k) == [tasks[i] EXCEPT !.at = "update", !.id = k,
                           !.recovered = incidents[k].recovered,
                           !.failed = incidents[k].failed + 1]

Copy(i, k) == [tasks[i] EXCEPT !.at = "update", !.id = k,
                   !.recovered = incidents[k].recovered,
                   !.failed = incidents[k].failed]

(* ProcessHealthCheck *)
Detect(i) ==
    /\ TaskAlive(i)
    /\ tasks[i].at = "detect"
    /\ LET s == tasks[i].service
           unhealthy == tasks[i].status = "unhealthy"
       IN \/ /\ unhealthy /\ Active(s) = {}
             /\ Continue(i, [tasks[i] EXCEPT !.at = "create"])
             /\ UNCHANGED checks
          \/ \E k \in GetActive(s) :
             /\ unhealthy
             /\ Continue(i, [Copy(i, k) EXCEPT !.failed = @ + 1])
             /\ UNCHANGED checks
          \/ \E k \in GetActive(s) :
             /\ ~unhealthy
             /\ Continue(i, [Copy(i, k) EXCEPT !.recovered = TRUE])
             /\ UNCHANGED checks
          \/ /\ ~unhealthy /\ Active(s) = {}
             /\ Done(i)
             /\ Processed(i)
    /\ UNCHANGED <<incidents, used>>

Create(i) ==
    /\ TaskAlive(i)
    /\ tasks[i].at = "create"
    /\ incidents' = Append(incidents,
           [service |-> tasks[i].service, started |-> tasks[i].time,
            recovered |-> FALSE, failed |-> 1])
    /\ Processed(i)
    /\ Done(i)
    /\ UNCHANGED used

(* Update writes every column that changes from the copy. *)
Update(i) ==
    /\ TaskAlive(i)
    /\ tasks[i].at = "update"
    /\ incidents' = [incidents EXCEPT
           ![tasks[i].id].recovered = tasks[i].recovered,
           ![tasks[i].id].failed = tasks[i].failed]
    /\ Processed(i)
    /\ Done(i)
    /\ UNCHANGED used

(* A statement fails, and the check goes no further. *)
TaskFails(i) ==
    /\ ~calm
    /\ used.failures < limit.failures
    /\ TaskAlive(i)
    /\ tasks[i].at # "check"
    /\ Done(i)
    /\ Use("failures")
    /\ UNCHANGED <<checks, incidents>>

TaskStep(i) ==
    Check(i) \/ Save(i) \/ Detect(i) \/ Create(i) \/ Update(i) \/ TaskFails(i)

-----------------------------------------------------------------------------
(* The handlers.  Those that only read are GetCurrent, ListActive, ...     *)

Request ==
    /\ client.at = "idle"
    /\ used.requests < limit.requests
    /\ Use("requests")
    /\ UNCHANGED <<limit, calm, clock, incidents, scheduler, wg, loops, tasks>>

ServiceCreate ==
    /\ Request
    /\ \E s \in Services \ known, interval \in Intervals :
          /\ known' = known \union {s}
          /\ services' = [ t \in DOMAIN services \union {s} |->
                             IF t = s THEN interval ELSE services[t] ]
    /\ UNCHANGED <<checks, client>>

ServiceDelete ==
    /\ Request
    /\ \E s \in DOMAIN services :
          services' = [ t \in DOMAIN services \ {s} |-> services[t] ]
    /\ UNCHANGED <<known, checks, client>>

(* Update: the row is read, ... *)
ServiceGet ==
    /\ Request
    /\ \E s \in DOMAIN services :
          client' = [client EXCEPT !.at = "put", !.service = s]
    /\ UNCHANGED <<services, known, checks>>

(* ... and written, if it is still there. *)
ServiceUpdate ==
    /\ client.at = "put"
    /\ \E interval \in Intervals :
          services' = [ t \in DOMAIN services |->
              IF t = client.service THEN interval ELSE services[t] ]
    /\ client' = [client EXCEPT !.at = "idle"]
    /\ UNCHANGED <<limit, calm, clock, known, checks, incidents, scheduler, wg, loops,
                   tasks, used>>

(* TriggerCheck checks and saves as a task does, and tells no detector.    *)
TriggerGet ==
    /\ ~calm
    /\ Request
    /\ \E s \in DOMAIN services :
          client' = [client EXCEPT !.at = "check", !.service = s, !.time = clock]
    /\ UNCHANGED <<services, known, checks>>

TriggerCheck ==
    /\ \/ /\ client.at = "check"
          /\ \E status \in Statuses :
                client' = [client EXCEPT !.at = "save", !.status = status]
          /\ UNCHANGED checks
       \/ /\ client.at = "save"
          /\ checks' = Append(checks, Row(client))
          /\ client' = [client EXCEPT !.at = "idle", !.time = Never]
    /\ UNCHANGED <<limit, calm, clock, services, known, incidents, scheduler, wg,
                   loops, tasks, used>>

RequestFails ==
    /\ ~calm
    /\ used.failures < limit.failures
    /\ client.at \in {"put", "save"}
    /\ client' = [client EXCEPT !.at = "idle", !.time = Never]
    /\ Use("failures")
    /\ UNCHANGED <<limit, calm, clock, tables, scheduler, wg, loops, tasks>>

-----------------------------------------------------------------------------
Next ==
    \/ Restart
    \/ ~panicked /\ \/ StartRun \/ Stop \/ StopReturn \/ Tick
                    \/ \E i \in DOMAIN loops :
                          LoopStop(i) \/ CheckServices(i) \/ ListFails(i)
                    \/ \E i \in DOMAIN tasks : TaskStep(i)
                    \/ ServiceCreate \/ ServiceDelete
                    \/ ServiceGet \/ ServiceUpdate
                    \/ TriggerGet \/ TriggerCheck \/ RequestFails

Spec == Init /\ [][Next]_vars

(* A check ends by its timeout, and a statement returns.  select takes one *)
(* of the cases that are ready at random: a closed stopCh is not passed    *)
(* over for ever.                                                          *)
Fairness ==
    /\ WF_vars(~panicked /\ StopReturn)
    /\ WF_vars(~panicked /\ \E i \in DOMAIN loops : LoopStop(i))
    /\ \A i \in UNION { 1..l.tasks : l \in Limits } :
          WF_vars(~panicked /\ TaskStep(i))

FairSpec == Spec /\ Fairness

-----------------------------------------------------------------------------
(* Every variable stays in its type: among others, every check that is     *)
(* saved is healthy or unhealthy, and what an incident counts is a number  *)
(* (health_checker.go 45-53, types.go 24-58).                              *)
TypeOK ==
    /\ limit \in Limits
    /\ calm \in BOOLEAN
    /\ clock \in Nat
    /\ known \subseteq Services
    /\ DOMAIN services \subseteq known
    /\ services \in [DOMAIN services -> Intervals]
    /\ checks \in Seq(Checks)
    /\ incidents \in Seq(Incidents)
    /\ running \in BOOLEAN /\ closed \in BOOLEAN
    /\ stopping \in BOOLEAN /\ panicked \in BOOLEAN
    /\ loops \in Seq(Loops)
    /\ tasks \in Seq(Tasks)
    /\ wg \subseteq {"loop", "task"} \X Nat
    /\ client \in Requests
    /\ used \in [{"calls", "requests", "failures"} -> Nat]

(* scheduler.go Stop: once it has returned, no goroutine of the scheduler  *)
(* is left, neither a loop nor a check that a loop has started.            *)
StopDrains ==
    ~running /\ ~stopping =>
        /\ \A i \in DOMAIN loops : ~LoopAlive(i)
        /\ \A i \in DOMAIN tasks : ~TaskAlive(i)

(* scheduler.go Start: however Start and Stop are called, there are never  *)
(* two loops, which would check every service twice.                       *)
OneLoop == \A i, j \in DOMAIN loops : LoopAlive(i) /\ LoopAlive(j) => i = j

(* scheduler.go Stop: closing stopCh panics only in a scheduler that was   *)
(* started again after a Stop.                                             *)
PanicOnlyAfterRestart == panicked => Len(loops) > 1

(* scheduler.go Stop: it returns, for it is not passed over in the select  *)
(* of the loop, and no check goes on for ever.                             *)
StopReturns == stopping ~> ~stopping
=============================================================================
