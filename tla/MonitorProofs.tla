---------------------------- MODULE MonitorProofs ----------------------------
(***************************************************************************)
(* Proofs about Monitor, for any services, intervals and bounds: the       *)
(* types, what Start and Stop promise and whom Stop waits for, that the    *)
(* incidents never count more failures than there were failed checks, and  *)
(* that they count exactly those in calm times.  The last two need that a  *)
(* sum over a finite set is the number of its units.                       *)
(***************************************************************************)
EXTENDS MonitorProperties, FiniteSetTheorems, WellFoundedInduction, TLAPS

LEMMA SeqExcept ==
    ASSUME NEW S, NEW q \in Seq(S), NEW i, NEW e, i \in DOMAIN q => e \in S
    PROVE  /\ [q EXCEPT ![i] = e] \in Seq(S)
           /\ Len([q EXCEPT ![i] = e]) = Len(q)
           /\ DOMAIN [q EXCEPT ![i] = e] = DOMAIN q
  <1>1. CASE i \in DOMAIN q
    BY <1>1
  <1>2. CASE i \notin DOMAIN q
    <2>1. [q EXCEPT ![i] = e] = q
      BY <1>2
    <2> QED BY <2>1
  <1> QED BY <1>1, <1>2

LEMMA SeqAppend ==
    ASSUME NEW S, NEW q \in Seq(S), NEW e \in S
    PROVE  /\ Append(q, e) \in Seq(S)
           /\ Len(Append(q, e)) = Len(q) + 1
           /\ DOMAIN Append(q, e) = 1..(Len(q) + 1)
           /\ \A i \in DOMAIN q : Append(q, e)[i] = q[i]
           /\ Append(q, e)[Len(q) + 1] = e
  OBVIOUS

LEMMA SeqConcat ==
    ASSUME NEW S, NEW q \in Seq(S), NEW r \in Seq(S)
    PROVE  /\ q \o r \in Seq(S)
           /\ Len(q \o r) = Len(q) + Len(r)
           /\ \A i \in DOMAIN q : (q \o r)[i] = q[i]
  OBVIOUS

LEMMA Ticked ==
    ASSUME NEW l \in Loops, NEW t \in Times
    PROVE  /\ [l EXCEPT !.tick = t] \in Loops
           /\ [l EXCEPT !.tick = t].alive = l.alive
  BY DEF Loops

LEMMA Fields ==
    ASSUME NEW t \in Tasks, NEW n \in Nat, NEW r \in BOOLEAN, NEW k \in Nat
    PROVE  /\ [t EXCEPT !.at = "detect", !.row = n] \in Tasks
           /\ [t EXCEPT !.at = "update", !.id = k, !.recovered = r,
                        !.failed = n] \in Tasks
           /\ [t EXCEPT !.recovered = r] \in Tasks
           /\ [t EXCEPT !.failed = n] \in Tasks
           /\ t.failed \in Nat
  BY DEF Tasks

LEMMA FreshTask ==
    ASSUME NEW s \in Services, clock \in Nat
    PROVE  NewTask(s) \in Tasks
  BY DEF NewTask, Tasks, Statuses, Times

(* The tasks and the counter after checkServices.                          *)
LEMMA SpawnTasks ==
    ASSUME NEW due \in SUBSET Services, Spawn(due), clock \in Nat,
           tasks \in Seq(Tasks), wg \subseteq {"loop", "task"} \X Nat
    PROVE  /\ tasks' \in Seq(Tasks)
           /\ Len(tasks') = Len(tasks) + Cardinality(due)
           /\ Cardinality(due) \in Nat
           /\ \A i \in DOMAIN tasks : tasks'[i] = tasks[i]
           /\ wg' \subseteq {"loop", "task"} \X Nat
           /\ wg' = wg \union { <<"task", k>> :
                        k \in Len(tasks) + 1 .. Len(tasks) + Cardinality(due) }
  <1>1. Cardinality(due) \in Nat
    BY FS_Subset, FS_CardinalityType, MonitorAssumption
  <1>2. PICK new \in [1..Cardinality(due) -> due] :
            tasks' = tasks \o [k \in DOMAIN new |-> NewTask(new[k])]
    BY DEF Spawn
  <1> DEFINE n == Cardinality(due)
             started == [k \in 1..n |-> NewTask(new[k])]
  <1>3. \A k \in 1..n : NewTask(new[k]) \in Tasks
    BY <1>2, FreshTask
  <1>4. tasks' = tasks \o started
    BY <1>2
  <1> HIDE DEF n
  <1>5. n \in Nat
    BY <1>1 DEF n
  <1>6. started \in Seq(Tasks) /\ Len(started) = n
    BY <1>3, <1>5
  <1> HIDE DEF started
  <1>7. /\ tasks' \in Seq(Tasks)
        /\ Len(tasks') = Len(tasks) + n
        /\ \A i \in DOMAIN tasks : tasks'[i] = tasks[i]
    BY <1>4, <1>6, SeqConcat
  <1>8. wg' = wg \union { <<"task", k>> : k \in Len(tasks) + 1 .. Len(tasks) + n }
    BY DEF Spawn, n
  <1>9. wg' \subseteq {"loop", "task"} \X Nat
    BY <1>5, <1>8
  <1> QED BY <1>1, <1>7, <1>8, <1>9 DEF n

-----------------------------------------------------------------------------
LEMMA TypeStep ==
    ASSUME TypeOK, [Next]_vars
    PROVE  TypeOK'
  <1> USE DEF TypeOK
  <1>1. CASE UNCHANGED vars
    BY <1>1 DEF vars, tables, scheduler
  <1>2. ASSUME NEW k \in {"calls", "requests", "failures"}, Use(k)
        PROVE  used' \in [{"calls", "requests", "failures"} -> Nat]
    BY <1>2 DEF Use
  <1>3. CASE Restart
    <2>1. used' \in [{"calls", "requests", "failures"} -> Nat]
      BY <1>2, <1>3 DEF Restart
    <2>2. /\ running' \in BOOLEAN /\ closed' \in BOOLEAN
          /\ stopping' \in BOOLEAN /\ panicked' \in BOOLEAN
          /\ wg' \subseteq {"loop", "task"} \X Nat
      BY <1>3 DEF Restart, NewProcess
    <2>4. <<>> \in Seq(Loops) /\ <<>> \in Seq(Tasks)
      OBVIOUS
    <2>5. loops' \in Seq(Loops) /\ tasks' \in Seq(Tasks)
      BY <1>3, <2>4 DEF Restart, NewProcess
    <2>3. client' \in Requests
      BY <1>3 DEF Restart, NewProcess, Requests
    <2> QED BY <1>3, <2>1, <2>2, <2>3, <2>5 DEF Restart, tables
  <1>4. CASE StartRun
    <2>1. [alive |-> TRUE, tick |-> Never, last |-> [s \in Services |-> Never]]
              \in Loops
      BY DEF Loops, Times
    <2>2. loops' \in Seq(Loops)
      BY <1>4, <2>1, SeqAppend DEF StartRun, MayStart
    <2>3. wg' \subseteq {"loop", "task"} \X Nat
      BY <1>4 DEF StartRun, MayStart
    <2> QED BY <1>2, <1>4, <2>2, <2>3 DEF StartRun, MayStart, tables
  <1>5. CASE Stop
    BY <1>2, <1>5 DEF Stop, MayStop, tables
  <1>6. CASE StopReturn
    BY <1>6 DEF StopReturn, tables
  <1>7. CASE Tick
    <2> DEFINE n == clock + 1
               ticked(i) == [loops[i] EXCEPT !.tick = n]
    <2>1. n \in Nat /\ n \in Times
      BY DEF Times
    <2>2. clock' = n
      BY <1>7 DEF Tick
    <2>3. loops' = [ i \in DOMAIN loops |->
                       IF loops[i].alive /\ loops[i].tick = Never
                       THEN ticked(i) ELSE loops[i] ]
      BY <1>7 DEF Tick
    <2> HIDE DEF n
    <2>4. \A i \in DOMAIN loops : loops[i] \in Loops /\ ticked(i) \in Loops
      BY <2>1, Ticked
    <2> HIDE DEF ticked
    <2>5. loops' \in Seq(Loops)
      BY <2>3, <2>4
    <2> QED BY <1>7, <2>1, <2>2, <2>5 DEF Tick, tables, scheduler
  <1>8. ASSUME NEW i \in DOMAIN loops, LoopStop(i)
        PROVE  TypeOK'
    <2>1. [alive |-> FALSE, tick |-> Never, last |-> [s \in Services |-> Never]]
              \in Loops
      BY DEF Loops, Times
    <2>2. loops' \in Seq(Loops)
      BY <1>8, <2>1, SeqExcept DEF LoopStop
    <2> QED BY <1>8, <2>2 DEF LoopStop, tables, scheduler
  <1>9. ASSUME NEW i \in DOMAIN loops, CheckServices(i)
        PROVE  TypeOK'
    <2>1. Due(i) \in SUBSET Services /\ Spawn(Due(i))
      BY <1>9 DEF Due, CheckServices
    <2>2. tasks' \in Seq(Tasks) /\ wg' \subseteq {"loop", "task"} \X Nat
      BY <2>1, SpawnTasks
    <2> DEFINE l == [loops[i] EXCEPT !.tick = Never,
                        !.last = [ s \in Services |->
                            IF s \in Due(i) THEN loops[i].tick ELSE @[s] ]]
    <2>3. loops[i] \in Loops
      OBVIOUS
    <2>4. l \in Loops
      BY <2>3 DEF Loops, Times
    <2>5. loops' = [loops EXCEPT ![i] = l]
      BY <1>9, <2>3 DEF CheckServices, Loops
    <2> HIDE DEF l
    <2>6. loops' \in Seq(Loops)
      BY <2>4, <2>5, SeqExcept
    <2> QED BY <1>9, <2>2, <2>6 DEF CheckServices, tables, scheduler
  <1>10. ASSUME NEW i \in DOMAIN loops, ListFails(i)
         PROVE  TypeOK'
    <2> DEFINE l == [loops[i] EXCEPT !.tick = Never]
    <2>1. l \in Loops
      <3>1. loops[i] \in Loops /\ Never \in Times
        BY DEF Times
      <3> QED BY <3>1, Ticked
    <2>2. loops' = [loops EXCEPT ![i] = l]
      BY <1>10 DEF ListFails
    <2> HIDE DEF l
    <2>3. loops' \in Seq(Loops)
      BY <2>1, <2>2, SeqExcept
    <2> QED BY <1>2, <1>10, <2>3 DEF ListFails, tables, scheduler
  <1>11. ASSUME NEW i \in DOMAIN tasks, TaskStep(i)
         PROVE  TypeOK'
    <2>1. tasks[i] \in Tasks
      OBVIOUS
    <2>2. ASSUME NEW t \in Tasks, Move(i, t)
          PROVE  tasks' \in Seq(Tasks)
      BY <2>2, SeqExcept DEF Move
    <2>3. ASSUME Done(i)
          PROVE  /\ tasks' \in Seq(Tasks)
                 /\ wg' \subseteq {"loop", "task"} \X Nat
                 /\ UNCHANGED <<limit, calm, clock, services, known, scheduler,
                                loops, client>>
      <3>1. tasks[i].service \in Services
        BY <2>1 DEF Tasks
      <3>2. [NewTask(tasks[i].service) EXCEPT !.at = "done", !.time = Never]
                \in Tasks
        BY <3>1 DEF NewTask, Tasks, Statuses, Times
      <3> QED BY <2>2, <2>3, <3>2 DEF Done, Move
    <2>4. ASSUME Processed(i)
          PROVE  checks' \in Seq(Checks)
      <3> DEFINE r == tasks[i].row
                 c == [checks[r] EXCEPT !.processed = TRUE]
      <3>1. ASSUME r \in DOMAIN checks
            PROVE  c \in Checks
        <4>1. checks[r] \in Checks
          BY <3>1
        <4> QED BY <4>1 DEF Checks
      <3>2. checks' = [checks EXCEPT ![r] = c]
        BY <2>4 DEF Processed
      <3> HIDE DEF c
      <3> QED BY <3>1, <3>2, SeqExcept
    <2>5. CASE Check(i)
      <3>1. PICK status \in Statuses :
                Continue(i, [tasks[i] EXCEPT !.at = "save", !.status = status])
        BY <2>5 DEF Check
      <3>2. [tasks[i] EXCEPT !.at = "save", !.status = status] \in Tasks
        BY <2>1 DEF Tasks
      <3> QED BY <2>2, <2>5, <3>1, <3>2 DEF Check, Continue, Move, scheduler
    <2>6. CASE Save(i)
      <3>1. Row(tasks[i]) \in Checks
        BY <2>1 DEF Row, Checks, Tasks
      <3>2. checks' \in Seq(Checks)
        BY <2>6, <3>1, SeqAppend DEF Save
      <3> DEFINE t == [tasks[i] EXCEPT !.at = "detect", !.row = Len(checks) + 1]
      <3>3. t \in Tasks
        <4> DEFINE n == Len(checks) + 1
        <4>1. n \in Nat
          OBVIOUS
        <4> HIDE DEF n
        <4>2. [tasks[i] EXCEPT !.at = "detect", !.row = n] \in Tasks
          BY <2>1, <4>1, Fields
        <4> QED BY <4>2 DEF n
      <3>4. Continue(i, t)
        BY <2>6 DEF Save
      <3> HIDE DEF t
      <3> QED BY <2>2, <2>6, <3>2, <3>3, <3>4 DEF Save, Continue, Move, scheduler
    <2>7. CASE Detect(i)
      <3>1. ASSUME NEW t \in Tasks, Continue(i, t), UNCHANGED <<checks, incidents, used>>
            PROVE  TypeOK'
        BY <2>2, <3>1 DEF Continue, Move, scheduler
      <3>2. ASSUME NEW k \in DOMAIN incidents
            PROVE  /\ [Copy(i, k) EXCEPT !.failed = @ + 1] \in Tasks
                   /\ [Copy(i, k) EXCEPT !.recovered = TRUE] \in Tasks
        <4>1. k \in Nat /\ incidents[k] \in Incidents
          OBVIOUS
        <4>2. incidents[k].failed \in Nat /\ incidents[k].recovered \in BOOLEAN
          BY <4>1 DEF Incidents
        <4>3. Copy(i, k) \in Tasks
          BY <2>1, <4>1, <4>2, Fields DEF Copy
        <4> DEFINE c == Copy(i, k)
                   n == c.failed + 1
        <4> HIDE DEF c
        <4>4. c \in Tasks /\ n \in Nat
          <5>1. c \in Tasks
            BY <4>3 DEF c
          <5>2. c.failed \in Nat
            BY <5>1 DEF Tasks
          <5> QED BY <5>1, <5>2
        <4>5. [c EXCEPT !.recovered = TRUE] \in Tasks
          BY <4>4, Fields
        <4>6. [c EXCEPT !.failed = @ + 1] = [c EXCEPT !.failed = n]
          OBVIOUS
        <4> HIDE DEF n
        <4>7. [c EXCEPT !.failed = n] \in Tasks
          BY <4>4, Fields
        <4> QED BY <4>5, <4>6, <4>7 DEF c
      <3>3. [tasks[i] EXCEPT !.at = "create"] \in Tasks
        BY <2>1 DEF Tasks
      <3>4. GetActive(tasks[i].service) \subseteq DOMAIN incidents
        BY DEF GetActive, Active
      <3>5. CASE Done(i) /\ Processed(i)
        BY <2>3, <2>4, <2>7, <3>5 DEF Detect, scheduler
      <3> QED BY <2>7, <3>1, <3>2, <3>3, <3>4, <3>5 DEF Detect
    <2>8. CASE Create(i)
      <3>1. [service |-> tasks[i].service, started |-> tasks[i].time,
             recovered |-> FALSE, failed |-> 1] \in Incidents
        BY <2>1 DEF Tasks, Incidents
      <3>2. incidents' \in Seq(Incidents)
        BY <2>8, <3>1, SeqAppend DEF Create
      <3> QED BY <2>3, <2>4, <2>8, <3>2 DEF Create, scheduler
    <2>9. CASE Update(i)
      <3> DEFINE k == tasks[i].id
                 e == [incidents[k] EXCEPT !.recovered = tasks[i].recovered,
                                           !.failed = tasks[i].failed]
      <3>1. ASSUME k \in DOMAIN incidents
            PROVE  e \in Incidents
        <4>1. incidents[k] \in Incidents
          BY <3>1
        <4>2. tasks[i].recovered \in BOOLEAN /\ tasks[i].failed \in Nat
          BY <2>1 DEF Tasks
        <4> QED BY <4>1, <4>2 DEF Incidents
      <3>2. incidents' = [incidents EXCEPT ![k] = e]
        BY <2>9 DEF Update
      <3> HIDE DEF e
      <3>3. incidents' \in Seq(Incidents)
        BY <3>1, <3>2, SeqExcept
      <3> QED BY <2>3, <2>4, <2>9, <3>3 DEF Update, scheduler
    <2>10. CASE TaskFails(i)
      BY <1>2, <2>3, <2>10 DEF TaskFails, scheduler
    <2> QED BY <1>11, <2>5, <2>6, <2>7, <2>8, <2>9, <2>10 DEF TaskStep
  <1>12. CASE ServiceCreate \/ ServiceDelete
    BY <1>2, <1>12 DEF ServiceCreate, ServiceDelete, Request, scheduler
  <1>13. CASE ServiceGet \/ ServiceUpdate
    BY <1>2, <1>13 DEF ServiceGet, ServiceUpdate, Request, Requests, scheduler
  <1>14. CASE TriggerGet
    BY <1>2, <1>14 DEF TriggerGet, Request, Requests, Times, scheduler
  <1>15. CASE TriggerCheck
    <2>1. Row(client) \in Checks
      BY DEF Row, Checks, Requests
    <2>2. checks' \in Seq(Checks)
      <3>1. checks' = checks \/ checks' = Append(checks, Row(client))
        BY <1>15 DEF TriggerCheck
      <3>2. Append(checks, Row(client)) \in Seq(Checks)
        BY <2>1, SeqAppend
      <3> QED BY <3>1, <3>2
    <2>3. client' \in Requests
      BY <1>15 DEF TriggerCheck, Requests, Times
    <2> QED BY <1>15, <2>2, <2>3 DEF TriggerCheck, scheduler
  <1>16. CASE RequestFails
    BY <1>2, <1>16 DEF RequestFails, Requests, Times, tables, scheduler
  <1> QED BY <1>1, <1>3, <1>4, <1>5, <1>6, <1>7, <1>8, <1>9, <1>10, <1>11,
             <1>12, <1>13, <1>14, <1>15, <1>16 DEF Next

(* Every variable keeps its type, in every interleaving.                   *)
THEOREM TypeCorrect == Spec => []TypeOK
  <1>1. Init => TypeOK
    <2> SUFFICES ASSUME Init
                 PROVE  TypeOK
      OBVIOUS
    <2>1. client \in Requests
      BY DEF Init, Requests, Statuses, Times
    <2>2. services \in [DOMAIN services -> Intervals] /\ DOMAIN services = {}
      BY DEF Init
    <2>3. <<>> \in Seq(Checks) /\ <<>> \in Seq(Incidents)
          /\ <<>> \in Seq(Loops) /\ <<>> \in Seq(Tasks)
      OBVIOUS
    <2>4. used \in [{"calls", "requests", "failures"} -> Nat]
      BY DEF Init
    <2> QED BY <2>1, <2>2, <2>3, <2>4 DEF Init, TypeOK
  <1> QED BY <1>1, TypeStep, PTL DEF Spec
-----------------------------------------------------------------------------
(* Whoever is alive is waited for, and nobody is waited for when the       *)
(* scheduler neither runs nor is being stopped; so that Start finds no     *)
(* loop.  A channel closed while the scheduler runs was closed by a Stop   *)
(* of an earlier loop.                                                     *)
Waited ==
    /\ \A i \in DOMAIN loops : LoopAlive(i) => <<"loop", i>> \in wg
    /\ \A i \in DOMAIN tasks : TaskAlive(i) => <<"task", i>> \in wg
    /\ ~running /\ ~stopping => wg = {}

Started ==
    /\ running \/ closed => Len(loops) >= 1
    /\ running /\ closed => Len(loops) > 1
    /\ panicked => Len(loops) > 1

LifeInv == Waited /\ OneLoop /\ Started

(* A step of the loops and the checks that leaves Start and Stop alone.    *)
LEMMA Works ==
    ASSUME TypeOK, LifeInv, TypeOK', UNCHANGED scheduler,
           Len(loops') = Len(loops),
           \A i \in DOMAIN loops : loops'[i].alive => loops[i].alive,
           running \/ stopping \/ wg' \subseteq wg,
           \A i \in DOMAIN loops : loops'[i].alive /\ <<"loop", i>> \in wg =>
               <<"loop", i>> \in wg',
           \A i \in DOMAIN tasks' : tasks'[i].at # "done" => <<"task", i>> \in wg'
    PROVE  LifeInv'
  <1>1. DOMAIN loops' = DOMAIN loops
    BY DEF TypeOK
  <1>2. Waited'
    BY <1>1 DEF LifeInv, Waited, LoopAlive, TaskAlive, scheduler
  <1>3. OneLoop'
    BY <1>1 DEF LifeInv, OneLoop, LoopAlive
  <1>4. Started'
    BY DEF LifeInv, Started, scheduler
  <1> QED BY <1>2, <1>3, <1>4 DEF LifeInv

LEMMA LifeStep ==
    ASSUME TypeOK, LifeInv, TypeOK', [Next]_vars
    PROVE  LifeInv'
  <1>1. CASE Restart
    BY <1>1 DEF Restart, NewProcess, LifeInv, Waited, OneLoop, Started,
                LoopAlive, TaskAlive
  <1>2. CASE StartRun
    <2> DEFINE n == Len(loops) + 1
               l == [alive |-> TRUE, tick |-> Never,
                     last |-> [s \in Services |-> Never]]
    <2>1. /\ wg = {} /\ ~running /\ ~stopping /\ running'
          /\ loops' = Append(loops, l)
          /\ wg' = {<<"loop", n>>}
          /\ UNCHANGED <<closed, stopping, panicked, tasks>>
      BY <1>2 DEF StartRun, MayStart, LifeInv, Waited
    <2>2. /\ \A i \in DOMAIN loops : ~loops[i].alive
          /\ \A i \in DOMAIN tasks : tasks[i].at = "done"
      BY <2>1 DEF LifeInv, Waited, LoopAlive, TaskAlive
    <2>3. /\ loops \in Seq(Loops) /\ l \in Loops
          /\ Len(loops) \in Nat /\ DOMAIN loops = 1..Len(loops)
      BY DEF TypeOK, Loops, Times
    <2> HIDE DEF l
    <2>4. /\ Len(loops') = n /\ DOMAIN loops' = 1..n
          /\ \A i \in DOMAIN loops : loops'[i] = loops[i]
      BY <2>1, <2>3, SeqAppend
    <2>5. \A i \in DOMAIN loops' : loops'[i].alive => i = n
      BY <2>2, <2>3, <2>4
    <2>6. Waited'
      BY <2>1, <2>2, <2>5 DEF Waited, LoopAlive, TaskAlive
    <2>7. OneLoop'
      BY <2>5 DEF OneLoop, LoopAlive
    <2>8. Started'
      BY <2>1, <2>3, <2>4 DEF LifeInv, Started
    <2> QED BY <2>6, <2>7, <2>8 DEF LifeInv
  <1>3. CASE Stop
    BY <1>3 DEF Stop, MayStop, LifeInv, Waited, OneLoop, Started, LoopAlive, TaskAlive
  <1>4. CASE StopReturn
    BY <1>4 DEF StopReturn, LifeInv, Waited, OneLoop, Started, LoopAlive,
                TaskAlive
  <1>5. CASE Tick
    <2>1. /\ loops \in Seq(Loops)
          /\ loops' = [ i \in DOMAIN loops |->
                          IF loops[i].alive /\ loops[i].tick = Never
                          THEN [loops[i] EXCEPT !.tick = clock + 1]
                          ELSE loops[i] ]
          /\ UNCHANGED <<scheduler, wg, tasks>>
      BY <1>5 DEF Tick, TypeOK
    <2>2. /\ loops \in Seq(Loops) /\ loops' \in Seq(Loops)
          /\ DOMAIN loops' = DOMAIN loops
      BY <2>1 DEF TypeOK
    <2>3. Len(loops') = Len(loops)
      BY <2>2
    <2>4. \A i \in DOMAIN loops : loops'[i].alive = loops[i].alive
      BY <2>1, <2>2, Ticked DEF Loops
    <2>5. \A i \in DOMAIN tasks' : tasks'[i].at # "done" => <<"task", i>> \in wg'
      BY <2>1 DEF LifeInv, Waited, TaskAlive
    <2> QED BY <2>1, <2>3, <2>4, <2>5, Works
  <1>6. ASSUME NEW i \in DOMAIN loops, LoopStop(i)
        PROVE  LifeInv'
    <2> DEFINE l == [alive |-> FALSE, tick |-> Never,
                     last |-> [s \in Services |-> Never]]
    <2>1. /\ loops' = [loops EXCEPT ![i] = l] /\ l.alive = FALSE
          /\ wg' = wg \ {<<"loop", i>>}
          /\ UNCHANGED <<scheduler, tasks>>
      BY <1>6 DEF LoopStop
    <2> HIDE DEF l
    <2>2. loops \in Seq(Loops)
      BY DEF TypeOK
    <2>3. Len(loops') = Len(loops)
      BY <2>1, <2>2
    <2>4. \A j \in DOMAIN loops : loops'[j].alive => loops[j].alive /\ j # i
      BY <2>1, <2>2
    <2>5. \A j \in DOMAIN tasks' : tasks'[j].at # "done" => <<"task", j>> \in wg'
      BY <2>1 DEF LifeInv, Waited, TaskAlive
    <2> QED BY <2>1, <2>3, <2>4, <2>5, Works
  <1>7. ASSUME NEW i \in DOMAIN loops, CheckServices(i) \/ ListFails(i)
        PROVE  LifeInv'
    <2>1. PICK l : loops' = [loops EXCEPT ![i] = l] /\ l.alive = loops[i].alive
      <3>1. loops[i] \in Loops
        BY DEF TypeOK
      <3>2. CASE ListFails(i)
        <4> DEFINE l == [loops[i] EXCEPT !.tick = Never]
        <4>1. loops' = [loops EXCEPT ![i] = l]
          BY <3>2 DEF ListFails
        <4>2. l.alive = loops[i].alive
          BY <3>1 DEF Loops
        <4> QED BY <4>1, <4>2
      <3>3. CASE CheckServices(i)
        <4> DEFINE l == [loops[i] EXCEPT !.tick = Never,
                            !.last = [ s \in Services |->
                                IF s \in Due(i) THEN loops[i].tick ELSE @[s] ]]
        <4>1. loops' = [loops EXCEPT ![i] = l] /\ l.alive = loops[i].alive
          BY <3>1, <3>3 DEF CheckServices, Loops
        <4> QED BY <4>1
      <3> QED BY <1>7, <3>2, <3>3
    <2>2. UNCHANGED scheduler /\ LoopAlive(i)
      BY <1>7 DEF CheckServices, ListFails
    <2>3. loops \in Seq(Loops)
      BY DEF TypeOK
    <2>4. /\ Len(loops') = Len(loops)
          /\ \A j \in DOMAIN loops : loops'[j].alive = loops[j].alive
      BY <2>1, <2>3
    <2>5. running \/ stopping
      BY <2>2 DEF LifeInv, Waited
    <2>6. /\ wg \subseteq wg'
          /\ \A j \in DOMAIN tasks' : tasks'[j].at # "done" => <<"task", j>> \in wg'
      <3>1. CASE ListFails(i)
        BY <3>1 DEF ListFails, LifeInv, Waited, TaskAlive
      <3>2. CASE CheckServices(i)
        <4>1. Due(i) \in SUBSET Services /\ Spawn(Due(i))
          BY <3>2 DEF Due, CheckServices, TypeOK
        <4> DEFINE n == Cardinality(Due(i))
        <4>2. /\ tasks \in Seq(Tasks) /\ tasks' \in Seq(Tasks)
              /\ Len(tasks') = Len(tasks) + n /\ n \in Nat
              /\ \A j \in DOMAIN tasks : tasks'[j] = tasks[j]
              /\ wg' = wg \union { <<"task", k>> :
                           k \in Len(tasks) + 1 .. Len(tasks) + n }
          BY <4>1, SpawnTasks DEF TypeOK
        <4> HIDE DEF n
        <4>3. \A j \in DOMAIN tasks' :
                  j \in DOMAIN tasks \/ j \in Len(tasks) + 1 .. Len(tasks) + n
          BY <4>2
        <4> QED BY <4>2, <4>3 DEF LifeInv, Waited, TaskAlive
      <3> QED BY <1>7, <3>1, <3>2
    <2> QED BY <2>2, <2>4, <2>5, <2>6, Works
  <1>8. ASSUME NEW i \in DOMAIN tasks, TaskStep(i)
        PROVE  LifeInv'
    <2>1. TaskAlive(i)
      BY <1>8 DEF TaskStep, Check, Save, Detect, Create, Update, TaskFails
    <2>2. \/ \E t : Continue(i, t)
          \/ Done(i)
      BY <1>8 DEF TaskStep, Check, Save, Detect, Create, Update, TaskFails
    <2>3. tasks \in Seq(Tasks)
      BY DEF TypeOK
    <2>4. CASE \E t : Continue(i, t)
      <3>1. /\ UNCHANGED <<scheduler, loops, wg>>
            /\ DOMAIN tasks' = DOMAIN tasks
            /\ \A j \in DOMAIN tasks : j # i => tasks'[j] = tasks[j]
        BY <2>3, <2>4 DEF Continue, Move
      <3>2. \A j \in DOMAIN tasks' : tasks'[j].at # "done" => <<"task", j>> \in wg'
        BY <2>1, <3>1 DEF LifeInv, Waited, TaskAlive
      <3> QED BY <3>1, <3>2, Works
    <2>5. CASE Done(i)
      <3>1. NewTask(tasks[i].service) \in Tasks
        <4>1. tasks[i] \in Tasks
          BY <2>3
        <4>2. tasks[i].service \in Services
          BY <4>1 DEF Tasks
        <4> QED BY <4>2, FreshTask DEF TypeOK
      <3> DEFINE t == [NewTask(tasks[i].service) EXCEPT !.at = "done",
                                                        !.time = Never]
      <3>2. t.at = "done"
        BY <3>1 DEF Tasks
      <3>3. /\ tasks' = [tasks EXCEPT ![i] = t]
            /\ wg' = wg \ {<<"task", i>>}
            /\ UNCHANGED <<scheduler, loops>>
        BY <2>5 DEF Done, Move
      <3> HIDE DEF t
      <3>4. \A j \in DOMAIN tasks' : tasks'[j].at # "done" =>
                j # i /\ j \in DOMAIN tasks /\ tasks'[j] = tasks[j]
        BY <2>3, <3>2, <3>3
      <3>5. \A j \in DOMAIN tasks' : tasks'[j].at # "done" => <<"task", j>> \in wg'
        BY <3>3, <3>4 DEF LifeInv, Waited, TaskAlive
      <3> QED BY <3>3, <3>5, Works
    <2> QED BY <2>2, <2>4, <2>5
  <1>9. CASE \/ UNCHANGED vars
             \/ ServiceCreate \/ ServiceDelete \/ ServiceGet \/ ServiceUpdate
             \/ TriggerGet \/ TriggerCheck \/ RequestFails
    <2>1. UNCHANGED <<scheduler, wg, loops, tasks>>
      BY <1>9 DEF vars, Request, ServiceCreate, ServiceDelete, ServiceGet,
                  ServiceUpdate, TriggerGet, TriggerCheck, RequestFails
    <2>2. \A j \in DOMAIN tasks' : tasks'[j].at # "done" => <<"task", j>> \in wg'
      BY <2>1 DEF LifeInv, Waited, TaskAlive
    <2> QED BY <2>1, <2>2, Works
  <1> QED BY <1>1, <1>2, <1>3, <1>4, <1>5, <1>6, <1>7, <1>8, <1>9 DEF Next

LEMMA LifeInvariant == Spec => []LifeInv
  <1>1. Init => LifeInv
    BY DEF Init, LifeInv, Waited, OneLoop, Started, LoopAlive, TaskAlive
  <1>2. TypeOK /\ TypeOK' /\ LifeInv /\ [Next]_vars => LifeInv'
    BY LifeStep
  <1> QED BY <1>1, <1>2, TypeCorrect, PTL DEF Spec

(* scheduler.go Stop: when it has returned, nothing of the scheduler runs. *)
THEOREM Drained == Spec => []StopDrains
  <1>1. LifeInv => StopDrains
    BY DEF LifeInv, Waited, StopDrains
  <1> QED BY <1>1, LifeInvariant, PTL

(* scheduler.go Start: two loops never run at once.                        *)
THEOREM AtMostOneLoop == Spec => []OneLoop
  BY LifeInvariant, PTL DEF LifeInv

(* scheduler.go Stop: it panics only in a scheduler that was started again *)
(* after a Stop.                                                           *)
THEOREM PanicAfterRestart == Spec => []PanicOnlyAfterRestart
  <1>1. LifeInv => PanicOnlyAfterRestart
    BY DEF LifeInv, Started, PanicOnlyAfterRestart
  <1> QED BY <1>1, LifeInvariant, PTL

-----------------------------------------------------------------------------
(* scheduler.go Stop: what it waits for is alive and, once stopCh is       *)
(* closed, never runs out of steps to take; nobody that it waits for is    *)
(* gone, which would keep it, and the lock, for ever.                      *)
WaitsForLiving ==
    /\ \A i \in Nat : <<"loop", i>> \in wg => LoopAlive(i)
    /\ \A i \in Nat : <<"task", i>> \in wg => TaskAlive(i)
    /\ stopping => closed /\ ~running /\ ~panicked

(* What a goroutine of a check has yet to do, in statements.               *)
Left(task) == CASE task.at = "check" -> 4
                [] task.at = "save" -> 3
                [] task.at = "detect" -> 2
                [] task.at \in {"create", "update"} -> 1
                [] task.at = "done" -> 0

(* scheduler.go performCheck: every step of a check leaves it with less to *)
(* do, and nothing else that happens to the process gives it more.         *)
ChecksShorten ==
    [][ \/ tasks' = <<>>
        \/ \A i \in DOMAIN tasks :
              /\ i \in DOMAIN tasks'
              /\ tasks'[i] # tasks[i] => Left(tasks'[i]) < Left(tasks[i]) ]_vars

(* A step that lets nobody die who is still counted. *)
LEMMA StillLiving ==
    ASSUME TypeOK, TypeOK', WaitsForLiving, UNCHANGED scheduler,
           Len(loops') = Len(loops), Len(tasks) <= Len(tasks'),
           \A i \in DOMAIN loops : loops[i].alive /\ <<"loop", i>> \in wg' =>
               loops'[i].alive,
           \A i \in DOMAIN tasks : tasks[i].at # "done" /\ <<"task", i>> \in wg' =>
               tasks'[i].at # "done",
           \A i \in Nat : <<"loop", i>> \in wg' => <<"loop", i>> \in wg,
           \A i \in Nat : <<"task", i>> \in wg' =>
               \/ <<"task", i>> \in wg
               \/ i \in DOMAIN tasks' /\ tasks'[i].at # "done"
    PROVE  WaitsForLiving'
  <1>1. /\ DOMAIN loops' = DOMAIN loops
        /\ DOMAIN tasks \subseteq DOMAIN tasks'
    BY DEF TypeOK
  <1>2. \A i \in Nat : <<"loop", i>> \in wg' => LoopAlive(i)'
    BY <1>1 DEF WaitsForLiving, LoopAlive
  <1>3. \A i \in Nat : <<"task", i>> \in wg' => TaskAlive(i)'
    BY <1>1 DEF WaitsForLiving, TaskAlive
  <1>4. stopping' => closed' /\ ~running' /\ ~panicked'
    BY DEF WaitsForLiving, scheduler
  <1> QED BY <1>2, <1>3, <1>4 DEF WaitsForLiving

(* Where a step takes the goroutine of a check. *)
Goes(i) ==
    /\ tasks[i].at # "done"
    /\ Len(tasks') = Len(tasks)
    /\ \A j \in DOMAIN tasks : j # i => tasks'[j] = tasks[j]
    /\ UNCHANGED <<scheduler, loops>>
    /\ \/ /\ tasks[i].at = "check" /\ tasks'[i].at = "save"
          /\ UNCHANGED wg
       \/ /\ tasks[i].at = "save" /\ tasks'[i].at = "detect"
          /\ UNCHANGED wg
       \/ /\ tasks[i].at = "detect" /\ tasks'[i].at \in {"create", "update"}
          /\ UNCHANGED wg
       \/ /\ tasks'[i].at = "done"
          /\ wg' = wg \ {<<"task", i>>}

LEMMA TaskGoes ==
    ASSUME TypeOK, NEW i \in DOMAIN tasks, TaskStep(i)
    PROVE  Goes(i)
  <1>1. tasks \in Seq(Tasks) /\ tasks[i] \in Tasks
    BY DEF TypeOK
  <1>2. tasks[i].at # "done"
    BY DEF TaskAlive, TaskStep, Check, Save, Detect, Create, Update, TaskFails
  <1>3. ASSUME NEW t, Continue(i, t)
        PROVE  /\ Len(tasks') = Len(tasks)
               /\ \A j \in DOMAIN tasks : j # i => tasks'[j] = tasks[j]
               /\ tasks'[i] = t
               /\ UNCHANGED <<scheduler, loops, wg>>
    BY <1>1, <1>3 DEF Continue, Move
  <1>4. ASSUME Done(i)
        PROVE  Goes(i)
    <2> DEFINE t == [NewTask(tasks[i].service) EXCEPT !.at = "done",
                                                      !.time = Never]
    <2>1. tasks[i].service \in Services
      BY <1>1 DEF Tasks
    <2>2. NewTask(tasks[i].service) \in Tasks
      BY <2>1, FreshTask DEF TypeOK
    <2>3. t.at = "done"
      BY <2>2 DEF Tasks
    <2>4. /\ tasks' = [tasks EXCEPT ![i] = t]
          /\ wg' = wg \ {<<"task", i>>}
          /\ UNCHANGED <<scheduler, loops>>
      BY <1>4 DEF Done, Move
    <2> HIDE DEF t
    <2>5. /\ Len(tasks') = Len(tasks) /\ tasks'[i] = t
          /\ \A j \in DOMAIN tasks : j # i => tasks'[j] = tasks[j]
      BY <1>1, <2>4
    <2> QED BY <1>2, <2>3, <2>4, <2>5 DEF Goes
  <1>5. CASE Check(i)
    <2>1. PICK s \in Statuses :
              Continue(i, [tasks[i] EXCEPT !.at = "save", !.status = s])
      BY <1>5 DEF Check
    <2>2. tasks[i].at = "check"
      BY <1>5 DEF Check
    <2>3. [tasks[i] EXCEPT !.at = "save", !.status = s].at = "save"
      BY <1>1 DEF Tasks
    <2> QED BY <1>2, <1>3, <2>1, <2>2, <2>3 DEF Goes
  <1>6. CASE Save(i)
    <2>1. /\ Continue(i, [tasks[i] EXCEPT !.at = "detect", !.row = Len(checks) + 1])
          /\ tasks[i].at = "save"
      BY <1>6 DEF Save
    <2>2. [tasks[i] EXCEPT !.at = "detect", !.row = Len(checks) + 1].at = "detect"
      BY <1>1 DEF Tasks
    <2> QED BY <1>2, <1>3, <2>1, <2>2 DEF Goes
  <1>7. CASE Detect(i)
    <2>1. tasks[i].at = "detect"
      BY <1>7 DEF Detect
    <2>2. \/ Continue(i, [tasks[i] EXCEPT !.at = "create"])
          \/ \E k \in DOMAIN incidents :
                \/ Continue(i, [Copy(i, k) EXCEPT !.failed = @ + 1])
                \/ Continue(i, [Copy(i, k) EXCEPT !.recovered = TRUE])
          \/ Done(i)
      BY <1>7 DEF Detect, GetActive, Active
    <2>3. [tasks[i] EXCEPT !.at = "create"].at = "create"
      BY <1>1 DEF Tasks
    <2>4. ASSUME NEW k
          PROVE  /\ [Copy(i, k) EXCEPT !.failed = @ + 1].at = "update"
                 /\ [Copy(i, k) EXCEPT !.recovered = TRUE].at = "update"
      BY <1>1 DEF Tasks, Copy
    <2>5. CASE Continue(i, [tasks[i] EXCEPT !.at = "create"])
      BY <1>2, <1>3, <2>1, <2>3, <2>5 DEF Goes
    <2>6. ASSUME NEW k \in DOMAIN incidents,
                 \/ Continue(i, [Copy(i, k) EXCEPT !.failed = @ + 1])
                 \/ Continue(i, [Copy(i, k) EXCEPT !.recovered = TRUE])
          PROVE  Goes(i)
      BY <1>2, <1>3, <2>1, <2>4, <2>6 DEF Goes
    <2> QED BY <1>4, <2>2, <2>5, <2>6
  <1>8. CASE Create(i) \/ Update(i) \/ TaskFails(i)
    BY <1>4, <1>8 DEF Create, Update, TaskFails
  <1> QED BY <1>5, <1>6, <1>7, <1>8 DEF TaskStep

(* The tasks that checkServices adds are at their beginning. *)
LEMMA SpawnChecks ==
    ASSUME TypeOK, NEW due \in SUBSET Services, Spawn(due)
    PROVE  \E n \in Nat :
              /\ Len(tasks') = Len(tasks) + n
              /\ \A j \in DOMAIN tasks : tasks'[j] = tasks[j]
              /\ \A j \in Len(tasks) + 1 .. Len(tasks) + n :
                    j \in DOMAIN tasks' /\ tasks'[j].at = "check"
              /\ wg' = wg \union { <<"task", k>> :
                           k \in Len(tasks) + 1 .. Len(tasks) + n }
  <1> DEFINE n == Cardinality(due)
  <1>1. /\ n \in Nat
        /\ wg' = wg \union { <<"task", k>> :
                     k \in Len(tasks) + 1 .. Len(tasks) + n }
    BY SpawnTasks DEF TypeOK
  <1>2. PICK new \in [1..n -> due] :
            tasks' = tasks \o [k \in DOMAIN new |-> NewTask(new[k])]
    BY DEF Spawn
  <1> HIDE DEF n
  <1> DEFINE started == [k \in 1..n |-> NewTask(new[k])]
  <1>3. tasks' = tasks \o started
    BY <1>2
  <1>4. \A k \in 1..n : started[k] \in Tasks /\ started[k].at = "check"
    <2> SUFFICES ASSUME NEW k \in 1..n
                 PROVE  started[k] \in Tasks /\ started[k].at = "check"
      OBVIOUS
    <2>1. new[k] \in Services /\ started[k] = NewTask(new[k])
      BY <1>2
    <2>2. NewTask(new[k]) \in Tasks
      BY <2>1, FreshTask DEF TypeOK
    <2>3. NewTask(new[k]).at = "check"
      BY DEF NewTask
    <2> QED BY <2>1, <2>2, <2>3
  <1>5. started \in Seq(Tasks) /\ Len(started) = n
    BY <1>1, <1>4
  <1> HIDE DEF started
  <1>6. tasks \in Seq(Tasks)
    BY DEF TypeOK
  <1>7. /\ Len(tasks') = Len(tasks) + n
        /\ \A j \in DOMAIN tasks : tasks'[j] = tasks[j]
        /\ \A j \in Len(tasks) + 1 .. Len(tasks) + n :
              /\ j \in DOMAIN tasks'
              /\ j - Len(tasks) \in 1..n /\ tasks'[j] = started[j - Len(tasks)]
    BY <1>1, <1>3, <1>5, <1>6
  <1> QED BY <1>1, <1>4, <1>7

LEMMA LivingStep ==
    ASSUME TypeOK, LifeInv, WaitsForLiving, TypeOK', [Next]_vars
    PROVE  WaitsForLiving'
  <1>1. CASE Restart
    BY <1>1 DEF Restart, NewProcess, WaitsForLiving
  <1>2. CASE StartRun
    <2> DEFINE n == Len(loops) + 1
               l == [alive |-> TRUE, tick |-> Never,
                     last |-> [s \in Services |-> Never]]
    <2>1. /\ wg = {} /\ ~stopping
          /\ loops' = Append(loops, l)
          /\ wg' = {<<"loop", n>>}
          /\ UNCHANGED stopping
      BY <1>2 DEF StartRun, MayStart, LifeInv, Waited
    <2>2. /\ loops \in Seq(Loops) /\ l \in Loops /\ l.alive
      BY DEF TypeOK, Loops, Times
    <2> HIDE DEF l
    <2>3. n \in DOMAIN loops' /\ loops'[n].alive
      BY <2>1, <2>2, SeqAppend
    <2> QED BY <2>1, <2>3 DEF WaitsForLiving, LoopAlive
  <1>3. CASE ~panicked /\ Stop
    <2>1. UNCHANGED <<wg, loops, tasks>>
      BY <1>3 DEF Stop
    <2>2. stopping' => closed' /\ ~running' /\ ~panicked'
      BY <1>3 DEF Stop, MayStop
    <2> QED BY <2>1, <2>2 DEF WaitsForLiving, LoopAlive, TaskAlive
  <1>4. CASE StopReturn
    BY <1>4 DEF StopReturn, WaitsForLiving, LoopAlive, TaskAlive
  <1>5. CASE Tick
    <2>1. /\ loops \in Seq(Loops)
          /\ loops' = [ i \in DOMAIN loops |->
                          IF loops[i].alive /\ loops[i].tick = Never
                          THEN [loops[i] EXCEPT !.tick = clock + 1]
                          ELSE loops[i] ]
          /\ UNCHANGED <<scheduler, wg, tasks>>
      BY <1>5 DEF Tick, TypeOK
    <2>2. \A i \in DOMAIN loops : loops'[i].alive = loops[i].alive
      <3> SUFFICES ASSUME NEW i \in DOMAIN loops
                   PROVE  loops'[i].alive = loops[i].alive
        OBVIOUS
      <3>1. loops[i] \in Loops /\ clock + 1 \in Times
        BY <2>1 DEF TypeOK, Times
      <3> QED BY <2>1, <3>1, Ticked
    <2>3. Len(loops') = Len(loops)
      BY <2>1 DEF TypeOK
    <2>4. Len(tasks) <= Len(tasks')
      BY <2>1 DEF TypeOK
    <2> QED BY <2>1, <2>2, <2>3, <2>4, StillLiving
  <1>6. ASSUME NEW i \in DOMAIN loops, LoopStop(i)
        PROVE  WaitsForLiving'
    <2> DEFINE l == [alive |-> FALSE, tick |-> Never,
                     last |-> [s \in Services |-> Never]]
    <2>1. /\ loops' = [loops EXCEPT ![i] = l]
          /\ wg' = wg \ {<<"loop", i>>}
          /\ UNCHANGED <<scheduler, tasks>>
      BY <1>6 DEF LoopStop
    <2> HIDE DEF l
    <2>2. loops \in Seq(Loops) /\ tasks \in Seq(Tasks)
      BY DEF TypeOK
    <2>3. Len(loops') = Len(loops) /\ Len(tasks) <= Len(tasks')
      BY <2>1, <2>2
    <2>4. \A j \in DOMAIN loops : j # i => loops'[j] = loops[j]
      BY <2>1, <2>2
    <2> QED BY <2>1, <2>3, <2>4, StillLiving
  <1>7. ASSUME NEW i \in DOMAIN loops, CheckServices(i) \/ ListFails(i)
        PROVE  WaitsForLiving'
    <2>1. loops[i] \in Loops /\ loops \in Seq(Loops) /\ tasks \in Seq(Tasks)
      BY DEF TypeOK
    <2>2. UNCHANGED scheduler
      BY <1>7 DEF CheckServices, ListFails
    <2>3. PICK l : loops' = [loops EXCEPT ![i] = l] /\ l.alive = loops[i].alive
      <3>1. CASE ListFails(i)
        <4> DEFINE l == [loops[i] EXCEPT !.tick = Never]
        <4>1. loops' = [loops EXCEPT ![i] = l]
          BY <3>1 DEF ListFails
        <4>2. l.alive = loops[i].alive
          BY <2>1 DEF Loops
        <4> QED BY <4>1, <4>2
      <3>2. CASE CheckServices(i)
        <4> DEFINE l == [loops[i] EXCEPT !.tick = Never,
                            !.last = [ s \in Services |->
                                IF s \in Due(i) THEN loops[i].tick ELSE @[s] ]]
        <4>1. loops' = [loops EXCEPT ![i] = l] /\ l.alive = loops[i].alive
          BY <2>1, <3>2 DEF CheckServices, Loops
        <4> QED BY <4>1
      <3> QED BY <1>7, <3>1, <3>2
    <2>4. /\ Len(loops') = Len(loops)
          /\ \A j \in DOMAIN loops : loops'[j].alive = loops[j].alive
      BY <2>1, <2>3
    <2>5. CASE ListFails(i)
      <3>1. UNCHANGED <<wg, tasks>>
        BY <2>5 DEF ListFails
      <3>2. Len(tasks) <= Len(tasks')
        BY <2>1, <3>1
      <3> QED BY <2>2, <2>4, <3>1, <3>2, StillLiving
    <2>6. CASE CheckServices(i)
      <3>1. Due(i) \in SUBSET Services /\ Spawn(Due(i))
        BY <2>6 DEF Due, CheckServices, TypeOK
      <3>2. PICK n \in Nat :
              /\ Len(tasks') = Len(tasks) + n
              /\ \A j \in DOMAIN tasks : tasks'[j] = tasks[j]
              /\ \A j \in Len(tasks) + 1 .. Len(tasks) + n :
                    j \in DOMAIN tasks' /\ tasks'[j].at = "check"
              /\ wg' = wg \union { <<"task", k>> :
                           k \in Len(tasks) + 1 .. Len(tasks) + n }
        BY <3>1, SpawnChecks
      <3>3. Len(tasks) <= Len(tasks')
        BY <2>1, <3>2
      <3>4. \A j \in Nat : <<"loop", j>> \in wg' => <<"loop", j>> \in wg
        BY <3>2
      <3>5. \A j \in Nat : <<"task", j>> \in wg' =>
                \/ <<"task", j>> \in wg
                \/ j \in DOMAIN tasks' /\ tasks'[j].at # "done"
        BY <3>2
      <3> QED BY <2>2, <2>4, <3>2, <3>3, <3>4, <3>5, StillLiving
    <2> QED BY <1>7, <2>5, <2>6
  <1>8. ASSUME NEW i \in DOMAIN tasks, TaskStep(i)
        PROVE  WaitsForLiving'
    <2>1. Goes(i)
      BY <1>8, TaskGoes
    <2>2. Len(loops') = Len(loops) /\ Len(tasks) <= Len(tasks')
      BY <2>1 DEF Goes, TypeOK
    <2>3. \A j \in DOMAIN tasks : tasks[j].at # "done" /\ <<"task", j>> \in wg' =>
              tasks'[j].at # "done"
      BY <2>1 DEF Goes
    <2>4. wg' \subseteq wg /\ UNCHANGED <<scheduler, loops>>
      BY <2>1 DEF Goes
    <2> QED BY <2>2, <2>3, <2>4, StillLiving
  <1>9. CASE \/ UNCHANGED vars
             \/ ServiceCreate \/ ServiceDelete \/ ServiceGet \/ ServiceUpdate
             \/ TriggerGet \/ TriggerCheck \/ RequestFails
    <2>1. UNCHANGED <<scheduler, wg, loops, tasks>>
      BY <1>9 DEF vars, Request, ServiceCreate, ServiceDelete, ServiceGet,
                  ServiceUpdate, TriggerGet, TriggerCheck, RequestFails
    <2>2. Len(tasks) <= Len(tasks')
      BY <2>1 DEF TypeOK
    <2> QED BY <2>1, <2>2, StillLiving
  <1> QED BY <1>1, <1>2, <1>3, <1>4, <1>5, <1>6, <1>7, <1>8, <1>9 DEF Next

(* scheduler.go Stop: it never waits for a goroutine that is gone; with    *)
(* ChecksEnd what is left of StopReturns is that the goroutines run.       *)
THEOREM WaitIsForLiving == Spec => []WaitsForLiving
  <1>1. Init => WaitsForLiving
    BY DEF Init, WaitsForLiving
  <1>2. /\ TypeOK /\ TypeOK' /\ LifeInv /\ WaitsForLiving /\ [Next]_vars
        => WaitsForLiving'
    BY LivingStep
  <1> QED BY <1>1, <1>2, TypeCorrect, LifeInvariant, PTL DEF Spec

(* scheduler.go performCheck: a check takes at most four more steps,       *)
(* whatever else happens, and others do not prolong it.                    *)
THEOREM ChecksEnd == Spec => ChecksShorten
  <1> DEFINE Shorter == \/ tasks' = <<>>
                        \/ \A i \in DOMAIN tasks :
                              /\ i \in DOMAIN tasks'
                              /\ tasks'[i] # tasks[i] =>
                                    Left(tasks'[i]) < Left(tasks[i])
  <1>1. TypeOK /\ [Next]_vars => Shorter
    <2> SUFFICES ASSUME TypeOK, [Next]_vars
                 PROVE  Shorter
      OBVIOUS
    <2>1. CASE Restart
      BY <2>1 DEF Restart, NewProcess
    <2>2. ASSUME NEW i \in DOMAIN tasks, TaskStep(i)
          PROVE  Shorter
      <3>1. Goes(i)
        BY <2>2, TaskGoes
      <3>2. DOMAIN tasks' = DOMAIN tasks
        <4>1. TypeOK'
          BY TypeStep
        <4> QED BY <3>1, <4>1 DEF Goes, TypeOK
      <3>3. tasks[i].at \in {"check", "save", "detect", "create", "update", "done"}
        <4>1. tasks[i] \in Tasks
          BY DEF TypeOK
        <4> QED BY <4>1 DEF Tasks
      <3>4. Left(tasks'[i]) < Left(tasks[i])
        BY <3>1, <3>3 DEF Goes, Left
      <3> QED BY <3>1, <3>2, <3>4 DEF Goes
    <2>3. ASSUME NEW i \in DOMAIN loops, CheckServices(i)
          PROVE  Shorter
      <3>1. Due(i) \in SUBSET Services /\ Spawn(Due(i))
        BY <2>3 DEF Due, CheckServices, TypeOK
      <3>2. /\ tasks' \in Seq(Tasks) /\ Len(tasks') >= Len(tasks)
            /\ \A j \in DOMAIN tasks : tasks'[j] = tasks[j]
        <4>1. /\ tasks' \in Seq(Tasks)
              /\ Len(tasks') = Len(tasks) + Cardinality(Due(i))
              /\ Cardinality(Due(i)) \in Nat
              /\ \A j \in DOMAIN tasks : tasks'[j] = tasks[j]
          BY <3>1, SpawnTasks DEF TypeOK
        <4> HIDE DEF Due
        <4>2. Len(tasks) \in Nat
          BY DEF TypeOK
        <4> QED BY <4>1, <4>2
      <3>3. DOMAIN tasks \subseteq DOMAIN tasks'
        BY <3>2 DEF TypeOK
      <3> QED BY <3>2, <3>3
    <2>4. CASE UNCHANGED tasks
      BY <2>4
    <2>5. \/ Restart
          \/ \E i \in DOMAIN tasks : TaskStep(i)
          \/ \E i \in DOMAIN loops : CheckServices(i)
          \/ UNCHANGED tasks
      BY DEF Next, vars, StartRun, Stop, StopReturn, Tick, LoopStop, ListFails,
             Request, ServiceCreate, ServiceDelete, ServiceGet, ServiceUpdate,
             TriggerGet, TriggerCheck, RequestFails
    <2> HIDE DEF Shorter
    <2> QED BY <2>1, <2>2, <2>3, <2>4, <2>5
  <1> QED BY <1>1, TypeCorrect, PTL DEF Spec, ChecksShorten

-----------------------------------------------------------------------------
(* A sum of natural numbers over a finite set counts units: one for each   *)
(* part of each number.                                                    *)
Units(F, S) == { p \in S \X Nat : p[2] \in 1..F[p[1]] }

(* A set of subsets of a finite set has a smallest one. *)
LEMMA SmallestSubset ==
    ASSUME NEW S, IsFiniteSet(S), NEW W \in SUBSET SUBSET S, W # {}
    PROVE  \E T \in W : \A U \in W : U \subseteq T => U = T
<1>1. IsWellFoundedOn(StrictSubsetOrdering(S), FiniteSubsetsOf(S))
  BY FS_StrictSubsetOrderingWellFounded
<1>2. \A T \in SUBSET S : IsFiniteSet(T)
  BY FS_Subset
<1>3. W \subseteq FiniteSubsetsOf(S)
  BY <1>2 DEF FiniteSubsetsOf
<1>4. PICK T \in W : \A U \in W : ~(<<U, T>> \in StrictSubsetOrdering(S))
  BY <1>1, <1>3, WFMin
<1>5. ASSUME NEW U \in W, U \subseteq T, U # T PROVE FALSE
  <2>1. <<U, T>> \in StrictSubsetOrdering(S)
    BY <1>5 DEF StrictSubsetOrdering
  <2>2. QED
    BY <1>4, <2>1
<1>6. QED
  BY <1>5

(* The units of one index are as many as its value, ... *)
LEMMA UnitsOfOne ==
    ASSUME NEW F, NEW x, F[x] \in Nat
    PROVE  IsFiniteSet({x} \X (1..F[x])) /\ Cardinality({x} \X (1..F[x])) = F[x]
<1>1. IsFiniteSet({x}) /\ Cardinality({x}) = 1
  BY FS_Singleton
<1>2. IsFiniteSet(1..F[x]) /\ Cardinality(1..F[x]) = F[x]
  BY FS_Interval
<1>3. /\ IsFiniteSet({x} \X (1..F[x]))
      /\ Cardinality({x} \X (1..F[x])) = Cardinality({x}) * Cardinality(1..F[x])
  BY <1>1, <1>2, FS_Product
<1>4. 1 * F[x] = F[x]
  OBVIOUS
<1>5. QED
  BY <1>1, <1>2, <1>3, <1>4

(* ... and they add up. *)
LEMMA UnitsSplit ==
    ASSUME NEW F, NEW S, NEW x \in S, F[x] \in Nat
    PROVE  /\ Units(F, S) = Units(F, S \ {x}) \union ({x} \X (1..F[x]))
           /\ Units(F, S \ {x}) \intersect ({x} \X (1..F[x])) = {}
BY DEF Units

LEMMA UnitsFinite ==
    ASSUME NEW S, IsFiniteSet(S), NEW F, \A x \in S : F[x] \in Nat
    PROVE  IsFiniteSet(Units(F, S)) /\ Cardinality(Units(F, S)) \in Nat
<1> DEFINE W == { T \in SUBSET S : ~IsFiniteSet(Units(F, T)) }
<1>1. W = {}
  <2> SUFFICES ASSUME W # {} PROVE FALSE
    OBVIOUS
  <2>1. PICK T \in W : \A U \in W : U \subseteq T => U = T
    <3>1. W \in SUBSET SUBSET S
      OBVIOUS
    <3> HIDE DEF W
    <3>2. QED
      BY <3>1, SmallestSubset
  <2>2. T # {}
    <3>1. Units(F, {}) = {}
      BY DEF Units
    <3>2. QED
      BY <3>1, FS_EmptySet
  <2>3. PICK x \in T : F[x] \in Nat
    BY <2>2
  <2>4. T \ {x} \in SUBSET S /\ T \ {x} # T
    OBVIOUS
  <2>5. T \ {x} \notin W
    BY <2>1, <2>4
  <2>6. IsFiniteSet(Units(F, T \ {x}))
    BY <2>4, <2>5
  <2>7. IsFiniteSet(Units(F, T))
    <3>1. Units(F, T) = Units(F, T \ {x}) \union ({x} \X (1..F[x]))
      BY <2>3, UnitsSplit
    <3>2. IsFiniteSet({x} \X (1..F[x]))
      BY <2>3, UnitsOfOne
    <3> DEFINE A == Units(F, T \ {x})
               B == {x} \X (1..F[x])
    <3>3. IsFiniteSet(A) /\ IsFiniteSet(B)
      BY <2>6, <3>2
    <3> HIDE DEF A, B
    <3>4. IsFiniteSet(A \union B)
      BY <3>3, FS_Union
    <3>5. QED
      BY <3>1, <3>4 DEF A, B
  <2>8. QED
    BY <2>7
<1>2. QED
  BY <1>1, FS_CardinalityType

LEMMA UnitsStep ==
    ASSUME NEW S, IsFiniteSet(S), NEW F, \A x \in S : F[x] \in Nat, NEW x \in S
    PROVE  Cardinality(Units(F, S)) = F[x] + Cardinality(Units(F, S \ {x}))
<1>1. IsFiniteSet(S \ {x})
  BY FS_RemoveElement
<1>2. IsFiniteSet(Units(F, S \ {x})) /\ Cardinality(Units(F, S \ {x})) \in Nat
  BY <1>1, UnitsFinite
<1>3. /\ IsFiniteSet({x} \X (1..F[x])) /\ Cardinality({x} \X (1..F[x])) = F[x]
      /\ Units(F, S) = Units(F, S \ {x}) \union ({x} \X (1..F[x]))
      /\ Units(F, S \ {x}) \intersect ({x} \X (1..F[x])) = {}
  BY UnitsOfOne, UnitsSplit
<1>4. Cardinality(Units(F, S \ {x}) \union ({x} \X (1..F[x])))
          = Cardinality(Units(F, S \ {x})) + Cardinality({x} \X (1..F[x])) - Cardinality({})
  BY <1>2, <1>3, FS_Union
<1>5. Cardinality({}) = 0
  BY FS_EmptySet
<1>6. QED
  BY <1>2, <1>3, <1>4, <1>5

(* The fold of the model is the number of units: both follow the same      *)
(* recursion, and the smallest set on which they differ does not exist.    *)
LEMMA FoldIsCount ==
    ASSUME NEW S, IsFiniteSet(S), NEW F, \A x \in S : F[x] \in Nat
    PROVE  FoldFunctionOnSet(LAMBDA x, n : x + n, 0, F, S) = Cardinality(Units(F, S))
<1> DEFINE pick(s) == CHOOSE x \in s : TRUE
           step(g, s) == IF s = {} THEN 0 ELSE F[pick(s)] + g[s \ {pick(s)}]
           iter == CHOOSE g : g = [s \in SUBSET S |-> step(g, s)]
           count == [s \in SUBSET S |-> Cardinality(Units(F, s))]
<1>1. FoldFunctionOnSet(LAMBDA x, n : x + n, 0, F, S) = iter[S]
  BY DEF FoldFunctionOnSet, MapThenFoldSet
<1>2. \A s \in SUBSET S : Cardinality(Units(F, s)) = step(count, s)
  <2> TAKE s \in SUBSET S
  <2>1. CASE s = {}
    <3>1. Units(F, {}) = {}
      BY DEF Units
    <3>2. QED
      BY <2>1, <3>1, FS_EmptySet
  <2>2. CASE s # {}
    <3>1. pick(s) \in s
      BY <2>2
    <3>2. IsFiniteSet(s) /\ \A x \in s : F[x] \in Nat
      BY FS_Subset
    <3> HIDE DEF pick
    <3>3. Cardinality(Units(F, s)) = F[pick(s)] + Cardinality(Units(F, s \ {pick(s)}))
      BY <3>1, <3>2, UnitsStep
    <3>4. s \ {pick(s)} \in SUBSET S
      OBVIOUS
    <3>5. count[s \ {pick(s)}] = Cardinality(Units(F, s \ {pick(s)}))
      BY <3>4
    <3>6. QED
      BY <2>2, <3>3, <3>5
  <2>3. QED
    BY <2>1, <2>2
<1>3. count = [s \in SUBSET S |-> step(count, s)]
  BY <1>2
<1>4. iter = [s \in SUBSET S |-> step(iter, s)]
  <2> DEFINE Is(g) == g = [s \in SUBSET S |-> step(g, s)]
  <2>1. \E g : Is(g)
    BY <1>3
  <2>2. Is(CHOOSE g : Is(g))
    BY <2>1
  <2>3. QED
    BY <2>2
<1> HIDE DEF iter, count
<1>5. { s \in SUBSET S : iter[s] # count[s] } = {}
  <2> DEFINE W == { s \in SUBSET S : iter[s] # count[s] }
  <2> SUFFICES ASSUME W # {} PROVE FALSE
    OBVIOUS
  <2>1. PICK T \in W : \A U \in W : U \subseteq T => U = T
    <3>1. W \in SUBSET SUBSET S
      OBVIOUS
    <3> HIDE DEF W
    <3>2. QED
      BY <3>1, SmallestSubset
  <2>2. iter[T] = step(iter, T) /\ count[T] = step(count, T)
    BY <1>3, <1>4
  <2>3. T # {}
    BY <2>2
  <2>4. pick(T) \in T
    BY <2>3
  <2> HIDE DEF pick
  <2>5. T \ {pick(T)} \in SUBSET S /\ T \ {pick(T)} # T
    BY <2>4
  <2>6. iter[T \ {pick(T)}] = count[T \ {pick(T)}]
    BY <2>1, <2>5
  <2>7. QED
    BY <2>2, <2>3, <2>6
<1>6. iter[S] = count[S]
  BY <1>5
<1>7. QED
  BY <1>1, <1>6 DEF count

-----------------------------------------------------------------------------
(* The failed checks of service s that are charged to incident k. *)
Blamed(cs, charge, s, k) ==
    { c \in DOMAIN cs : /\ cs[c].service = s
                        /\ cs[c].status = "unhealthy"
                        /\ cs[c].processed
                        /\ charge[c] = k }

Working == {"detect", "create", "update"}

(* A check that is being dealt with has a row of its own, not yet          *)
(* processed; what its copy is of is an incident of the same service.      *)
RowsOK ==
    /\ \A i \in DOMAIN tasks : tasks[i].at \in Working =>
           /\ tasks[i].row \in DOMAIN checks
           /\ ~checks[tasks[i].row].processed
           /\ checks[tasks[i].row].service = tasks[i].service
           /\ checks[tasks[i].row].status = tasks[i].status
           /\ tasks[i].at = "create" => tasks[i].status = "unhealthy"
           /\ tasks[i].at = "update" =>
                  /\ tasks[i].id \in DOMAIN incidents
                  /\ incidents[tasks[i].id].service = tasks[i].service
    /\ \A i, j \in DOMAIN tasks :
           tasks[i].at \in Working /\ tasks[j].at \in Working /\ tasks[i].row = tasks[j].row
           => i = j

(* Every failed check is charged to one incident, and no incident counts   *)
(* more than are charged to it; a copy may be one ahead, for the check     *)
(* that is being dealt with.                                               *)
Ahead(t) == IF t.status = "unhealthy" THEN 1 ELSE 0

Ledger(charge) ==
    /\ charge \in [DOMAIN checks -> Nat]
    /\ \A k \in DOMAIN incidents :
           incidents[k].failed <= Cardinality(Blamed(checks, charge, incidents[k].service, k))
    /\ \A i \in DOMAIN tasks : tasks[i].at = "update" =>
           tasks[i].failed <= Ahead(tasks[i]) +
               Cardinality(Blamed(checks, charge, tasks[i].service, tasks[i].id))

BookInv == RowsOK /\ \E charge : Ledger(charge)

-----------------------------------------------------------------------------
LEMMA BlamedFinite ==
    ASSUME NEW cs \in Seq(Checks), NEW charge, NEW s, NEW k
    PROVE  /\ IsFiniteSet(Blamed(cs, charge, s, k))
           /\ Cardinality(Blamed(cs, charge, s, k)) \in Nat
<1>1. IsFiniteSet(DOMAIN cs)
  <2>1. DOMAIN cs = 1..Len(cs) /\ Len(cs) \in Nat
    OBVIOUS
  <2>2. QED
    BY <2>1, FS_Interval
<1>2. Blamed(cs, charge, s, k) \in SUBSET DOMAIN cs
  BY DEF Blamed
<1>3. QED
  BY <1>1, <1>2, FS_Subset, FS_CardinalityType

LEMMA BlamedGrows ==
    ASSUME NEW cs \in Seq(Checks), NEW ds \in Seq(Checks), NEW f, NEW g, NEW s, NEW k,
           Blamed(cs, f, s, k) \subseteq Blamed(ds, g, s, k)
    PROVE  Cardinality(Blamed(cs, f, s, k)) <= Cardinality(Blamed(ds, g, s, k))
<1>1. IsFiniteSet(Blamed(ds, g, s, k))
  BY BlamedFinite
<1>2. QED
  BY <1>1, FS_Subset

(* There is an injection from as many numbers into a finite set. *)
LEMMA Enough ==
    ASSUME NEW B, IsFiniteSet(B), NEW n \in Nat, n <= Cardinality(B)
    PROVE  Injection(1..n, B) # {}
<1>1. Cardinality(B) \in Nat /\ Bijection(1..Cardinality(B), B) # {}
  BY FS_CardinalityType DEF ExistsBijection
<1>2. PICK f \in Bijection(1..Cardinality(B), B) : TRUE
  BY <1>1
<1>3. f \in [1..Cardinality(B) -> B] /\ IsInjective(f)
  BY <1>2 DEF Bijection, Injection
<1>4. 1..n \subseteq 1..Cardinality(B)
  BY <1>1
<1>5. [j \in 1..n |-> f[j]] \in [1..n -> B]
  BY <1>3, <1>4
<1>6. IsInjective([j \in 1..n |-> f[j]])
  BY <1>3, <1>4 DEF IsInjective
<1>7. QED
  BY <1>5, <1>6 DEF Injection

(* Who charges every count to a check counts no more than there are. *)
LEMMA LedgerCovers ==
    ASSUME TypeOK, NEW charge, Ledger(charge) PROVE NeverOvercounts
<1> SUFFICES ASSUME NEW s \in Services PROVE Counted(s) <= Cardinality(FailedChecks(s))
  BY DEF NeverOvercounts
<1> DEFINE S == ListByService(s)
           F == [k \in DOMAIN incidents |-> incidents[k].failed]
           U == Units(F, S)
           into(k) == CHOOSE f \in Injection(1..F[k], Blamed(checks, charge, s, k)) : TRUE
           m == [p \in U |-> into(p[1])[p[2]]]
<1>1. checks \in Seq(Checks) /\ incidents \in Seq(Incidents)
  BY DEF TypeOK
<1>2. IsFiniteSet(S) /\ IsFiniteSet(FailedChecks(s)) /\ S \subseteq DOMAIN incidents
  <2>1. DOMAIN checks = 1..Len(checks) /\ Len(checks) \in Nat
    BY <1>1
  <2>2. DOMAIN incidents = 1..Len(incidents) /\ Len(incidents) \in Nat
    BY <1>1
  <2>3. IsFiniteSet(DOMAIN checks) /\ IsFiniteSet(DOMAIN incidents)
    BY <2>1, <2>2, FS_Interval
  <2>4. S \in SUBSET DOMAIN incidents /\ FailedChecks(s) \in SUBSET DOMAIN checks
    BY DEF ListByService, FailedChecks
  <2>5. QED
    BY <2>3, <2>4, FS_Subset
<1>3. \A k \in S : F[k] \in Nat /\ incidents[k].service = s
  <2> TAKE k \in S
  <2>1. k \in DOMAIN incidents /\ incidents[k].service = s
    BY DEF ListByService
  <2>2. incidents[k] \in Incidents
    BY <1>1, <2>1
  <2>3. QED
    BY <2>1, <2>2 DEF Incidents
<1>4. Counted(s) = Cardinality(U)
  BY <1>2, <1>3, FoldIsCount DEF Counted
<1>5. ASSUME NEW k \in S
      PROVE  into(k) \in [1..F[k] -> Blamed(checks, charge, s, k)] /\ IsInjective(into(k))
  <2>1. F[k] <= Cardinality(Blamed(checks, charge, s, k))
    BY <1>2, <1>3 DEF Ledger
  <2>2. Injection(1..F[k], Blamed(checks, charge, s, k)) # {}
    BY <1>1, <1>3, <2>1, BlamedFinite, Enough
  <2>3. into(k) \in Injection(1..F[k], Blamed(checks, charge, s, k))
    BY <2>2
  <2>4. QED
    BY <2>3 DEF Injection
<1> HIDE DEF into, F, S
<1>6. \A p \in U : /\ p[1] \in S /\ p[2] \in 1..F[p[1]]
                   /\ p = <<p[1], p[2]>>
                   /\ into(p[1])[p[2]] \in Blamed(checks, charge, s, p[1])
  <2> TAKE p \in U
  <2>1. p \in S \X Nat /\ p[2] \in 1..F[p[1]]
    BY DEF Units
  <2>2. p[1] \in S /\ p = <<p[1], p[2]>>
    BY <2>1
  <2>3. into(p[1]) \in [1..F[p[1]] -> Blamed(checks, charge, s, p[1])]
    BY <1>5, <2>2
  <2>4. QED
    BY <2>1, <2>2, <2>3
<1> HIDE DEF U
<1>7. m \in [U -> FailedChecks(s)]
  BY <1>6 DEF Blamed, FailedChecks
<1>8. IsInjective(m)
  <2> SUFFICES ASSUME NEW p \in U, NEW q \in U, m[p] = m[q] PROVE p = q
    BY <1>7 DEF IsInjective
  <2>1. into(p[1])[p[2]] = into(q[1])[q[2]]
    OBVIOUS
  <2>2. p[1] = q[1]
    BY <1>6, <2>1 DEF Blamed
  <2>3. p[2] = q[2]
    BY <1>5, <1>6, <2>1, <2>2 DEF IsInjective
  <2>4. QED
    BY <1>6, <2>2, <2>3
<1> HIDE DEF m
<1>9. m \in Injection(U, FailedChecks(s))
  BY <1>7, <1>8 DEF Injection
<1>10. Cardinality(U) <= Cardinality(FailedChecks(s))
  BY <1>2, <1>9, FS_Injection
<1>11. QED
  BY <1>4, <1>10

-----------------------------------------------------------------------------
(* The books do not change, nor does any check that is being dealt with.   *)
LEMMA QuietBooks ==
    ASSUME BookInv, UNCHANGED <<checks, incidents>>,
           \A i \in DOMAIN tasks' : tasks'[i].at \in Working =>
               i \in DOMAIN tasks /\ tasks'[i] = tasks[i]
    PROVE  BookInv'
<1>1. RowsOK'
  BY DEF BookInv, RowsOK
<1>2. PICK charge : Ledger(charge)
  BY DEF BookInv
<1>3. \A i \in DOMAIN tasks' : tasks'[i].at = "update" =>
          i \in DOMAIN tasks /\ tasks'[i] = tasks[i]
  BY DEF Working
<1>4. Ledger(charge)'
  BY <1>2, <1>3 DEF Ledger
<1>5. QED
  BY <1>1, <1>4 DEF BookInv

(* One check moves. *)
LEMMA Moved ==
    ASSUME TypeOK, NEW i \in DOMAIN tasks, NEW t, Move(i, t)
    PROVE  /\ DOMAIN tasks' = DOMAIN tasks /\ tasks'[i] = t
           /\ \A j \in DOMAIN tasks : j # i => tasks'[j] = tasks[j]
BY DEF TypeOK, Move

LEMMA DoneMoves ==
    ASSUME TypeOK, NEW i \in DOMAIN tasks, Done(i)
    PROVE  /\ DOMAIN tasks' = DOMAIN tasks /\ tasks'[i].at = "done"
           /\ \A j \in DOMAIN tasks : j # i => tasks'[j] = tasks[j]
<1> DEFINE t == [NewTask(tasks[i].service) EXCEPT !.at = "done", !.time = Never]
<1>1. t.at = "done" /\ Move(i, t)
  BY DEF Done, NewTask
<1> HIDE DEF t
<1>2. QED
  BY <1>1, Moved

(* A new check has only begun, and no other begins with it for its service. *)
LEMMA SpawnBegins ==
    ASSUME TypeOK, NEW due \in SUBSET Services, Spawn(due)
    PROVE  LET old == DOMAIN tasks IN
           /\ \A i \in DOMAIN tasks' : i \in old => tasks'[i] = tasks[i]
           /\ \A i \in DOMAIN tasks' : i \notin old =>
                  tasks'[i].at = "check" /\ tasks'[i].time = clock
           /\ \A i, j \in DOMAIN tasks' :
                  i \notin old /\ j \notin old /\ tasks'[i].service = tasks'[j].service
                  => i = j
<1> DEFINE n == Cardinality(due)
<1>1. PICK new \in [1..n -> due] :
          /\ \A s \in due : \E k \in DOMAIN new : new[k] = s
          /\ tasks' = tasks \o [k \in DOMAIN new |-> NewTask(new[k])]
  BY DEF Spawn
<1> DEFINE started == [k \in 1..n |-> NewTask(new[k])]
<1>2. n \in Nat
  BY FS_Subset, FS_CardinalityType, MonitorAssumption
<1>3. tasks' = tasks \o started
  BY <1>1
<1>4. \A k \in 1..n : /\ started[k].at = "check" /\ started[k].time = clock
                      /\ started[k].service = new[k] /\ started[k] \in Tasks
  <2> TAKE k \in 1..n
  <2>1. new[k] \in Services
    BY <1>1
  <2>2. /\ NewTask(new[k]) \in Tasks /\ NewTask(new[k]).at = "check"
        /\ NewTask(new[k]).time = clock /\ NewTask(new[k]).service = new[k]
    BY <2>1, FreshTask DEF TypeOK, NewTask
  <2>3. QED
    BY <2>2
<1>5. \A k, l \in 1..n : new[k] = new[l] => k = l
  <2>1. IsFiniteSet(1..n) /\ Cardinality(1..n) = n
    BY <1>2, FS_Interval
  <2>2. new \in Surjection(1..n, due)
    BY <1>1 DEF Surjection
  <2>3. new \in Injection(1..n, due)
    BY <2>1, <2>2, FS_SurjSameCardinalityImpliesInj
  <2>4. QED
    BY <2>3 DEF Injection, IsInjective
<1> HIDE DEF n
<1>6. started \in Seq(Tasks) /\ Len(started) = n
  BY <1>2, <1>4
<1> HIDE DEF started
<1>7. tasks \in Seq(Tasks)
  BY DEF TypeOK
<1>8. /\ DOMAIN tasks' = 1..Len(tasks) + n /\ DOMAIN tasks = 1..Len(tasks)
      /\ \A i \in 1..Len(tasks) : tasks'[i] = tasks[i]
      /\ \A i \in Len(tasks) + 1 .. Len(tasks) + n : tasks'[i] = started[i - Len(tasks)]
  <2>1. Len(tasks) \in Nat /\ DOMAIN tasks = 1..Len(tasks)
    BY <1>7
  <2>2. DOMAIN tasks' = 1..Len(tasks) + n
    <3>1. tasks' \in Seq(Tasks) /\ Len(tasks') = Len(tasks) + n
      BY <1>3, <1>6, <1>7, SeqConcat
    <3>2. DOMAIN tasks' = 1..Len(tasks')
      BY <3>1
    <3>3. QED
      BY <3>1, <3>2
  <2>3. \A i \in 1..Len(tasks) : tasks'[i] = tasks[i]
    BY <1>2, <1>3, <1>6, <1>7
  <2>4. \A i \in Len(tasks) + 1 .. Len(tasks) + n :
            tasks'[i] = started[i - Len(tasks)]
    BY <1>2, <1>3, <1>6, <1>7
  <2>5. QED
    BY <2>1, <2>2, <2>3, <2>4
<1>9. \A i \in DOMAIN tasks' : i \notin DOMAIN tasks =>
          i - Len(tasks) \in 1..n /\ tasks'[i] = started[i - Len(tasks)]
  BY <1>2, <1>7, <1>8
<1>10. ASSUME NEW i \in DOMAIN tasks', NEW j \in DOMAIN tasks',
              i \notin DOMAIN tasks, j \notin DOMAIN tasks,
              tasks'[i].service = tasks'[j].service
       PROVE  i = j
  <2>1. i - Len(tasks) = j - Len(tasks)
    BY <1>4, <1>5, <1>9, <1>10
  <2>2. QED
    BY <1>2, <1>7, <1>8, <2>1
<1>11. QED
  BY <1>4, <1>8, <1>9, <1>10

(* A row is added that is not yet processed. *)
LEMMA AppendBooks ==
    ASSUME TypeOK, NEW charge, Ledger(charge), NEW c \in Checks, ~c.processed,
           checks' = Append(checks, c), UNCHANGED incidents,
           \A i \in DOMAIN tasks' : tasks'[i].at = "update" =>
               i \in DOMAIN tasks /\ tasks'[i] = tasks[i]
    PROVE  \E g : Ledger(g)'
<1>1. /\ DOMAIN checks' = 1..Len(checks) + 1 /\ DOMAIN checks = 1..Len(checks)
      /\ Len(checks) \in Nat
      /\ \A x \in DOMAIN checks : checks'[x] = checks[x] /\ x \in DOMAIN checks'
      /\ checks'[Len(checks) + 1] = c
  BY SeqAppend DEF TypeOK
<1>2. charge \in [DOMAIN checks -> Nat]
  BY DEF Ledger
<1>3. PICK g \in [DOMAIN checks' -> Nat] : \A x \in DOMAIN checks : g[x] = charge[x]
  <2> DEFINE h == [x \in DOMAIN checks' |-> IF x \in DOMAIN checks THEN charge[x] ELSE 0]
  <2>1. h \in [DOMAIN checks' -> Nat] /\ \A x \in DOMAIN checks : h[x] = charge[x]
    BY <1>1, <1>2
  <2>2. QED
    BY <2>1
<1>4. \A x \in DOMAIN checks : g[x] = charge[x]
  BY <1>3
<1>5. \A x \in DOMAIN checks' : x \in DOMAIN checks \/ ~checks'[x].processed
  BY <1>1
<1>6. \A s, k : Blamed(checks', g, s, k) = Blamed(checks, charge, s, k)
  BY <1>1, <1>4, <1>5 DEF Blamed
<1>7. Ledger(g)'
  <2>1. \A k \in DOMAIN incidents' :
            incidents'[k].failed <= Cardinality(Blamed(checks', g, incidents'[k].service, k))
    BY <1>6 DEF Ledger
  <2>2. \A i \in DOMAIN tasks' : tasks'[i].at = "update" =>
            tasks'[i].failed <= Ahead(tasks'[i]) +
                Cardinality(Blamed(checks', g, tasks'[i].service, tasks'[i].id))
    BY <1>6 DEF Ledger
  <2>3. QED
    BY <1>3, <2>1, <2>2 DEF Ledger
<1>8. QED
  BY <1>7

LEMMA SaveBooks ==
    ASSUME TypeOK, BookInv, NEW i \in DOMAIN tasks, Save(i) PROVE BookInv'
<1> DEFINE n == Len(checks) + 1
           t == [tasks[i] EXCEPT !.at = "detect", !.row = n]
           c == Row(tasks[i])
<1>1. tasks[i] \in Tasks /\ checks \in Seq(Checks) /\ tasks[i].at = "save"
  BY DEF TypeOK, Save
<1>2. /\ c \in Checks /\ ~c.processed
      /\ c.service = tasks[i].service /\ c.status = tasks[i].status
  BY <1>1 DEF Row, Checks, Tasks
<1>3. checks' = Append(checks, c) /\ UNCHANGED incidents /\ Move(i, t)
  BY DEF Save, Continue
<1>4. /\ t.at = "detect" /\ t.row = n /\ t.service = tasks[i].service
      /\ t.status = tasks[i].status
  BY <1>1 DEF Tasks
<1> HIDE DEF t, c
<1>5. /\ DOMAIN tasks' = DOMAIN tasks /\ tasks'[i] = t
      /\ \A j \in DOMAIN tasks : j # i => tasks'[j] = tasks[j]
  BY <1>3, Moved
<1>6. /\ DOMAIN checks' = 1..n /\ DOMAIN checks = 1..(n - 1) /\ n \in Nat \ {0}
      /\ \A x \in DOMAIN checks : checks'[x] = checks[x] /\ x # n
      /\ checks'[n] = c
  BY <1>1, <1>2, <1>3, SeqAppend
<1> HIDE DEF n
<1>7. RowsOK'
  <2>1. ASSUME NEW j \in DOMAIN tasks', tasks'[j].at \in Working
        PROVE  /\ tasks'[j].row \in DOMAIN checks'
               /\ ~checks'[tasks'[j].row].processed
               /\ checks'[tasks'[j].row].service = tasks'[j].service
               /\ checks'[tasks'[j].row].status = tasks'[j].status
               /\ tasks'[j].at = "create" => tasks'[j].status = "unhealthy"
               /\ tasks'[j].at = "update" =>
                      /\ tasks'[j].id \in DOMAIN incidents'
                      /\ incidents'[tasks'[j].id].service = tasks'[j].service
               /\ j # i => tasks'[j].row # n
    <3>1. CASE j = i
      <4>1. n \in DOMAIN checks'
        BY <1>6
      <4>2. QED
        BY <1>2, <1>4, <1>5, <1>6, <3>1, <4>1
    <3>2. CASE j # i
      <4>1. j \in DOMAIN tasks /\ tasks'[j] = tasks[j]
        BY <1>5, <3>2
      <4>2. tasks[j].row \in DOMAIN checks
        BY <2>1, <4>1 DEF BookInv, RowsOK
      <4>3. tasks[j].row \in DOMAIN checks' /\ checks'[tasks[j].row] = checks[tasks[j].row]
        BY <1>6, <4>2
      <4>4. QED
        BY <1>3, <1>6, <2>1, <4>1, <4>2, <4>3 DEF BookInv, RowsOK
    <3>3. QED
      BY <3>1, <3>2
  <2>2. ASSUME NEW j \in DOMAIN tasks', NEW k \in DOMAIN tasks',
               tasks'[j].at \in Working, tasks'[k].at \in Working,
               tasks'[j].row = tasks'[k].row
        PROVE  j = k
    <3>1. CASE j = i \/ k = i
      BY <1>4, <1>5, <2>1, <2>2, <3>1
    <3>2. CASE j # i /\ k # i
      BY <1>5, <2>2, <3>2 DEF BookInv, RowsOK
    <3>3. QED
      BY <3>1, <3>2
  <2>3. QED
    BY <2>1, <2>2 DEF RowsOK
<1>8. \A j \in DOMAIN tasks' : tasks'[j].at = "update" =>
          j \in DOMAIN tasks /\ tasks'[j] = tasks[j]
  BY <1>4, <1>5
<1>9. PICK charge : Ledger(charge)
  BY DEF BookInv
<1>10. \E g : Ledger(g)'
  BY <1>2, <1>3, <1>8, <1>9, AppendBooks
<1>11. QED
  BY <1>7, <1>10 DEF BookInv

LEMMA TriggerBooks == ASSUME TypeOK, BookInv, TriggerCheck PROVE BookInv'
<1>1. UNCHANGED <<incidents, tasks>>
  BY DEF TriggerCheck
<1>2. CASE UNCHANGED checks
  BY <1>1, <1>2, QuietBooks
<1>3. CASE checks' = Append(checks, Row(client))
  <2> DEFINE c == Row(client)
  <2>1. c \in Checks /\ ~c.processed
    BY DEF Row, Checks, Requests, TypeOK
  <2>2. PICK charge : Ledger(charge)
    BY DEF BookInv
  <2> HIDE DEF c
  <2>3. checks' = Append(checks, c)
    BY <1>3 DEF c
  <2>4. \E g : Ledger(g)'
    BY <1>1, <2>1, <2>2, <2>3, AppendBooks
  <2>5. \A x \in DOMAIN checks : x \in DOMAIN checks' /\ checks'[x] = checks[x]
    BY <2>1, <2>3, SeqAppend DEF TypeOK
  <2>6. RowsOK'
    BY <1>1, <2>5 DEF BookInv, RowsOK
  <2>7. QED
    BY <2>4, <2>6 DEF BookInv
<1>4. QED
  BY <1>2, <1>3 DEF TriggerCheck

-----------------------------------------------------------------------------
(* The check of a task is processed: nothing else of the rows changes, ... *)
LEMMA RowProcessed ==
    ASSUME TypeOK, RowsOK, NEW i \in DOMAIN tasks, tasks[i].at \in Working, Processed(i)
    PROVE  LET r == tasks[i].row
           IN  /\ r \in DOMAIN checks /\ DOMAIN checks' = DOMAIN checks
               /\ checks'[r].service = checks[r].service
               /\ checks'[r].status = checks[r].status
               /\ checks'[r].time = checks[r].time
               /\ checks'[r].processed
               /\ \A x \in DOMAIN checks : x # r => checks'[x] = checks[x]
               /\ checks' \in Seq(Checks)
<1> DEFINE r == tasks[i].row
           c == [checks[r] EXCEPT !.processed = TRUE]
<1>1. r \in DOMAIN checks /\ checks \in Seq(Checks)
  BY DEF RowsOK, TypeOK
<1>2. checks[r] \in Checks
  BY <1>1
<1>3. /\ c \in Checks /\ c.processed /\ c.service = checks[r].service
      /\ c.status = checks[r].status /\ c.time = checks[r].time
  BY <1>2 DEF Checks
<1>4. checks' = [checks EXCEPT ![r] = c]
  BY DEF Processed
<1> HIDE DEF c, r
<1>5. /\ DOMAIN checks' = DOMAIN checks /\ checks'[r] = c
      /\ \A x \in DOMAIN checks : x # r => checks'[x] = checks[x]
      /\ checks' \in Seq(Checks)
  BY <1>1, <1>3, <1>4, SeqExcept
<1>6. QED
  BY <1>1, <1>3, <1>5 DEF r

(* ... and the check can be charged to any incident. *)
LEMMA Charged ==
    ASSUME TypeOK, RowsOK, NEW i \in DOMAIN tasks, tasks[i].at \in Working, Processed(i),
           NEW charge \in [DOMAIN checks -> Nat], NEW k \in Nat
    PROVE  \E g \in [DOMAIN checks' -> Nat] :
               /\ g[tasks[i].row] = k
               /\ \A x \in DOMAIN checks : x # tasks[i].row => g[x] = charge[x]
               /\ \A s, j : Cardinality(Blamed(checks', g, s, j)) =
                      Cardinality(Blamed(checks, charge, s, j)) +
                          (IF s = tasks[i].service /\ j = k THEN Ahead(tasks[i]) ELSE 0)
<1> DEFINE r == tasks[i].row
           g == [charge EXCEPT ![r] = k]
<1>1. /\ r \in DOMAIN checks /\ DOMAIN checks' = DOMAIN checks
      /\ checks'[r].service = checks[r].service
      /\ checks'[r].status = checks[r].status
      /\ checks'[r].processed
      /\ \A x \in DOMAIN checks : x # r => checks'[x] = checks[x]
      /\ checks' \in Seq(Checks)
  BY RowProcessed
<1>2. /\ ~checks[r].processed /\ checks[r].service = tasks[i].service
      /\ checks[r].status = tasks[i].status
  BY DEF RowsOK
<1>3. /\ g \in [DOMAIN checks' -> Nat] /\ g[r] = k
      /\ \A x \in DOMAIN checks : x # r => g[x] = charge[x]
  BY <1>1
<1> HIDE DEF g, r
<1>4. ASSUME NEW s, NEW j
      PROVE  Cardinality(Blamed(checks', g, s, j)) =
                 Cardinality(Blamed(checks, charge, s, j)) +
                     (IF s = tasks[i].service /\ j = k THEN Ahead(tasks[i]) ELSE 0)
  <2> DEFINE A == Blamed(checks, charge, s, j)
             B == Blamed(checks', g, s, j)
  <2>1. IsFiniteSet(A) /\ Cardinality(A) \in Nat
    BY BlamedFinite DEF TypeOK
  <2>2. r \notin A
    BY <1>2 DEF Blamed
  <2>3. CASE s = tasks[i].service /\ j = k /\ tasks[i].status = "unhealthy"
    <3>1. B = A \union {r}
      BY <1>1, <1>2, <1>3, <2>3 DEF Blamed
    <3> HIDE DEF A, B
    <3>2. Cardinality(B) = Cardinality(A) + 1
      BY <2>1, <2>2, <3>1, FS_AddElement
    <3>3. QED
      BY <2>3, <3>2 DEF Ahead, A, B
  <2>4. CASE ~(s = tasks[i].service /\ j = k /\ tasks[i].status = "unhealthy")
    <3>1. B = A
      BY <1>1, <1>2, <1>3, <2>4 DEF Blamed
    <3>2. QED
      BY <2>1, <2>4, <3>1 DEF Ahead
  <2>5. QED
    BY <2>3, <2>4
<1>5. QED
  BY <1>3, <1>4 DEF r

(* A check is over, its row processed and charged to incident k.           *)
LEMMA DoneRows ==
    ASSUME TypeOK, RowsOK, NEW i \in DOMAIN tasks, tasks[i].at \in Working,
           Done(i), Processed(i),
           \A k \in DOMAIN incidents : k \in DOMAIN incidents' /\
               incidents'[k].service = incidents[k].service
    PROVE  RowsOK'
<1>1. /\ DOMAIN tasks' = DOMAIN tasks /\ tasks'[i].at = "done"
      /\ \A j \in DOMAIN tasks : j # i => tasks'[j] = tasks[j]
  BY DoneMoves
<1>2. \A j \in DOMAIN tasks' : tasks'[j].at \in Working =>
          j # i /\ j \in DOMAIN tasks /\ tasks'[j] = tasks[j]
  BY <1>1 DEF Working
<1>3. /\ DOMAIN checks' = DOMAIN checks
      /\ \A x \in DOMAIN checks : x # tasks[i].row => checks'[x] = checks[x]
  BY RowProcessed
<1>4. QED
  BY <1>2, <1>3 DEF RowsOK

LEMMA HealthyBooks ==
    ASSUME TypeOK, BookInv, NEW i \in DOMAIN tasks, tasks[i].at \in Working,
           tasks[i].status # "unhealthy",
           Done(i), Processed(i), UNCHANGED incidents
    PROVE  BookInv'
<1>1. RowsOK'
  BY DoneRows DEF BookInv
<1>2. PICK charge : Ledger(charge)
  BY DEF BookInv
<1>3. PICK g \in [DOMAIN checks' -> Nat] : \A s, j :
          Cardinality(Blamed(checks', g, s, j)) =
              Cardinality(Blamed(checks, charge, s, j)) +
                  (IF s = tasks[i].service /\ j = 0 THEN Ahead(tasks[i]) ELSE 0)
  <2>1. RowsOK /\ charge \in [DOMAIN checks -> Nat] /\ 0 \in Nat
    BY <1>2 DEF BookInv, Ledger
  <2>2. QED
    BY <2>1, Charged
<1>4. \A s, j : Cardinality(Blamed(checks', g, s, j)) = Cardinality(Blamed(checks, charge, s, j))
  <2> TAKE s, j
  <2>1. Cardinality(Blamed(checks, charge, s, j)) \in Nat
    BY BlamedFinite DEF TypeOK
  <2>2. QED
    BY <1>3, <2>1 DEF Ahead
<1>5. \A j \in DOMAIN tasks' : tasks'[j].at = "update" =>
          j \in DOMAIN tasks /\ tasks'[j] = tasks[j]
  BY DoneMoves
<1>6. Ledger(g)'
  <2>1. \A k \in DOMAIN incidents' :
            incidents'[k].failed <= Cardinality(Blamed(checks', g, incidents'[k].service, k))
    BY <1>2, <1>4 DEF Ledger
  <2>2. \A j \in DOMAIN tasks' : tasks'[j].at = "update" =>
            tasks'[j].failed <= Ahead(tasks'[j]) +
                Cardinality(Blamed(checks', g, tasks'[j].service, tasks'[j].id))
    BY <1>2, <1>4, <1>5 DEF Ledger
  <2>3. QED
    BY <1>3, <2>1, <2>2 DEF Ledger
<1>7. QED
  BY <1>1, <1>6 DEF BookInv

(* The check that makes an incident is charged to it. *)
LEMMA CreateBooks ==
    ASSUME TypeOK, BookInv, NEW i \in DOMAIN tasks, Create(i) PROVE BookInv'
<1> DEFINE n == Len(incidents) + 1
           e == [service |-> tasks[i].service, started |-> tasks[i].time,
                 recovered |-> FALSE, failed |-> 1]
<1>1. /\ tasks[i] \in Tasks /\ incidents \in Seq(Incidents) /\ tasks[i].at = "create"
      /\ tasks[i].at \in Working /\ tasks[i].status = "unhealthy"
  BY DEF TypeOK, Create, Working, BookInv, RowsOK
<1>2. /\ Done(i) /\ Processed(i) /\ incidents' = Append(incidents, e)
      /\ e \in Incidents /\ e.failed = 1 /\ e.service = tasks[i].service
  BY <1>1 DEF Create, Incidents, Tasks
<1> HIDE DEF e
<1>3. /\ DOMAIN incidents' = 1..n /\ DOMAIN incidents = 1..(n - 1) /\ n \in Nat
      /\ \A k \in DOMAIN incidents : incidents'[k] = incidents[k] /\ k # n
      /\ incidents'[n] = e
  BY <1>1, <1>2, SeqAppend
<1> HIDE DEF n
<1>4. RowsOK'
  <2>1. \A k \in DOMAIN incidents : k \in DOMAIN incidents' /\
            incidents'[k].service = incidents[k].service
    BY <1>3
  <2>2. QED
    BY <1>1, <1>2, <2>1, DoneRows DEF BookInv
<1>5. PICK charge : Ledger(charge)
  BY DEF BookInv
<1>6. PICK g \in [DOMAIN checks' -> Nat] : \A s, j :
          Cardinality(Blamed(checks', g, s, j)) =
              Cardinality(Blamed(checks, charge, s, j)) +
                  (IF s = tasks[i].service /\ j = n THEN Ahead(tasks[i]) ELSE 0)
  <2>1. /\ RowsOK /\ charge \in [DOMAIN checks -> Nat]
        /\ tasks[i].at \in Working /\ Processed(i) /\ n \in Nat
    BY <1>1, <1>2, <1>3, <1>5 DEF BookInv, Ledger
  <2>2. \E g \in [DOMAIN checks' -> Nat] :
            /\ g[tasks[i].row] = n
            /\ \A x \in DOMAIN checks : x # tasks[i].row => g[x] = charge[x]
            /\ \A s, j : Cardinality(Blamed(checks', g, s, j)) =
                   Cardinality(Blamed(checks, charge, s, j)) +
                       (IF s = tasks[i].service /\ j = n THEN Ahead(tasks[i]) ELSE 0)
    BY <2>1, Charged
  <2>3. QED
    BY <2>2
<1>7. \A s, j : /\ Cardinality(Blamed(checks, charge, s, j)) \in Nat
                /\ j # n => Cardinality(Blamed(checks', g, s, j)) =
                                Cardinality(Blamed(checks, charge, s, j))
  <2> TAKE s, j
  <2>1. Cardinality(Blamed(checks, charge, s, j)) \in Nat
    BY BlamedFinite DEF TypeOK
  <2>2. QED
    BY <1>6, <2>1
<1>8. \A j \in DOMAIN tasks' : tasks'[j].at = "update" =>
          j \in DOMAIN tasks /\ tasks'[j] = tasks[j]
  BY <1>2, DoneMoves
<1>9. Ledger(g)'
  <2>1. ASSUME NEW k \in DOMAIN incidents'
        PROVE  incidents'[k].failed <= Cardinality(Blamed(checks', g, incidents'[k].service, k))
    <3>1. CASE k = n
      BY <1>1, <1>2, <1>3, <1>6, <1>7, <3>1 DEF Ahead
    <3>2. CASE k # n
      <4>1. k \in DOMAIN incidents
        BY <1>3, <3>2
      <4>2. QED
        BY <1>3, <1>5, <1>7, <3>2, <4>1 DEF Ledger
    <3>3. QED
      BY <3>1, <3>2
  <2>2. ASSUME NEW j \in DOMAIN tasks', tasks'[j].at = "update"
        PROVE  tasks'[j].failed <= Ahead(tasks'[j]) +
                   Cardinality(Blamed(checks', g, tasks'[j].service, tasks'[j].id))
    <3>1. j \in DOMAIN tasks /\ tasks'[j] = tasks[j]
      BY <1>8, <2>2
    <3>2. tasks[j].id \in DOMAIN incidents
      BY <2>2, <3>1 DEF BookInv, RowsOK, Working
    <3>3. tasks[j].id # n
      BY <1>3, <3>2
    <3>4. QED
      BY <1>5, <1>7, <2>2, <3>1, <3>3 DEF Ledger
  <2>3. QED
    BY <1>6, <2>1, <2>2 DEF Ledger
<1>10. QED
  BY <1>4, <1>9 DEF BookInv

(* A check that writes its copy back is charged to the incident it is of.  *)
LEMMA UpdateBooks ==
    ASSUME TypeOK, BookInv, NEW i \in DOMAIN tasks, Update(i) PROVE BookInv'
<1> DEFINE n == tasks[i].id
           e == [incidents[n] EXCEPT !.recovered = tasks[i].recovered,
                                     !.failed = tasks[i].failed]
<1>1. /\ tasks[i] \in Tasks /\ incidents \in Seq(Incidents) /\ tasks[i].at = "update"
      /\ tasks[i].at \in Working
      /\ n \in DOMAIN incidents /\ incidents[n].service = tasks[i].service
  BY DEF TypeOK, Update, Working, BookInv, RowsOK
<1>2. incidents[n] \in Incidents /\ n \in Nat
  BY <1>1
<1>3. e.failed = tasks[i].failed /\ e.service = tasks[i].service
  BY <1>1, <1>2 DEF Incidents
<1>4. Done(i) /\ Processed(i) /\ incidents' = [incidents EXCEPT ![n] = e]
  BY DEF Update
<1> HIDE DEF e
<1>5. /\ DOMAIN incidents' = DOMAIN incidents
      /\ \A k \in DOMAIN incidents : k # n => incidents'[k] = incidents[k]
      /\ incidents'[n] = e
  BY <1>1, <1>4
<1>6. RowsOK'
  <2>1. \A k \in DOMAIN incidents : k \in DOMAIN incidents' /\
            incidents'[k].service = incidents[k].service
    BY <1>1, <1>3, <1>5
  <2>2. QED
    BY <1>1, <1>4, <2>1, DoneRows DEF BookInv
<1>7. PICK charge : Ledger(charge)
  BY DEF BookInv
<1>8. PICK g \in [DOMAIN checks' -> Nat] : \A s, j :
          Cardinality(Blamed(checks', g, s, j)) =
              Cardinality(Blamed(checks, charge, s, j)) +
                  (IF s = tasks[i].service /\ j = n THEN Ahead(tasks[i]) ELSE 0)
  <2> HIDE DEF n
  <2>1. /\ RowsOK /\ charge \in [DOMAIN checks -> Nat]
        /\ tasks[i].at \in Working /\ Processed(i) /\ n \in Nat
    BY <1>1, <1>2, <1>4, <1>7 DEF BookInv, Ledger
  <2>2. \E g \in [DOMAIN checks' -> Nat] :
            /\ g[tasks[i].row] = n
            /\ \A x \in DOMAIN checks : x # tasks[i].row => g[x] = charge[x]
            /\ \A s, j : Cardinality(Blamed(checks', g, s, j)) =
                   Cardinality(Blamed(checks, charge, s, j)) +
                       (IF s = tasks[i].service /\ j = n THEN Ahead(tasks[i]) ELSE 0)
    BY <2>1, Charged
  <2>3. QED
    BY <2>2
<1>9. \A s, j : /\ Cardinality(Blamed(checks, charge, s, j)) \in Nat
                /\ Cardinality(Blamed(checks, charge, s, j)) <=
                       Cardinality(Blamed(checks', g, s, j))
  <2> TAKE s, j
  <2>1. Cardinality(Blamed(checks, charge, s, j)) \in Nat
    BY BlamedFinite DEF TypeOK
  <2>2. QED
    BY <1>8, <2>1 DEF Ahead
<1>10. \A j \in DOMAIN tasks' : tasks'[j].at = "update" =>
          j \in DOMAIN tasks /\ tasks'[j] = tasks[j]
  BY <1>4, DoneMoves
<1>11. Cardinality(Blamed(checks', g, tasks[i].service, n)) =
           Cardinality(Blamed(checks, charge, tasks[i].service, n)) + Ahead(tasks[i])
  BY <1>8
<1>12. Ledger(g)'
  <2>1. ASSUME NEW k \in DOMAIN incidents'
        PROVE  incidents'[k].failed <= Cardinality(Blamed(checks', g, incidents'[k].service, k))
    <3>1. CASE k = n
      <4>1. tasks[i].failed <= Ahead(tasks[i]) + Cardinality(Blamed(checks, charge, tasks[i].service, n))
        BY <1>1, <1>7 DEF Ledger
      <4>2. QED
        BY <1>3, <1>5, <1>9, <1>11, <3>1, <4>1 DEF Ahead
    <3>2. CASE k # n
      <4>1. incidents'[k] = incidents[k] /\ k \in DOMAIN incidents
        BY <1>5, <3>2
      <4>2. incidents[k].failed <= Cardinality(Blamed(checks, charge, incidents[k].service, k))
        BY <1>7, <4>1 DEF Ledger
      <4>3. incidents[k].failed \in Nat
        <5>1. incidents[k] \in Incidents
          BY <1>1, <4>1
        <5>2. QED
          BY <5>1 DEF Incidents
      <4>4. Cardinality(Blamed(checks', g, incidents[k].service, k)) \in Nat
        BY <1>8, <1>9 DEF Ahead
      <4>5. QED
        BY <1>9, <4>1, <4>2, <4>3, <4>4
    <3>3. QED
      BY <3>1, <3>2
  <2>2. ASSUME NEW j \in DOMAIN tasks', tasks'[j].at = "update"
        PROVE  tasks'[j].failed <= Ahead(tasks'[j]) +
                   Cardinality(Blamed(checks', g, tasks'[j].service, tasks'[j].id))
    <3>1. j \in DOMAIN tasks /\ tasks'[j] = tasks[j]
      BY <1>10, <2>2
    <3>2. tasks[j] \in Tasks
      BY <3>1 DEF TypeOK
    <3>3. tasks[j].failed \in Nat
      BY <3>2 DEF Tasks
    <3> DEFINE a == Cardinality(Blamed(checks, charge, tasks[j].service, tasks[j].id))
               b == Cardinality(Blamed(checks', g, tasks[j].service, tasks[j].id))
    <3>4. a \in Nat /\ b \in Nat /\ a <= b
      BY <1>8, <1>9 DEF Ahead
    <3>5. tasks[j].failed <= Ahead(tasks[j]) + a
      BY <1>7, <2>2, <3>1 DEF Ledger
    <3> HIDE DEF a, b
    <3>6. tasks[j].failed <= Ahead(tasks[j]) + b
      BY <3>3, <3>4, <3>5 DEF Ahead
    <3>7. QED
      BY <3>1, <3>6 DEF b
  <2>3. QED
    BY <1>8, <2>1, <2>2 DEF Ledger
<1>13. QED
  BY <1>6, <1>12 DEF BookInv

(* A check that begins to deal with its row takes a copy, or makes ready   *)
(* to make an incident.                                                    *)
LEMMA CopyBooks ==
    ASSUME TypeOK, BookInv, NEW i \in DOMAIN tasks, tasks[i].at = "detect",
           NEW t, Move(i, t), UNCHANGED <<checks, incidents>>,
           t.at \in {"create", "update"}, t.row = tasks[i].row,
           t.service = tasks[i].service, t.status = tasks[i].status,
           t.at = "create" => t.status = "unhealthy",
           t.at = "update" =>
               /\ t.id \in DOMAIN incidents
               /\ incidents[t.id].service = t.service
               /\ t.failed = incidents[t.id].failed + Ahead(t)
    PROVE  BookInv'
<1>1. /\ DOMAIN tasks' = DOMAIN tasks /\ tasks'[i] = t
      /\ \A j \in DOMAIN tasks : j # i => tasks'[j] = tasks[j]
  BY Moved
<1>2. tasks[i].at \in Working
  BY DEF Working
<1>3. RowsOK'
  BY <1>1, <1>2 DEF BookInv, RowsOK
<1>4. PICK charge : Ledger(charge)
  BY DEF BookInv
<1>5. ASSUME NEW j \in DOMAIN tasks', tasks'[j].at = "update"
      PROVE  tasks'[j].failed <= Ahead(tasks'[j]) +
                 Cardinality(Blamed(checks', charge, tasks'[j].service, tasks'[j].id))
  <2>1. CASE j = i
    <3> DEFINE b == Cardinality(Blamed(checks, charge, t.service, t.id))
    <3>1. t.at = "update" /\ t.id \in DOMAIN incidents /\ incidents[t.id].service = t.service
      BY <1>1, <1>5, <2>1
    <3>2. incidents[t.id] \in Incidents
      BY <3>1 DEF TypeOK
    <3>3. incidents[t.id].failed \in Nat
      BY <3>2 DEF Incidents
    <3>4. b \in Nat
      BY BlamedFinite DEF TypeOK
    <3>5. incidents[t.id].failed <= b
      BY <1>4, <3>1 DEF Ledger
    <3> HIDE DEF b
    <3>6. t.failed <= Ahead(t) + b
      BY <3>1, <3>3, <3>4, <3>5 DEF Ahead
    <3>7. QED
      BY <1>1, <2>1, <3>6 DEF b
  <2>2. CASE j # i
    BY <1>1, <1>4, <1>5, <2>2 DEF Ledger
  <2>3. QED
    BY <2>1, <2>2
<1>6. Ledger(charge)'
  BY <1>4, <1>5 DEF Ledger
<1>7. QED
  BY <1>3, <1>6 DEF BookInv

LEMMA DetectBooks ==
    ASSUME TypeOK, BookInv, NEW i \in DOMAIN tasks, Detect(i) PROVE BookInv'
<1> DEFINE s == tasks[i].service
<1>1. /\ tasks[i] \in Tasks /\ tasks[i].at = "detect" /\ tasks[i].at \in Working
      /\ UNCHANGED incidents
  BY DEF TypeOK, Detect, Working
<1>2. ASSUME NEW k \in GetActive(s)
      PROVE  /\ k \in DOMAIN incidents /\ incidents[k].service = s
             /\ incidents[k].failed \in Nat
  <2>1. k \in DOMAIN incidents /\ incidents[k].service = s
    BY DEF GetActive, Active
  <2>2. incidents[k] \in Incidents
    BY <2>1 DEF TypeOK
  <2>3. QED
    BY <2>1, <2>2 DEF Incidents
<1>3. CASE /\ tasks[i].status = "unhealthy"
           /\ Continue(i, [tasks[i] EXCEPT !.at = "create"])
           /\ UNCHANGED checks
  <2> DEFINE t == [tasks[i] EXCEPT !.at = "create"]
  <2>1. /\ t.at = "create" /\ t.row = tasks[i].row /\ t.service = tasks[i].service
        /\ t.status = tasks[i].status
    BY <1>1 DEF Tasks
  <2>2. Move(i, t)
    BY <1>3 DEF Continue
  <2> HIDE DEF t
  <2>3. QED
    BY <1>1, <1>3, <2>1, <2>2, CopyBooks
<1>4. ASSUME NEW k \in GetActive(s), tasks[i].status = "unhealthy",
             Continue(i, [Copy(i, k) EXCEPT !.failed = @ + 1]), UNCHANGED checks
      PROVE  BookInv'
  <2> DEFINE t == [Copy(i, k) EXCEPT !.failed = @ + 1]
  <2>1. /\ t.at = "update" /\ t.row = tasks[i].row /\ t.service = tasks[i].service
        /\ t.status = tasks[i].status /\ t.id = k
        /\ t.failed = incidents[k].failed + 1
    BY <1>1 DEF Tasks, Copy
  <2>2. Move(i, t)
    BY <1>4 DEF Continue
  <2> HIDE DEF t
  <2>3. QED
    BY <1>1, <1>2, <1>4, <2>1, <2>2, CopyBooks DEF Ahead
<1>5. ASSUME NEW k \in GetActive(s), tasks[i].status # "unhealthy",
             Continue(i, [Copy(i, k) EXCEPT !.recovered = TRUE]), UNCHANGED checks
      PROVE  BookInv'
  <2> DEFINE t == [Copy(i, k) EXCEPT !.recovered = TRUE]
  <2>1. /\ t.at = "update" /\ t.row = tasks[i].row /\ t.service = tasks[i].service
        /\ t.status = tasks[i].status /\ t.id = k
        /\ t.failed = incidents[k].failed
    BY <1>1 DEF Tasks, Copy
  <2>2. Move(i, t)
    BY <1>5 DEF Continue
  <2> HIDE DEF t
  <2>3. QED
    BY <1>1, <1>2, <1>5, <2>1, <2>2, CopyBooks DEF Ahead
<1>6. CASE tasks[i].status # "unhealthy" /\ Done(i) /\ Processed(i)
  BY <1>1, <1>6, HealthyBooks
<1>7. QED
  BY <1>3, <1>4, <1>5, <1>6 DEF Detect

LEMMA BookStep == ASSUME TypeOK, BookInv, [Next]_vars PROVE BookInv'
<1>1. CASE UNCHANGED vars
  BY <1>1, QuietBooks DEF vars, tables
<1>2. CASE Restart
  BY <1>2, QuietBooks DEF Restart, NewProcess, tables
<1>3. CASE StartRun \/ Stop \/ StopReturn \/ Tick
  BY <1>3, QuietBooks DEF StartRun, Stop, StopReturn, Tick, tables
<1>4. ASSUME NEW i \in DOMAIN loops, LoopStop(i) \/ ListFails(i) PROVE BookInv'
  BY <1>4, QuietBooks DEF LoopStop, ListFails, tables
<1>5. ASSUME NEW i \in DOMAIN loops, CheckServices(i) PROVE BookInv'
  <2>1. Due(i) \in SUBSET Services
    BY DEF Due, TypeOK
  <2>2. Spawn(Due(i)) /\ UNCHANGED <<checks, incidents>>
    BY <1>5 DEF CheckServices, tables
  <2>3. QED
    BY <2>1, <2>2, SpawnBegins, QuietBooks DEF Working
<1>6. ASSUME NEW i \in DOMAIN tasks, Check(i) PROVE BookInv'
  <2>1. PICK status \in Statuses :
            Move(i, [tasks[i] EXCEPT !.at = "save", !.status = status])
    BY <1>6 DEF Check, Continue
  <2> DEFINE t == [tasks[i] EXCEPT !.at = "save", !.status = status]
  <2>2. t.at = "save"
    BY DEF Tasks, TypeOK
  <2> HIDE DEF t
  <2>3. Move(i, t)
    BY <2>1 DEF t
  <2>4. \A j \in DOMAIN tasks' : tasks'[j].at \in Working =>
            j \in DOMAIN tasks /\ tasks'[j] = tasks[j]
    BY <2>2, <2>3, Moved DEF Working
  <2>5. QED
    BY <1>6, <2>4, QuietBooks DEF Check
<1>7. ASSUME NEW i \in DOMAIN tasks, TaskFails(i) PROVE BookInv'
  <2>1. \A j \in DOMAIN tasks' : tasks'[j].at \in Working =>
            j \in DOMAIN tasks /\ tasks'[j] = tasks[j]
    BY <1>7, DoneMoves DEF Working, TaskFails
  <2>2. QED
    BY <1>7, <2>1, QuietBooks DEF TaskFails
<1>8. CASE ServiceCreate \/ ServiceDelete \/ ServiceGet \/ ServiceUpdate
  BY <1>8, QuietBooks DEF ServiceCreate, ServiceDelete, ServiceGet, ServiceUpdate, Request
<1>9. CASE TriggerGet \/ RequestFails
  BY <1>9, QuietBooks DEF TriggerGet, RequestFails, Request, tables
<1>10. QED
  BY <1>1, <1>2, <1>3, <1>4, <1>5, <1>6, <1>7, <1>8, <1>9, SaveBooks, DetectBooks,
     CreateBooks, UpdateBooks, TriggerBooks DEF Next, TaskStep

LEMMA BooksAlways == Spec => []BookInv
<1>1. Init => BookInv
  <2> SUFFICES ASSUME Init PROVE BookInv
    OBVIOUS
  <2>1. tasks = <<>> /\ checks = <<>> /\ incidents = <<>>
    BY DEF Init
  <2>2. Ledger([c \in {} |-> 0])
    BY <2>1 DEF Ledger
  <2>3. RowsOK
    BY <2>1 DEF RowsOK
  <2>4. QED
    BY <2>2, <2>3 DEF BookInv
<1>2. TypeOK /\ BookInv /\ [Next]_vars => BookInv'
  BY BookStep
<1>3. QED
  BY <1>1, <1>2, TypeCorrect, PTL DEF Spec

(* incident_detector.go: the incidents of a service never count more       *)
(* failed checks than the detector has seen, however checks overlap,       *)
(* overwrite one another's copies, fail half way or are cut off.           *)
THEOREM CountsCovered == Spec => []NeverOvercounts
<1>1. TypeOK /\ BookInv => NeverOvercounts
  BY LedgerCovers DEF BookInv
<1>2. QED
  BY <1>1, TypeCorrect, BooksAlways, PTL

-----------------------------------------------------------------------------
(* Calm times.  When the clock ticks all checks are over, so that a second *)
(* has one check of a service and one row: ...                             *)
OncePerSecond ==
    /\ client.at \in {"idle", "put"}
    /\ \A i \in DOMAIN loops : loops[i].tick # Never =>
           /\ loops[i].alive
           /\ \A j \in DOMAIN tasks : ~TaskAlive(j)
           /\ \A c \in DOMAIN checks : checks[c].time < clock
    /\ \A i \in DOMAIN tasks : TaskAlive(i) => tasks[i].time = clock
    /\ \A i, j \in DOMAIN tasks :
           TaskAlive(i) /\ TaskAlive(j) /\ tasks[i].service = tasks[j].service => i = j
    /\ \A c \in DOMAIN checks : checks[c].time <= clock
    /\ \A i \in DOMAIN tasks : tasks[i].at \in {"check", "save"} =>
           \A c \in DOMAIN checks :
               checks[c].service = tasks[i].service => checks[c].time < clock
    /\ \A i \in DOMAIN tasks : tasks[i].at \in Working => checks[tasks[i].row].time = clock
    /\ \A b, c \in DOMAIN checks :
           checks[b].service = checks[c].service /\ checks[b].time = checks[c].time => b = c

(* ... every failed check is charged to an incident of its service, which  *)
(* counts all that are charged to it, ...                                  *)
Exact(charge) ==
    /\ charge \in [DOMAIN checks -> Nat]
    /\ \A k \in DOMAIN incidents :
           incidents[k].failed = Cardinality(Blamed(checks, charge, incidents[k].service, k))
    /\ \A c \in DOMAIN checks : checks[c].processed /\ checks[c].status = "unhealthy" =>
           /\ charge[c] \in DOMAIN incidents
           /\ incidents[charge[c]].service = checks[c].service

(* ... nothing changes between the copy and its being written back, ...    *)
CopiesFresh ==
    \A i \in DOMAIN tasks :
        /\ tasks[i].at = "create" => Active(tasks[i].service) = {}
        /\ tasks[i].at = "update" =>
               /\ tasks[i].id \in Active(tasks[i].service)
               /\ tasks[i].failed = incidents[tasks[i].id].failed + Ahead(tasks[i])
               /\ tasks[i].recovered = (tasks[i].status = "healthy")

(* ... and what is shown is what the detector has seen last.               *)
OneActive == \A s \in Services : \A j, k \in Active(s) : j = k

Shown ==
    \A s \in Services : \A k \in GetCurrent(s) : checks[k].processed =>
        (checks[k].status = "unhealthy" <=> Active(s) # {})

ExactBooks == (\E charge : Exact(charge)) /\ CopiesFresh /\ OneActive /\ Shown

CalmInv == calm => OncePerSecond /\ ExactBooks

-----------------------------------------------------------------------------
(* When every count is exactly what is charged, the books are balanced.    *)
LEMMA ExactCovers ==
    ASSUME TypeOK, NEW charge, Exact(charge), NEW s \in Services
    PROVE  Counted(s) = Cardinality(FailedChecks(s))
<1> DEFINE S == ListByService(s)
           F == [k \in DOMAIN incidents |-> incidents[k].failed]
           U == Units(F, S)
           into(k) == CHOOSE f \in Bijection(1..F[k], Blamed(checks, charge, s, k)) : TRUE
           m == [p \in U |-> into(p[1])[p[2]]]
<1>1. checks \in Seq(Checks) /\ incidents \in Seq(Incidents)
  BY DEF TypeOK
<1>2. IsFiniteSet(S) /\ S \subseteq DOMAIN incidents
  <2>1. DOMAIN incidents = 1..Len(incidents) /\ Len(incidents) \in Nat
    BY <1>1
  <2>2. IsFiniteSet(DOMAIN incidents)
    BY <2>1, FS_Interval
  <2>3. S \in SUBSET DOMAIN incidents
    BY DEF ListByService
  <2>4. QED
    BY <2>2, <2>3, FS_Subset
<1>3. \A k \in S : F[k] \in Nat /\ incidents[k].service = s
  <2> TAKE k \in S
  <2>1. k \in DOMAIN incidents /\ incidents[k].service = s
    BY DEF ListByService
  <2>2. incidents[k] \in Incidents
    BY <1>1, <2>1
  <2>3. QED
    BY <2>1, <2>2 DEF Incidents
<1>4. IsFiniteSet(U) /\ Counted(s) = Cardinality(U)
  BY <1>2, <1>3, FoldIsCount, UnitsFinite DEF Counted
<1>5. ASSUME NEW k \in S
      PROVE  /\ into(k) \in [1..F[k] -> Blamed(checks, charge, s, k)]
             /\ \A a, b \in 1..F[k] : into(k)[a] = into(k)[b] => a = b
             /\ \A c \in Blamed(checks, charge, s, k) : \E n \in 1..F[k] : into(k)[n] = c
  <2>1. F[k] = Cardinality(Blamed(checks, charge, s, k))
    BY <1>2, <1>3 DEF Exact
  <2>2. Bijection(1..F[k], Blamed(checks, charge, s, k)) # {}
    BY <1>1, <2>1, BlamedFinite, FS_CardinalityType DEF ExistsBijection
  <2>3. into(k) \in Bijection(1..F[k], Blamed(checks, charge, s, k))
    BY <2>2
  <2>4. QED
    BY <2>3 DEF Bijection, Injection, Surjection, IsInjective
<1> HIDE DEF into, F, S
<1>6. \A p \in U : /\ p[1] \in S /\ p[2] \in 1..F[p[1]]
                   /\ p = <<p[1], p[2]>>
                   /\ into(p[1])[p[2]] \in Blamed(checks, charge, s, p[1])
  <2> TAKE p \in U
  <2>1. p \in S \X Nat /\ p[2] \in 1..F[p[1]]
    BY DEF Units
  <2>2. p[1] \in S /\ p = <<p[1], p[2]>>
    BY <2>1
  <2>3. into(p[1]) \in [1..F[p[1]] -> Blamed(checks, charge, s, p[1])]
    BY <1>5, <2>2
  <2>4. QED
    BY <2>1, <2>2, <2>3
<1>7. \A c \in FailedChecks(s) : \E p \in U : into(p[1])[p[2]] = c
  <2> TAKE c \in FailedChecks(s)
  <2> DEFINE k == charge[c]
  <2>1. k \in S /\ c \in Blamed(checks, charge, s, k)
    BY DEF Exact, FailedChecks, Blamed, S, ListByService
  <2>2. PICK n \in 1..F[k] : into(k)[n] = c
    BY <1>5, <2>1
  <2>3. <<k, n>> \in U
    BY <1>3, <2>1, <2>2 DEF Units
  <2>4. QED
    BY <2>2, <2>3
<1> HIDE DEF U
<1>8. m \in [U -> FailedChecks(s)]
  BY <1>6 DEF Blamed, FailedChecks
<1>9. IsInjective(m)
  <2> SUFFICES ASSUME NEW p \in U, NEW q \in U, m[p] = m[q] PROVE p = q
    BY <1>8 DEF IsInjective
  <2>1. into(p[1])[p[2]] = into(q[1])[q[2]]
    OBVIOUS
  <2>2. p[1] = q[1]
    BY <1>6, <2>1 DEF Blamed
  <2>3. p[2] = q[2]
    BY <1>5, <1>6, <2>1, <2>2
  <2>4. QED
    BY <1>6, <2>2, <2>3
<1>10. \A c \in FailedChecks(s) : \E p \in U : m[p] = c
  BY <1>7
<1> HIDE DEF m
<1>11. ExistsBijection(U, FailedChecks(s))
  BY <1>8, <1>9, <1>10 DEF ExistsBijection, Bijection, Injection, Surjection
<1>12. QED
  BY <1>4, <1>11, FS_Bijection

LEMMA CalmBalanced == ASSUME TypeOK, CalmInv PROVE CalmLedger
<1> SUFFICES ASSUME calm, NEW s \in Services
             PROVE  /\ Cardinality(ListActive \intersect ListByService(s)) <= 1
                    /\ Counted(s) = Cardinality(FailedChecks(s))
                    /\ \A k \in GetCurrent(s) : checks[k].processed =>
                          (checks[k].status = "unhealthy" <=>
                              ListActive \intersect ListByService(s) # {})
  BY DEF CalmLedger
<1>1. ListActive \intersect ListByService(s) = Active(s)
  BY DEF ListActive, ListByService, Active
<1>2. Cardinality(Active(s)) <= 1
  <2>1. CASE Active(s) = {}
    BY <2>1, FS_EmptySet
  <2>2. ASSUME NEW k \in Active(s) PROVE Cardinality(Active(s)) <= 1
    <3>1. Active(s) = {k}
      BY <2>2 DEF CalmInv, ExactBooks, OneActive
    <3>2. QED
      BY <3>1, FS_Singleton
  <2>3. QED
    BY <2>1, <2>2
<1>3. Counted(s) = Cardinality(FailedChecks(s))
  BY ExactCovers DEF CalmInv, ExactBooks
<1>4. QED
  BY <1>1, <1>2, <1>3 DEF CalmInv, ExactBooks, Shown

-----------------------------------------------------------------------------
(* Nothing begins, and rows keep their service and time.                   *)
LEMMA SameSecond ==
    ASSUME OncePerSecond, RowsOK, UNCHANGED clock, client'.at \in {"idle", "put"},
           DOMAIN checks' = DOMAIN checks,
           \A c \in DOMAIN checks : /\ checks'[c].service = checks[c].service
                                    /\ checks'[c].time = checks[c].time,
           \A i \in DOMAIN tasks' : tasks'[i].at # "done" =>
               /\ i \in DOMAIN tasks /\ tasks[i].at # "done"
               /\ tasks'[i].service = tasks[i].service /\ tasks'[i].time = tasks[i].time
               /\ tasks'[i].at \in {"check", "save"} => tasks[i].at \in {"check", "save"}
               /\ tasks'[i].at \in Working =>
                      tasks[i].at \in Working /\ tasks'[i].row = tasks[i].row,
           \A i \in DOMAIN loops' : loops'[i].tick # Never =>
               i \in DOMAIN loops /\ loops'[i] = loops[i]
    PROVE  OncePerSecond'
<1>1. \A i \in DOMAIN tasks' : TaskAlive(i)' =>
          TaskAlive(i) /\ tasks'[i].service = tasks[i].service /\ tasks'[i].time = tasks[i].time
  BY DEF TaskAlive
<1>2. \A i \in DOMAIN loops' : loops'[i].tick # Never =>
           /\ loops'[i].alive
           /\ \A j \in DOMAIN tasks' : ~TaskAlive(j)'
           /\ \A c \in DOMAIN checks' : checks'[c].time < clock'
  BY <1>1 DEF OncePerSecond, TaskAlive
<1>3. \A i \in DOMAIN tasks' : TaskAlive(i)' => tasks'[i].time = clock'
  BY <1>1 DEF OncePerSecond, TaskAlive
<1>4. \A i, j \in DOMAIN tasks' :
           TaskAlive(i)' /\ TaskAlive(j)' /\ tasks'[i].service = tasks'[j].service => i = j
  BY <1>1 DEF OncePerSecond, TaskAlive
<1>5. \A i \in DOMAIN tasks' : tasks'[i].at \in {"check", "save"} =>
           \A c \in DOMAIN checks' :
               checks'[c].service = tasks'[i].service => checks'[c].time < clock'
  <2> SUFFICES ASSUME NEW i \in DOMAIN tasks', tasks'[i].at \in {"check", "save"},
                      NEW c \in DOMAIN checks', checks'[c].service = tasks'[i].service
               PROVE  checks'[c].time < clock'
    OBVIOUS
  <2>1. /\ i \in DOMAIN tasks /\ tasks[i].at \in {"check", "save"}
        /\ tasks'[i].service = tasks[i].service
    OBVIOUS
  <2>2. QED
    BY <2>1 DEF OncePerSecond
<1>6. \A i \in DOMAIN tasks' : tasks'[i].at \in Working => checks'[tasks'[i].row].time = clock'
  <2> SUFFICES ASSUME NEW i \in DOMAIN tasks', tasks'[i].at \in Working
               PROVE  checks'[tasks'[i].row].time = clock'
    OBVIOUS
  <2>1. /\ i \in DOMAIN tasks /\ tasks[i].at \in Working /\ tasks'[i].row = tasks[i].row
    BY DEF Working
  <2>2. tasks[i].row \in DOMAIN checks
    BY <2>1 DEF RowsOK
  <2>3. QED
    BY <2>1, <2>2 DEF OncePerSecond
<1>7. QED
  BY <1>2, <1>3, <1>4, <1>5, <1>6 DEF OncePerSecond

LEMMA NextSecond == ASSUME TypeOK, calm, OncePerSecond, Tick PROVE OncePerSecond'
<1>1. /\ \A i \in DOMAIN tasks : tasks[i].at = "done"
      /\ \A i \in DOMAIN loops : loops[i].tick = Never
      /\ clock' = clock + 1 /\ clock \in Nat
      /\ UNCHANGED <<tasks, checks, client>>
  BY DEF Tick, TaskAlive, TypeOK, tables
<1>2. \A i \in DOMAIN loops' : loops'[i].tick # Never => loops'[i].alive
  <2> SUFFICES ASSUME NEW i \in DOMAIN loops', loops'[i].tick # Never PROVE loops'[i].alive
    OBVIOUS
  <2>1. /\ i \in DOMAIN loops /\ loops[i] \in Loops
        /\ loops'[i] = IF loops[i].alive /\ loops[i].tick = Never
                       THEN [loops[i] EXCEPT !.tick = clock + 1]
                       ELSE loops[i]
    BY DEF Tick, TypeOK
  <2>2. loops[i].alive
    BY <1>1, <2>1
  <2>3. QED
    BY <2>1, <2>2 DEF Loops
<1>3. \A c \in DOMAIN checks : checks[c].time \in Int /\ checks[c].time <= clock
  <2> TAKE c \in DOMAIN checks
  <2>1. checks[c] \in Checks
    BY DEF TypeOK
  <2>2. QED
    BY <2>1 DEF OncePerSecond, Checks, Times, Never
<1>4. \A c \in DOMAIN checks : checks[c].time < clock + 1 /\ checks[c].time <= clock + 1
  BY <1>1, <1>3
<1>5. QED
  BY <1>1, <1>2, <1>4 DEF OncePerSecond, TaskAlive, Working

LEMMA BeginSecond ==
    ASSUME TypeOK, OncePerSecond, OneLoop, NEW l \in DOMAIN loops, CheckServices(l)
    PROVE  OncePerSecond'
<1>1. /\ \A i \in DOMAIN tasks : tasks[i].at = "done"
      /\ \A c \in DOMAIN checks : checks[c].time < clock
      /\ UNCHANGED <<clock, checks, client>>
      /\ LoopAlive(l) /\ Spawn(Due(l)) /\ Due(l) \in SUBSET Services
  BY DEF CheckServices, OncePerSecond, TaskAlive, TypeOK, tables, Due
<1>2. \A i \in DOMAIN loops' : loops'[i].tick = Never
  <2> SUFFICES ASSUME NEW i \in DOMAIN loops' PROVE loops'[i].tick = Never
    OBVIOUS
  <2>1. i \in DOMAIN loops /\ loops[i] \in Loops
    <3>1. DOMAIN loops' = DOMAIN loops
      BY DEF CheckServices
    <3>2. QED
      BY <3>1 DEF TypeOK
  <2>2. CASE i = l
    BY <2>1, <2>2 DEF CheckServices, Loops
  <2>3. CASE i # l
    <3>1. loops'[i] = loops[i]
      BY <2>1, <2>3 DEF CheckServices
    <3>2. ~loops[i].alive
      BY <1>1, <2>1, <2>3 DEF OneLoop, LoopAlive
    <3>3. QED
      BY <2>1, <3>1, <3>2 DEF OncePerSecond
  <2>4. QED
    BY <2>2, <2>3
<1>3. /\ \A i \in DOMAIN tasks' : i \in DOMAIN tasks => tasks'[i] = tasks[i]
      /\ \A i \in DOMAIN tasks' : i \notin DOMAIN tasks =>
             tasks'[i].at = "check" /\ tasks'[i].time = clock
      /\ \A i, j \in DOMAIN tasks' :
             i \notin DOMAIN tasks /\ j \notin DOMAIN tasks /\ tasks'[i].service = tasks'[j].service
             => i = j
  BY <1>1, SpawnBegins
<1>4. \A i \in DOMAIN tasks' : tasks'[i].at = "done" \/
          (i \notin DOMAIN tasks /\ tasks'[i].at = "check" /\ tasks'[i].time = clock)
  BY <1>1, <1>3
<1>5. QED
  BY <1>1, <1>2, <1>3, <1>4 DEF OncePerSecond, TaskAlive, Working

LEMMA SaveSecond ==
    ASSUME TypeOK, RowsOK, OncePerSecond, NEW i \in DOMAIN tasks, Save(i)
    PROVE  OncePerSecond'
<1> DEFINE n == Len(checks) + 1
           t == [tasks[i] EXCEPT !.at = "detect", !.row = n]
           c == Row(tasks[i])
<1>1. tasks[i] \in Tasks /\ checks \in Seq(Checks) /\ tasks[i].at = "save" /\ clock \in Nat
  BY DEF TypeOK, Save
<1>2. /\ c \in Checks /\ c.service = tasks[i].service /\ c.time = clock
  <2>1. tasks[i].time = clock
    BY <1>1 DEF OncePerSecond, TaskAlive
  <2>2. QED
    BY <1>1, <2>1 DEF Row, Checks, Tasks
<1>3. checks' = Append(checks, c) /\ UNCHANGED <<clock, loops, client>> /\ Move(i, t)
  BY DEF Save, Continue, Move
<1>4. /\ t.at = "detect" /\ t.row = n /\ t.service = tasks[i].service /\ t.time = clock
  BY <1>1 DEF Tasks, OncePerSecond, TaskAlive
<1> HIDE DEF t, c
<1>5. /\ DOMAIN tasks' = DOMAIN tasks /\ tasks'[i] = t
      /\ \A j \in DOMAIN tasks : j # i => tasks'[j] = tasks[j]
  BY <1>3, Moved
<1>6. /\ DOMAIN checks' = 1..n /\ DOMAIN checks = 1..(n - 1) /\ n \in Nat \ {0}
      /\ \A x \in DOMAIN checks : checks'[x] = checks[x] /\ x # n
      /\ checks'[n] = c
  BY <1>1, <1>2, <1>3, SeqAppend
<1> HIDE DEF n
<1>7. \A x \in DOMAIN checks' : (x \in DOMAIN checks /\ checks'[x] = checks[x]) \/ x = n
  BY <1>6
<1>8. \A l \in DOMAIN loops : loops[l].tick = Never
  BY <1>1 DEF OncePerSecond, TaskAlive
<1>9. \A j \in DOMAIN tasks : j # i /\ tasks[j].at # "done" =>
          tasks[j].service # tasks[i].service
  BY <1>1 DEF OncePerSecond, TaskAlive
<1>10. \A x \in DOMAIN checks : checks[x].service = tasks[i].service => checks[x].time < clock
  BY <1>1 DEF OncePerSecond
<1>11. \A j \in DOMAIN tasks' : TaskAlive(j)' =>
           TaskAlive(j) /\ tasks'[j].service = tasks[j].service /\ tasks'[j].time = clock
  BY <1>1, <1>4, <1>5 DEF TaskAlive, OncePerSecond
<1>12. \A j, k \in DOMAIN tasks' :
           TaskAlive(j)' /\ TaskAlive(k)' /\ tasks'[j].service = tasks'[k].service => j = k
  BY <1>11 DEF OncePerSecond, TaskAlive
<1>13. \A x \in DOMAIN checks' : checks'[x].time <= clock
  BY <1>1, <1>2, <1>6, <1>7 DEF OncePerSecond
<1>14. \A j \in DOMAIN tasks' : tasks'[j].at \in {"check", "save"} =>
           \A x \in DOMAIN checks' :
               checks'[x].service = tasks'[j].service => checks'[x].time < clock
  <2> SUFFICES ASSUME NEW j \in DOMAIN tasks', tasks'[j].at \in {"check", "save"},
                      NEW x \in DOMAIN checks', checks'[x].service = tasks'[j].service
               PROVE  checks'[x].time < clock
    OBVIOUS
  <2>1. j # i /\ j \in DOMAIN tasks /\ tasks'[j] = tasks[j]
    BY <1>4, <1>5
  <2>2. x # n
    BY <1>2, <1>6, <1>9, <2>1
  <2>3. QED
    BY <1>7, <2>1, <2>2 DEF OncePerSecond
<1>15. \A j \in DOMAIN tasks' : tasks'[j].at \in Working => checks'[tasks'[j].row].time = clock
  <2> SUFFICES ASSUME NEW j \in DOMAIN tasks', tasks'[j].at \in Working
               PROVE  checks'[tasks'[j].row].time = clock
    OBVIOUS
  <2>1. CASE j = i
    BY <1>2, <1>4, <1>5, <1>6, <2>1
  <2>2. CASE j # i
    <3>1. j \in DOMAIN tasks /\ tasks'[j] = tasks[j]
      BY <1>5, <2>2
    <3>2. tasks[j].row \in DOMAIN checks
      BY <3>1 DEF RowsOK
    <3>3. QED
      BY <1>6, <3>1, <3>2 DEF OncePerSecond
  <2>3. QED
    BY <2>1, <2>2
<1>16. \A x, y \in DOMAIN checks' :
           checks'[x].service = checks'[y].service /\ checks'[x].time = checks'[y].time => x = y
  <2> SUFFICES ASSUME NEW x \in DOMAIN checks', NEW y \in DOMAIN checks',
                      checks'[x].service = checks'[y].service,
                      checks'[x].time = checks'[y].time
               PROVE  x = y
    OBVIOUS
  <2>1. CASE x # n /\ y # n
    BY <1>7, <2>1 DEF OncePerSecond
  <2>2. ASSUME NEW z \in DOMAIN checks', z # n, checks'[z].service = c.service
        PROVE  checks'[z].time # c.time
    <3>1. z \in DOMAIN checks /\ checks'[z] = checks[z]
      BY <1>7, <2>2
    <3>2. checks[z].time < clock
      BY <1>2, <1>10, <2>2, <3>1
    <3>3. checks[z] \in Checks
      BY <1>1, <3>1
    <3>4. checks[z].time \in Int
      BY <3>3 DEF Checks, Times, Never
    <3>5. QED
      BY <1>1, <1>2, <3>1, <3>2, <3>4
  <2>3. QED
    BY <1>6, <2>1, <2>2
<1>17. QED
  BY <1>3, <1>8, <1>11, <1>12, <1>13, <1>14, <1>15, <1>16 DEF OncePerSecond

(* A check goes on, or is over, without a new row.                         *)
LEMMA TaskSecond ==
    ASSUME TypeOK, RowsOK, OncePerSecond, NEW i \in DOMAIN tasks, tasks[i].at # "done",
           UNCHANGED <<clock, loops, client>>,
           DOMAIN checks' = DOMAIN checks,
           \A c \in DOMAIN checks : /\ checks'[c].service = checks[c].service
                                    /\ checks'[c].time = checks[c].time,
           DOMAIN tasks' = DOMAIN tasks,
           \A j \in DOMAIN tasks : j # i => tasks'[j] = tasks[j],
           tasks'[i].at # "done" =>
               /\ tasks'[i].service = tasks[i].service /\ tasks'[i].time = tasks[i].time
               /\ tasks'[i].at \in {"check", "save"} => tasks[i].at \in {"check", "save"}
               /\ tasks'[i].at \in Working =>
                      tasks[i].at \in Working /\ tasks'[i].row = tasks[i].row
    PROVE  OncePerSecond'
<1>1. \A j \in DOMAIN tasks' : tasks'[j].at # "done" =>
          /\ j \in DOMAIN tasks /\ tasks[j].at # "done"
          /\ tasks'[j].service = tasks[j].service /\ tasks'[j].time = tasks[j].time
          /\ tasks'[j].at \in {"check", "save"} => tasks[j].at \in {"check", "save"}
          /\ tasks'[j].at \in Working =>
                 tasks[j].at \in Working /\ tasks'[j].row = tasks[j].row
  BY DEF Working
<1>2. client'.at \in {"idle", "put"}
  BY DEF OncePerSecond
<1>3. QED
  BY <1>1, <1>2, SameSecond

-----------------------------------------------------------------------------
(* Neither a row nor a copy changes.                                       *)
LEMMA SameExact ==
    ASSUME ExactBooks, UNCHANGED <<checks, incidents>>,
           \A i \in DOMAIN tasks' : tasks'[i].at \in {"create", "update"} =>
               i \in DOMAIN tasks /\ tasks'[i] = tasks[i]
    PROVE  ExactBooks'
<1>1. PICK charge : Exact(charge)
  BY DEF ExactBooks
<1>2. Exact(charge)'
  BY <1>1 DEF Exact
<1>3. CopiesFresh'
  BY DEF ExactBooks, CopiesFresh, Active, Ahead
<1>4. OneActive' /\ Shown'
  BY DEF ExactBooks, OneActive, Shown, Active, GetCurrent
<1>5. QED
  BY <1>2, <1>3, <1>4 DEF ExactBooks

(* The new row is the one that is shown, and nobody has dealt with it.     *)
LEMMA SaveExact ==
    ASSUME TypeOK, OncePerSecond, ExactBooks, NEW i \in DOMAIN tasks, Save(i)
    PROVE  ExactBooks'
<1> DEFINE n == Len(checks) + 1
           t == [tasks[i] EXCEPT !.at = "detect", !.row = n]
           c == Row(tasks[i])
<1>1. tasks[i] \in Tasks /\ checks \in Seq(Checks) /\ tasks[i].at = "save"
  BY DEF TypeOK, Save
<1>2. /\ c \in Checks /\ ~c.processed /\ c.service = tasks[i].service
      /\ c.time = clock /\ clock \in Nat
  <2>1. tasks[i].time = clock
    BY <1>1 DEF OncePerSecond, TaskAlive
  <2>2. QED
    BY <1>1, <2>1 DEF Row, Checks, Tasks, TypeOK
<1>3. checks' = Append(checks, c) /\ UNCHANGED incidents /\ Move(i, t)
  BY DEF Save, Continue
<1>4. t.at = "detect"
  BY <1>1 DEF Tasks
<1> HIDE DEF t, c
<1>5. \A j \in DOMAIN tasks' : tasks'[j].at \in {"create", "update"} =>
          j \in DOMAIN tasks /\ tasks'[j] = tasks[j]
  BY <1>3, <1>4, Moved
<1>6. /\ DOMAIN checks' = 1..n /\ DOMAIN checks = 1..(n - 1) /\ n \in Nat \ {0}
      /\ \A x \in DOMAIN checks : checks'[x] = checks[x] /\ x # n
      /\ checks'[n] = c
  BY <1>1, <1>2, <1>3, SeqAppend
<1> HIDE DEF n
<1>7. /\ \A x \in DOMAIN checks' : (x \in DOMAIN checks /\ checks'[x] = checks[x]) \/ x = n
      /\ \A x \in DOMAIN checks : x \in DOMAIN checks' /\ checks'[x] = checks[x] /\ x # n
      /\ n \in DOMAIN checks'
  BY <1>6
<1>8. PICK charge : Exact(charge)
  BY DEF ExactBooks
<1>9. \E g : Exact(g)'
  <2>1. charge \in [DOMAIN checks -> Nat]
    BY <1>8 DEF Exact
  <2>2. PICK g \in [DOMAIN checks' -> Nat] : \A x \in DOMAIN checks : g[x] = charge[x]
    <3> DEFINE h == [x \in DOMAIN checks' |-> IF x \in DOMAIN checks THEN charge[x] ELSE 0]
    <3>1. h \in [DOMAIN checks' -> Nat] /\ \A x \in DOMAIN checks : h[x] = charge[x]
      BY <1>7, <2>1
    <3>2. QED
      BY <3>1
  <2>3. \A s, k : Blamed(checks', g, s, k) = Blamed(checks, charge, s, k)
    BY <1>2, <1>6, <1>7, <2>2 DEF Blamed
  <2>4. Exact(g)'
    <3>1. \A k \in DOMAIN incidents' :
              incidents'[k].failed = Cardinality(Blamed(checks', g, incidents'[k].service, k))
      BY <1>3, <1>8, <2>3 DEF Exact
    <3>2. \A x \in DOMAIN checks' : checks'[x].processed /\ checks'[x].status = "unhealthy" =>
              g[x] \in DOMAIN incidents' /\ incidents'[g[x]].service = checks'[x].service
      <4> SUFFICES ASSUME NEW x \in DOMAIN checks', checks'[x].processed,
                          checks'[x].status = "unhealthy"
                   PROVE  g[x] \in DOMAIN incidents' /\ incidents'[g[x]].service = checks'[x].service
        OBVIOUS
      <4>1. x \in DOMAIN checks /\ checks'[x] = checks[x]
        BY <1>2, <1>6, <1>7
      <4>2. QED
        BY <1>3, <1>8, <2>2, <4>1 DEF Exact
    <3>3. QED
      BY <2>2, <3>1, <3>2 DEF Exact
  <2>5. QED
    BY <2>4
<1>10. CopiesFresh' /\ OneActive'
  BY <1>3, <1>5 DEF ExactBooks, CopiesFresh, OneActive, Active, Ahead
<1>11. Shown'
  <2> SUFFICES ASSUME NEW s \in Services, NEW k \in GetCurrent(s)', checks'[k].processed
               PROVE  checks'[k].status = "unhealthy" <=> Active(s)' # {}
    BY DEF Shown
  <2>1. k \in DOMAIN checks' /\ checks'[k].service = s
    BY DEF GetCurrent
  <2>2. k # n
    BY <1>2, <1>6
  <2>3. k \in DOMAIN checks /\ checks'[k] = checks[k]
    BY <1>7, <2>1, <2>2
  <2>4. s # tasks[i].service
    <3> SUFFICES ASSUME s = tasks[i].service PROVE FALSE
      OBVIOUS
    <3>1. checks[k].time < clock
      BY <1>1, <2>1, <2>3 DEF OncePerSecond
    <3>2. checks'[n].time <= checks'[k].time
      BY <1>2, <1>6, <1>7 DEF GetCurrent
    <3>3. checks[k] \in Checks
      BY <1>1, <2>3
    <3>4. checks[k].time \in Int
      BY <3>3 DEF Checks, Times, Never
    <3>5. QED
      BY <1>2, <1>6, <2>3, <3>1, <3>2, <3>4
  <2>5. k \in GetCurrent(s)
    BY <1>7, <2>1, <2>3 DEF GetCurrent
  <2>6. Active(s)' = Active(s)
    BY <1>3 DEF Active
  <2>7. QED
    BY <2>3, <2>5, <2>6 DEF ExactBooks, Shown
<1>12. QED
  BY <1>9, <1>10, <1>11 DEF ExactBooks

(* A copy is taken, or there is nothing to copy.                           *)
LEMMA CopyExact ==
    ASSUME TypeOK, ExactBooks, NEW i \in DOMAIN tasks, NEW t, Move(i, t),
           UNCHANGED <<checks, incidents>>,
           t.at = "create" => Active(t.service) = {},
           t.at = "update" =>
               /\ t.id \in Active(t.service)
               /\ t.failed = incidents[t.id].failed + Ahead(t)
               /\ t.recovered = (t.status = "healthy")
    PROVE  ExactBooks'
<1>1. /\ DOMAIN tasks' = DOMAIN tasks /\ tasks'[i] = t
      /\ \A j \in DOMAIN tasks : j # i => tasks'[j] = tasks[j]
  BY Moved
<1>2. PICK charge : Exact(charge)
  BY DEF ExactBooks
<1>3. Exact(charge)'
  BY <1>2 DEF Exact
<1>4. CopiesFresh'
  <2> SUFFICES ASSUME NEW j \in DOMAIN tasks', NEW x, x = tasks'[j].service
               PROVE  /\ tasks'[j].at = "create" => Active(x)' = {}
                      /\ tasks'[j].at = "update" =>
                             /\ tasks'[j].id \in Active(x)'
                             /\ tasks'[j].failed = incidents'[tasks'[j].id].failed + Ahead(tasks'[j])
                             /\ tasks'[j].recovered = (tasks'[j].status = "healthy")
    BY DEF CopiesFresh, Active, Ahead
  <2>1. Active(x)' = Active(x)
    BY DEF Active
  <2>2. CASE j = i
    BY <1>1, <2>1, <2>2
  <2>3. CASE j # i
    BY <1>1, <2>1, <2>3 DEF ExactBooks, CopiesFresh
  <2>4. QED
    BY <2>2, <2>3
<1>5. OneActive' /\ Shown'
  BY DEF ExactBooks, OneActive, Shown, Active, GetCurrent
<1>6. QED
  BY <1>3, <1>4, <1>5 DEF ExactBooks

(* A check is over, and charged to incident k, which nothing else has      *)
(* changed since the copy.                                                 *)
LEMMA DoneExact ==
    ASSUME TypeOK, RowsOK, OncePerSecond, ExactBooks,
           NEW i \in DOMAIN tasks, tasks[i].at \in Working, Done(i), Processed(i),
           NEW s \in Services, tasks[i].service = s, NEW k \in Nat,
           DOMAIN incidents \subseteq DOMAIN incidents',
           \A j \in DOMAIN incidents' : j # k => j \in DOMAIN incidents,
           \A j \in DOMAIN incidents : j # k => incidents'[j] = incidents[j],
           k \in DOMAIN incidents => incidents[k].service = s,
           k \in DOMAIN incidents' =>
               /\ incidents'[k].service = s
               /\ incidents'[k].failed = Ahead(tasks[i]) +
                      IF k \in DOMAIN incidents THEN incidents[k].failed ELSE 0,
           tasks[i].status = "unhealthy" =>
               k \in DOMAIN incidents' /\ Active(s)' = {k},
           tasks[i].status # "unhealthy" => Active(s)' = {}
    PROVE  ExactBooks'
<1> DEFINE r == tasks[i].row
<1>1. /\ r \in DOMAIN checks /\ DOMAIN checks' = DOMAIN checks
      /\ checks'[r].service = s /\ checks'[r].status = tasks[i].status
      /\ checks'[r].time = clock /\ checks'[r].processed
      /\ \A x \in DOMAIN checks : x # r => checks'[x] = checks[x]
  <2>1. /\ r \in DOMAIN checks /\ checks[r].service = s /\ checks[r].status = tasks[i].status
        /\ checks[r].time = clock
    BY DEF RowsOK, OncePerSecond
  <2>2. QED
    BY <2>1, RowProcessed
<1>2. /\ DOMAIN tasks' = DOMAIN tasks /\ tasks'[i].at = "done"
      /\ \A j \in DOMAIN tasks : j # i => tasks'[j] = tasks[j]
  BY DoneMoves
<1>3. PICK charge : Exact(charge)
  BY DEF ExactBooks
<1>4. \A x, j : Cardinality(Blamed(checks, charge, x, j)) \in Nat
  BY BlamedFinite DEF TypeOK
<1>5. \A x : x # s => Active(x)' = Active(x)
  <2> SUFFICES ASSUME NEW x, x # s PROVE Active(x)' = Active(x)
    OBVIOUS
  <2>1. ASSUME NEW j \in DOMAIN incidents', incidents'[j].service = x
        PROVE  j \in DOMAIN incidents /\ incidents'[j] = incidents[j]
    BY <2>1
  <2>2. ASSUME NEW j \in DOMAIN incidents, incidents[j].service = x
        PROVE  j \in DOMAIN incidents' /\ incidents'[j] = incidents[j]
    BY <2>2
  <2>3. QED
    BY <2>1, <2>2 DEF Active
<1>6. \E g : Exact(g)'
  <2>1. /\ RowsOK /\ charge \in [DOMAIN checks -> Nat]
    BY <1>3 DEF Exact
  <2>2. PICK g \in [DOMAIN checks' -> Nat] :
            /\ g[r] = k
            /\ \A x \in DOMAIN checks : x # r => g[x] = charge[x]
            /\ \A x, j : Cardinality(Blamed(checks', g, x, j)) =
                   Cardinality(Blamed(checks, charge, x, j)) +
                       (IF x = s /\ j = k THEN Ahead(tasks[i]) ELSE 0)
    BY <2>1, Charged
  <2>3. k \notin DOMAIN incidents => Cardinality(Blamed(checks, charge, s, k)) = 0
    <3>1. k \notin DOMAIN incidents => Blamed(checks, charge, s, k) = {}
      BY <1>3 DEF Exact, Blamed
    <3>2. QED
      BY <3>1, FS_EmptySet
  <2>4. ASSUME NEW j \in DOMAIN incidents'
        PROVE  incidents'[j].failed = Cardinality(Blamed(checks', g, incidents'[j].service, j))
    <3>1. CASE j # k
      <4>1. j \in DOMAIN incidents /\ incidents'[j] = incidents[j]
        BY <3>1
      <4>2. incidents[j].failed = Cardinality(Blamed(checks, charge, incidents[j].service, j))
        BY <1>3, <4>1 DEF Exact
      <4>3. QED
        BY <1>4, <2>2, <3>1, <4>1, <4>2
    <3>2. CASE j = k
      <4>1. incidents'[k].service = s
        BY <3>2
      <4>2. Cardinality(Blamed(checks', g, s, k)) =
                Cardinality(Blamed(checks, charge, s, k)) + Ahead(tasks[i])
        BY <2>2
      <4>3. k \in DOMAIN incidents =>
                incidents[k].failed = Cardinality(Blamed(checks, charge, s, k))
        BY <1>3 DEF Exact
      <4>4. QED
        BY <1>4, <2>3, <3>2, <4>1, <4>2, <4>3 DEF Ahead
    <3>3. QED
      BY <3>1, <3>2
  <2>5. ASSUME NEW x \in DOMAIN checks', checks'[x].processed, checks'[x].status = "unhealthy"
        PROVE  g[x] \in DOMAIN incidents' /\ incidents'[g[x]].service = checks'[x].service
    <3>1. CASE x = r
      <4>1. k \in DOMAIN incidents' /\ incidents'[k].service = s
        BY <1>1, <2>5, <3>1
      <4>2. QED
        BY <1>1, <2>2, <3>1, <4>1
    <3>2. CASE x # r
      <4>1. x \in DOMAIN checks /\ checks'[x] = checks[x] /\ g[x] = charge[x]
        BY <1>1, <2>2, <3>2
      <4>2. charge[x] \in DOMAIN incidents /\ incidents[charge[x]].service = checks[x].service
        BY <1>3, <2>5, <4>1 DEF Exact
      <4>3. incidents'[charge[x]].service = incidents[charge[x]].service
        BY <4>2
      <4>4. QED
        BY <4>1, <4>2, <4>3
    <3>3. QED
      BY <3>1, <3>2
  <2>6. Exact(g)'
    BY <2>2, <2>4, <2>5 DEF Exact
  <2>7. QED
    BY <2>6
<1>7. CopiesFresh'
  <2> SUFFICES ASSUME NEW j \in DOMAIN tasks', NEW x, x = tasks'[j].service
               PROVE  /\ tasks'[j].at = "create" => Active(x)' = {}
                      /\ tasks'[j].at = "update" =>
                             /\ tasks'[j].id \in Active(x)'
                             /\ tasks'[j].failed = incidents'[tasks'[j].id].failed + Ahead(tasks'[j])
                             /\ tasks'[j].recovered = (tasks'[j].status = "healthy")
    BY DEF CopiesFresh, Active, Ahead
  <2>1. CASE tasks'[j].at \notin {"create", "update"}
    BY <2>1
  <2>2. CASE tasks'[j].at \in {"create", "update"}
    <3>1. j # i /\ j \in DOMAIN tasks /\ tasks'[j] = tasks[j]
      BY <1>2, <2>2
    <3>2. tasks[j].service # s
      BY <2>2, <3>1 DEF OncePerSecond, TaskAlive, Working
    <3>3. x = tasks[j].service /\ Active(x)' = Active(x)
      BY <1>5, <3>1, <3>2
    <3>4. tasks[j].at = "update" => incidents'[tasks[j].id] = incidents[tasks[j].id]
      <4> SUFFICES ASSUME tasks[j].at = "update" PROVE incidents'[tasks[j].id] = incidents[tasks[j].id]
        OBVIOUS
      <4>1. tasks[j].id \in Active(tasks[j].service)
        BY <3>1 DEF ExactBooks, CopiesFresh
      <4>2. tasks[j].id \in DOMAIN incidents /\ incidents[tasks[j].id].service = tasks[j].service
        BY <4>1 DEF Active
      <4>3. QED
        BY <3>2, <4>2
    <3>5. QED
      BY <3>1, <3>3, <3>4 DEF ExactBooks, CopiesFresh
  <2>3. QED
    BY <2>1, <2>2
<1>8. OneActive'
  <2> SUFFICES ASSUME NEW x \in Services PROVE \A j, l \in Active(x)' : j = l
    BY DEF OneActive
  <2>1. CASE x = s
    BY <2>1
  <2>2. CASE x # s
    BY <1>5, <2>2 DEF ExactBooks, OneActive
  <2>3. QED
    BY <2>1, <2>2
<1>9. Shown'
  <2> SUFFICES ASSUME NEW x \in Services, NEW c \in GetCurrent(x)', checks'[c].processed
               PROVE  checks'[c].status = "unhealthy" <=> Active(x)' # {}
    BY DEF Shown
  <2>1. c \in DOMAIN checks /\ checks'[c].service = x
    BY <1>1 DEF GetCurrent
  <2>2. CASE x = s
    <3>1. checks'[r].time <= checks'[c].time
      BY <1>1, <2>2 DEF GetCurrent
    <3>2. CASE c = r
      BY <1>1, <2>2, <3>2
    <3>3. CASE c # r
      <4>1. checks'[c] = checks[c] /\ checks[c].service = s /\ checks[c].time <= clock
        BY <1>1, <2>1, <2>2, <3>3 DEF OncePerSecond
      <4>2. checks[c] \in Checks
        BY <2>1 DEF TypeOK
      <4>3. checks[c].time \in Int /\ clock \in Int
        BY <4>2 DEF Checks, Times, Never, TypeOK
      <4>4. checks[c].time = clock
        BY <1>1, <3>1, <4>1, <4>3
      <4>5. checks[r].service = s /\ checks[r].time = clock
        BY DEF RowsOK, OncePerSecond
      <4>6. c = r
        BY <1>1, <2>1, <4>1, <4>4, <4>5 DEF OncePerSecond
      <4>7. QED
        BY <3>3, <4>6
    <3>4. QED
      BY <3>2, <3>3
  <2>3. CASE x # s
    <3>1. c # r
      BY <1>1, <2>1, <2>3
    <3>2. checks'[c] = checks[c]
      BY <1>1, <2>1, <3>1
    <3>3. ASSUME NEW y \in DOMAIN checks, checks[y].service = x
          PROVE  checks[y].time <= checks[c].time
      <4>1. checks[r].service = s
        BY DEF RowsOK
      <4>2. y # r
        BY <2>3, <3>3, <4>1
      <4>3. checks'[y] = checks[y] /\ y \in DOMAIN checks'
        BY <1>1, <4>2
      <4>4. QED
        BY <3>2, <3>3, <4>3 DEF GetCurrent
    <3>4. c \in GetCurrent(x)
      BY <2>1, <3>2, <3>3 DEF GetCurrent
    <3>5. QED
      BY <1>5, <2>3, <3>2, <3>4 DEF ExactBooks, Shown
  <2>4. QED
    BY <2>2, <2>3
<1>10. QED
  BY <1>6, <1>7, <1>8, <1>9 DEF ExactBooks

-----------------------------------------------------------------------------
CalmHere == TypeOK /\ RowsOK /\ OneLoop /\ calm /\ OncePerSecond /\ ExactBooks

(* The checks, the rows and the incidents are left alone.                  *)
LEMMA CalmSame ==
    ASSUME CalmHere, UNCHANGED <<clock, checks, incidents>>,
           client'.at \in {"idle", "put"},
           \A i \in DOMAIN tasks' : i \in DOMAIN tasks /\ tasks'[i] = tasks[i],
           \A i \in DOMAIN loops' : loops'[i].tick # Never =>
               i \in DOMAIN loops /\ loops'[i] = loops[i]
    PROVE  OncePerSecond' /\ ExactBooks'
<1>1. OncePerSecond'
  BY SameSecond DEF CalmHere
<1>2. ExactBooks'
  BY SameExact DEF CalmHere
<1>3. QED
  BY <1>1, <1>2

LEMMA CalmLoops ==
    ASSUME CalmHere,
           \/ Restart \/ StartRun \/ Stop \/ StopReturn \/ UNCHANGED vars
           \/ \E i \in DOMAIN loops : LoopStop(i)
    PROVE  OncePerSecond' /\ ExactBooks'
<1>1. client.at \in {"idle", "put"}
  BY DEF CalmHere, OncePerSecond
<1>2. loops \in Seq(Loops)
  BY DEF CalmHere, TypeOK
<1>3. CASE Restart
  <2>1. client'.at = "idle"
    <3>1. client \in Requests
      BY DEF CalmHere, TypeOK
    <3>2. QED
      BY <1>3, <3>1 DEF Restart, NewProcess, Requests
  <2>2. loops' = <<>> /\ tasks' = <<>>
    BY <1>3 DEF Restart, NewProcess
  <2>3. UNCHANGED <<clock, checks, incidents>>
    BY <1>3 DEF Restart, tables
  <2>4. QED
    BY <2>1, <2>2, <2>3, CalmSame
<1>4. CASE StartRun
  <2> DEFINE l == [alive |-> TRUE, tick |-> Never, last |-> [s \in Services |-> Never]]
  <2>1. l \in Loops /\ l.tick = Never
    BY DEF Loops, Times
  <2>2. loops' = Append(loops, l) /\ UNCHANGED <<clock, checks, incidents, tasks, client>>
    BY <1>4 DEF StartRun, tables
  <2> HIDE DEF l
  <2>3. \A i \in DOMAIN loops' : loops'[i].tick # Never =>
            i \in DOMAIN loops /\ loops'[i] = loops[i]
    BY <1>2, <2>1, <2>2, SeqAppend
  <2>4. QED
    BY <1>1, <2>2, <2>3, CalmSame
<1>5. CASE Stop \/ StopReturn \/ UNCHANGED vars
  <2>1. UNCHANGED <<clock, checks, incidents, tasks, client, loops>>
    BY <1>5 DEF Stop, StopReturn, vars, tables
  <2>2. QED
    BY <1>1, <2>1, CalmSame
<1>6. ASSUME NEW i \in DOMAIN loops, LoopStop(i) PROVE OncePerSecond' /\ ExactBooks'
  <2> DEFINE l == [alive |-> FALSE, tick |-> Never, last |-> [s \in Services |-> Never]]
  <2>1. /\ loops' = [loops EXCEPT ![i] = l] /\ l.tick = Never
        /\ UNCHANGED <<clock, checks, incidents, tasks, client>>
    BY <1>6 DEF LoopStop, tables
  <2> HIDE DEF l
  <2>2. \A j \in DOMAIN loops' : loops'[j].tick # Never =>
            j \in DOMAIN loops /\ loops'[j] = loops[j]
    BY <1>2, <2>1
  <2>3. QED
    BY <1>1, <2>1, <2>2, CalmSame
<1>7. QED
  BY <1>3, <1>4, <1>5, <1>6

LEMMA CalmRequests ==
    ASSUME CalmHere,
           \/ ServiceCreate \/ ServiceDelete \/ ServiceGet \/ ServiceUpdate
           \/ TriggerGet \/ TriggerCheck \/ RequestFails
    PROVE  OncePerSecond' /\ ExactBooks'
<1>1. client.at \in {"idle", "put"} /\ client \in Requests /\ calm
  BY DEF CalmHere, OncePerSecond, TypeOK
<1>2. ~TriggerGet /\ ~TriggerCheck /\ ~RequestFails
  BY <1>1 DEF TriggerGet, TriggerCheck, RequestFails
<1>3. client'.at \in {"idle", "put"}
  <2>1. CASE ServiceCreate \/ ServiceDelete
    BY <1>1, <2>1 DEF ServiceCreate, ServiceDelete
  <2>2. CASE ServiceGet
    <3>1. PICK s \in DOMAIN services : client' = [client EXCEPT !.at = "put", !.service = s]
      BY <2>2 DEF ServiceGet
    <3>2. QED
      BY <1>1, <3>1 DEF Requests
  <2>3. CASE ServiceUpdate
    BY <1>1, <2>3 DEF ServiceUpdate, Requests
  <2>4. QED
    BY <1>2, <2>1, <2>2, <2>3
<1>4. UNCHANGED <<clock, checks, incidents, tasks, loops>>
  BY <1>2 DEF ServiceCreate, ServiceDelete, ServiceGet, ServiceUpdate, Request
<1>5. QED
  BY <1>3, <1>4, CalmSame

(* A step of a check that adds no row.                                     *)
LEMMA GoesOn ==
    ASSUME CalmHere, NEW i \in DOMAIN tasks, tasks[i].at # "done", NEW t, Move(i, t),
           UNCHANGED checks \/ (tasks[i].at \in Working /\ Processed(i)),
           t.at # "done" =>
               /\ t.service = tasks[i].service /\ t.time = tasks[i].time
               /\ t.at \in {"check", "save"} => tasks[i].at \in {"check", "save"}
               /\ t.at \in Working => tasks[i].at \in Working /\ t.row = tasks[i].row
    PROVE  OncePerSecond'
<1>1. /\ DOMAIN tasks' = DOMAIN tasks /\ tasks'[i] = t
      /\ \A j \in DOMAIN tasks : j # i => tasks'[j] = tasks[j]
  BY Moved DEF CalmHere
<1>2. /\ DOMAIN checks' = DOMAIN checks
      /\ \A c \in DOMAIN checks : checks'[c].service = checks[c].service /\ checks'[c].time = checks[c].time
  <2>1. CASE UNCHANGED checks
    BY <2>1
  <2>2. CASE tasks[i].at \in Working /\ Processed(i)
    <3> DEFINE r == tasks[i].row
    <3>1. TypeOK /\ RowsOK
      BY DEF CalmHere
    <3>2. /\ DOMAIN checks' = DOMAIN checks
          /\ checks'[r].service = checks[r].service /\ checks'[r].time = checks[r].time
          /\ \A x \in DOMAIN checks : x # r => checks'[x] = checks[x]
      BY <2>2, <3>1, RowProcessed
    <3> HIDE DEF r
    <3>3. QED
      BY <3>2
  <2>3. QED
    BY <2>1, <2>2
<1>3. UNCHANGED <<clock, loops, client>>
  BY DEF Move
<1>4. TypeOK /\ RowsOK /\ OncePerSecond
  BY DEF CalmHere
<1>5. QED
  BY <1>1, <1>2, <1>3, <1>4, TaskSecond

LEMMA GoneOn ==
    ASSUME CalmHere, NEW i \in DOMAIN tasks, tasks[i].at \in Working, Done(i), Processed(i)
    PROVE  OncePerSecond'
<1> DEFINE t == [NewTask(tasks[i].service) EXCEPT !.at = "done", !.time = Never]
<1>1. t.at = "done" /\ Move(i, t)
  BY DEF Done, NewTask
<1>2. tasks[i].at # "done"
  BY DEF Working
<1> HIDE DEF t
<1>3. QED
  BY <1>1, <1>2, GoesOn

LEMMA CalmCheck ==
    ASSUME CalmHere, NEW i \in DOMAIN tasks, Check(i)
    PROVE  OncePerSecond' /\ ExactBooks'
<1>1. PICK status \in Statuses :
          Move(i, [tasks[i] EXCEPT !.at = "save", !.status = status])
  BY DEF Check, Continue
<1> DEFINE t == [tasks[i] EXCEPT !.at = "save", !.status = status]
<1>2. tasks[i] \in Tasks /\ tasks[i].at = "check" /\ UNCHANGED <<checks, incidents>>
  BY DEF CalmHere, TypeOK, Check
<1>3. t.at = "save" /\ t.service = tasks[i].service /\ t.time = tasks[i].time
  BY <1>2 DEF Tasks
<1>4. Move(i, t)
  BY <1>1
<1> HIDE DEF t
<1>5. OncePerSecond'
  BY <1>2, <1>3, <1>4, GoesOn DEF Working
<1>6. \A j \in DOMAIN tasks' : tasks'[j].at \in {"create", "update"} =>
          j \in DOMAIN tasks /\ tasks'[j] = tasks[j]
  BY <1>3, <1>4, Moved DEF CalmHere
<1>7. QED
  BY <1>2, <1>5, <1>6, SameExact DEF CalmHere

LEMMA CalmDetect ==
    ASSUME CalmHere, NEW i \in DOMAIN tasks, Detect(i)
    PROVE  OncePerSecond' /\ ExactBooks'
<1>1. PICK s \in Services : tasks[i].service = s
  <2>1. tasks[i] \in Tasks
    BY DEF CalmHere, TypeOK
  <2>2. QED
    BY <2>1 DEF Tasks
<1>2. /\ tasks[i] \in Tasks /\ tasks[i].at = "detect" /\ tasks[i].at \in Working
      /\ UNCHANGED incidents
      /\ TypeOK /\ RowsOK /\ OncePerSecond /\ ExactBooks
  BY DEF TypeOK, Detect, Working, CalmHere
<1>3. \A k \in GetActive(s) : k \in Active(s) /\ k \in DOMAIN incidents /\
          incidents[k].recovered = FALSE /\ incidents[k].failed \in Nat
  <2> TAKE k \in GetActive(s)
  <2>1. k \in Active(s) /\ k \in DOMAIN incidents /\ ~incidents[k].recovered
    BY DEF GetActive, Active
  <2>2. incidents[k] \in Incidents
    BY <2>1, <1>2 DEF TypeOK
  <2>3. QED
    BY <2>1, <2>2 DEF Incidents
<1>4. CASE Active(s) = {} /\ Continue(i, [tasks[i] EXCEPT !.at = "create"]) /\ UNCHANGED checks
  <2> DEFINE t == [tasks[i] EXCEPT !.at = "create"]
  <2>1. /\ t.at = "create" /\ t.row = tasks[i].row /\ t.service = s /\ t.time = tasks[i].time
    BY <1>1, <1>2 DEF Tasks
  <2>2. Move(i, t)
    BY <1>4 DEF Continue
  <2> HIDE DEF t
  <2>3. OncePerSecond'
    BY <1>1, <1>2, <1>4, <2>1, <2>2, GoesOn
  <2>4. ExactBooks'
    BY <1>2, <1>4, <2>1, <2>2, CopyExact
  <2>5. QED
    BY <2>3, <2>4
<1>5. ASSUME NEW k \in GetActive(s), tasks[i].status = "unhealthy",
             Continue(i, [Copy(i, k) EXCEPT !.failed = @ + 1]), UNCHANGED checks
      PROVE  OncePerSecond' /\ ExactBooks'
  <2> DEFINE t == [Copy(i, k) EXCEPT !.failed = @ + 1]
  <2>1. /\ t.at = "update" /\ t.row = tasks[i].row /\ t.service = s /\ t.time = tasks[i].time
        /\ t.status = "unhealthy" /\ t.id = k /\ t.recovered = incidents[k].recovered
        /\ t.failed = incidents[k].failed + 1
    BY <1>1, <1>2, <1>5 DEF Tasks, Copy
  <2>2. Move(i, t)
    BY <1>5 DEF Continue
  <2> HIDE DEF t
  <2>3. OncePerSecond'
    BY <1>1, <1>2, <1>5, <2>1, <2>2, GoesOn
  <2>4. /\ t.id \in Active(t.service)
        /\ t.failed = incidents[t.id].failed + Ahead(t)
        /\ t.recovered = (t.status = "healthy")
    <3>1. t.recovered = FALSE /\ (t.status = "healthy") = FALSE
      BY <1>3, <2>1
    <3>2. t.failed = incidents[t.id].failed + Ahead(t) /\ t.id \in Active(t.service)
      BY <1>3, <2>1 DEF Ahead
    <3>3. QED
      BY <3>1, <3>2
  <2>5. t.at # "create"
    BY <2>1
  <2>6. ExactBooks'
    BY <1>2, <1>5, <2>2, <2>4, <2>5, CopyExact
  <2>7. QED
    BY <2>3, <2>6
<1>6. ASSUME NEW k \in GetActive(s), tasks[i].status # "unhealthy",
             Continue(i, [Copy(i, k) EXCEPT !.recovered = TRUE]), UNCHANGED checks
      PROVE  OncePerSecond' /\ ExactBooks'
  <2> DEFINE t == [Copy(i, k) EXCEPT !.recovered = TRUE]
  <2>1. /\ t.at = "update" /\ t.row = tasks[i].row /\ t.service = s /\ t.time = tasks[i].time
        /\ t.status = "healthy" /\ t.id = k /\ t.recovered = TRUE
        /\ t.failed = incidents[k].failed
    BY <1>1, <1>2, <1>6 DEF Tasks, Copy, Statuses
  <2>2. Move(i, t)
    BY <1>6 DEF Continue
  <2> HIDE DEF t
  <2>3. OncePerSecond'
    BY <1>1, <1>2, <1>6, <2>1, <2>2, GoesOn
  <2>4. /\ t.id \in Active(t.service)
        /\ t.failed = incidents[t.id].failed + Ahead(t)
        /\ t.recovered = (t.status = "healthy")
    <3>1. t.recovered = TRUE /\ (t.status = "healthy") = TRUE
      BY <2>1
    <3>2. t.failed = incidents[t.id].failed + Ahead(t) /\ t.id \in Active(t.service)
      BY <1>3, <2>1 DEF Ahead
    <3>3. QED
      BY <3>1, <3>2
  <2>5. t.at # "create"
    BY <2>1
  <2>6. ExactBooks'
    BY <1>2, <1>6, <2>2, <2>4, <2>5, CopyExact
  <2>7. QED
    BY <2>3, <2>6
<1>7. CASE tasks[i].status # "unhealthy" /\ Active(s) = {} /\ Done(i) /\ Processed(i)
  <2>1. OncePerSecond'
    BY <1>2, <1>7, GoneOn
  <2>2. Active(s)' = {}
    BY <1>2, <1>7 DEF Active
  <2>3. 0 \in Nat /\ 0 \notin DOMAIN incidents /\ incidents' = incidents
    BY <1>2 DEF TypeOK
  <2>4. ExactBooks'
    BY <1>1, <1>2, <1>7, <2>2, <2>3, DoneExact
  <2>5. QED
    BY <2>1, <2>4
<1>8. QED
  BY <1>1, <1>4, <1>5, <1>6, <1>7 DEF Detect

LEMMA CalmCreate ==
    ASSUME CalmHere, NEW i \in DOMAIN tasks, Create(i)
    PROVE  OncePerSecond' /\ ExactBooks'
<1>1. PICK s \in Services : tasks[i].service = s
  <2>1. tasks[i] \in Tasks
    BY DEF CalmHere, TypeOK
  <2>2. QED
    BY <2>1 DEF Tasks
<1>2. PICK n \in Nat : n = Len(incidents) + 1
  BY DEF CalmHere, TypeOK
<1> DEFINE e == [service |-> tasks[i].service, started |-> tasks[i].time,
                 recovered |-> FALSE, failed |-> 1]
<1>3. /\ tasks[i] \in Tasks /\ incidents \in Seq(Incidents) /\ tasks[i].at = "create"
      /\ tasks[i].at \in Working /\ tasks[i].status = "unhealthy"
      /\ TypeOK /\ RowsOK /\ OncePerSecond /\ ExactBooks
  BY DEF TypeOK, Create, Working, CalmHere, RowsOK
<1>4. /\ Done(i) /\ Processed(i) /\ incidents' = Append(incidents, e)
      /\ e \in Incidents /\ e.failed = 1 /\ e.service = s /\ e.recovered = FALSE
  BY <1>1, <1>3 DEF Create, Incidents, Tasks
<1> HIDE DEF e
<1>5. /\ DOMAIN incidents' = 1..n /\ DOMAIN incidents = 1..(n - 1)
      /\ \A k \in DOMAIN incidents : incidents'[k] = incidents[k]
      /\ incidents'[n] = e
  BY <1>2, <1>3, <1>4, SeqAppend
<1>6. /\ n \notin DOMAIN incidents /\ n \in DOMAIN incidents'
      /\ DOMAIN incidents \subseteq DOMAIN incidents'
      /\ \A k \in DOMAIN incidents' : k # n => k \in DOMAIN incidents
  BY <1>2, <1>5
<1>7. Active(s) = {}
  BY <1>1, <1>3 DEF ExactBooks, CopiesFresh
<1>8. Active(s)' = {n}
  <2>1. \A k \in DOMAIN incidents' : k # n => ~(incidents'[k].service = s /\ ~incidents'[k].recovered)
    BY <1>5, <1>6, <1>7 DEF Active
  <2>2. QED
    BY <1>4, <1>5, <1>6, <2>1 DEF Active
<1>9. ExactBooks'
  <2>1. incidents'[n].service = s /\ incidents'[n].failed = Ahead(tasks[i]) + 0
    BY <1>3, <1>4, <1>5 DEF Ahead
  <2>2. QED
    BY <1>1, <1>2, <1>3, <1>4, <1>5, <1>6, <1>8, <2>1, DoneExact
<1>10. QED
  BY <1>3, <1>4, <1>9, GoneOn

LEMMA CalmUpdate ==
    ASSUME CalmHere, NEW i \in DOMAIN tasks, Update(i)
    PROVE  OncePerSecond' /\ ExactBooks'
<1>1. PICK s \in Services : tasks[i].service = s
  <2>1. tasks[i] \in Tasks
    BY DEF CalmHere, TypeOK
  <2>2. QED
    BY <2>1 DEF Tasks
<1>2. PICK n : n = tasks[i].id
  OBVIOUS
<1> DEFINE e == [incidents[n] EXCEPT !.recovered = tasks[i].recovered,
                                     !.failed = tasks[i].failed]
<1>3. /\ tasks[i] \in Tasks /\ incidents \in Seq(Incidents) /\ tasks[i].at = "update"
      /\ tasks[i].at \in Working
      /\ TypeOK /\ RowsOK /\ OncePerSecond /\ ExactBooks
  BY DEF TypeOK, Update, Working, CalmHere
<1>4. /\ n \in Active(s) /\ tasks[i].failed = incidents[n].failed + Ahead(tasks[i])
      /\ tasks[i].recovered = (tasks[i].status = "healthy")
  BY <1>1, <1>2, <1>3 DEF ExactBooks, CopiesFresh
<1>5. /\ n \in DOMAIN incidents /\ incidents[n].service = s /\ n \in Nat
      /\ incidents[n] \in Incidents /\ incidents[n].failed \in Nat
  <2>1. n \in DOMAIN incidents /\ incidents[n].service = s
    BY <1>4 DEF Active
  <2>2. n \in Nat /\ incidents[n] \in Incidents
    BY <1>3, <2>1
  <2>3. QED
    BY <2>1, <2>2 DEF Incidents
<1>6. e.failed = tasks[i].failed /\ e.service = s /\ e.recovered = tasks[i].recovered
  BY <1>5 DEF Incidents
<1>7. Done(i) /\ Processed(i) /\ incidents' = [incidents EXCEPT ![n] = e]
  BY <1>2 DEF Update
<1> HIDE DEF e
<1>8. /\ DOMAIN incidents' = DOMAIN incidents
      /\ \A k \in DOMAIN incidents : k # n => incidents'[k] = incidents[k]
      /\ incidents'[n] = e
  BY <1>3, <1>5, <1>7
<1>9. \A k \in DOMAIN incidents : k # n =>
          ~(incidents[k].service = s /\ ~incidents[k].recovered)
  BY <1>3, <1>4 DEF ExactBooks, OneActive, Active
<1>10. tasks[i].status = "unhealthy" => Active(s)' = {n}
  BY <1>4, <1>5, <1>6, <1>8, <1>9 DEF Active
<1>11. tasks[i].status # "unhealthy" => Active(s)' = {}
  <2>1. tasks[i].status \in Statuses
    BY <1>3 DEF Tasks
  <2>2. tasks[i].status # "unhealthy" => tasks[i].status = "healthy"
    BY <2>1 DEF Statuses
  <2>3. tasks[i].status # "unhealthy" => incidents'[n].recovered
    BY <1>4, <1>6, <1>8, <2>2
  <2>4. QED
    BY <1>8, <1>9, <2>3 DEF Active
<1>12. ExactBooks'
  <2>1. /\ incidents'[n].service = s
        /\ incidents'[n].failed = Ahead(tasks[i]) + incidents[n].failed
    BY <1>4, <1>5, <1>6, <1>8 DEF Ahead
  <2>2. QED
    BY <1>1, <1>3, <1>5, <1>7, <1>8, <1>10, <1>11, <2>1, DoneExact
<1>13. QED
  BY <1>3, <1>7, <1>12, GoneOn

LEMMA CalmStep == ASSUME TypeOK, BookInv, OneLoop, CalmInv, [Next]_vars PROVE CalmInv'
<1>1. calm' = calm
  BY DEF Next, vars, Restart, StartRun, Stop, StopReturn, Tick, LoopStop, CheckServices,
     ListFails, TaskStep, Check, Save, Detect, Create, Update, TaskFails, Continue, Done, Move,
     ServiceCreate, ServiceDelete, ServiceGet, ServiceUpdate, TriggerGet, TriggerCheck,
     RequestFails, Request
<1> SUFFICES ASSUME calm PROVE OncePerSecond' /\ ExactBooks'
  BY <1>1 DEF CalmInv
<1>2. CalmHere
  BY DEF CalmHere, CalmInv, BookInv
<1>3. CASE Tick
  <2>1. OncePerSecond'
    BY <1>2, <1>3, NextSecond DEF CalmHere
  <2>2. UNCHANGED <<checks, incidents, tasks>>
    BY <1>3 DEF Tick, tables
  <2>3. QED
    BY <1>2, <2>1, <2>2, SameExact DEF CalmHere
<1>4. ASSUME NEW l \in DOMAIN loops, CheckServices(l) PROVE OncePerSecond' /\ ExactBooks'
  <2>1. OncePerSecond'
    BY <1>2, <1>4, BeginSecond DEF CalmHere
  <2>2. Due(l) \in SUBSET Services /\ Spawn(Due(l)) /\ UNCHANGED <<checks, incidents>>
    BY <1>4 DEF Due, TypeOK, CheckServices, tables
  <2>3. \A i \in DOMAIN tasks' : tasks'[i].at \in {"create", "update"} =>
            i \in DOMAIN tasks /\ tasks'[i] = tasks[i]
    BY <2>2, SpawnBegins
  <2>4. QED
    BY <1>2, <2>1, <2>2, <2>3, SameExact DEF CalmHere
<1>5. ASSUME NEW i \in DOMAIN tasks, Save(i) PROVE OncePerSecond' /\ ExactBooks'
  BY <1>2, <1>5, SaveSecond, SaveExact DEF CalmHere
<1>6. \A i : ~ListFails(i) /\ ~TaskFails(i)
  BY DEF ListFails, TaskFails
<1>7. QED
  BY <1>2, <1>3, <1>4, <1>5, <1>6, CalmLoops, CalmRequests, CalmCheck, CalmDetect,
     CalmCreate, CalmUpdate DEF Next, TaskStep

LEMMA CalmAlways == Spec => []CalmInv
<1>1. Init => CalmInv
  <2> SUFFICES ASSUME Init PROVE CalmInv
    OBVIOUS
  <2>1. tasks = <<>> /\ checks = <<>> /\ incidents = <<>> /\ loops = <<>> /\ client.at = "idle"
    BY DEF Init
  <2>2. Exact([c \in {} |-> 0])
    BY <2>1 DEF Exact
  <2>3. OncePerSecond /\ CopiesFresh /\ OneActive /\ Shown
    BY <2>1 DEF OncePerSecond, CopiesFresh, OneActive, Shown, Active, GetCurrent
  <2>4. QED
    BY <2>2, <2>3 DEF CalmInv, ExactBooks
<1>2. TypeOK /\ BookInv /\ LifeInv /\ CalmInv /\ [Next]_vars => CalmInv'
  BY CalmStep DEF LifeInv
<1>3. QED
  BY <1>1, <1>2, TypeCorrect, BooksAlways, LifeInvariant, PTL DEF Spec

(* incident_detector.go ProcessHealthCheck: checks of a service that do    *)
(* not overlap keep the books: one active incident at most, counts that    *)
(* are those of the failed checks, and an active incident if and only if   *)
(* the check that is shown is unhealthy.                                   *)
THEOREM BooksBalanced == Spec => []CalmLedger
<1>1. TypeOK /\ CalmInv => CalmLedger
  BY CalmBalanced
<1>2. QED
  BY <1>1, TypeCorrect, CalmAlways, PTL
=============================================================================
