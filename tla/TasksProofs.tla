----------------------------- MODULE TasksProofs -----------------------------
(***************************************************************************)
(* Proofs about Tasks, for any number of processes.                        *)
(***************************************************************************)
EXTENDS Tasks, TLAPS

(* The next number is the number of no task there is. *)
LEMMA NextUnique ==
    ASSUME NEW tasks \in SUBSET Task, Unique(tasks),
           NEW id \in Ids, IsNext(id, tasks),
           NEW t \in Task, t.id = id
    PROVE  Unique(tasks \union {t})
  <1>1. \A u \in tasks : u.id < id
    BY DEF IsNext
  <1>2. \A u \in tasks : u.id # id
    BY <1>1, TasksAssumption DEF Task
  <1> QED BY <1>2 DEF Unique

(* Replacing the task of a number leaves one of that number. *)
LEMMA ReplacedUnique ==
    ASSUME NEW tasks \in SUBSET Task, Unique(tasks), NEW t \in Task
    PROVE  Unique(Replaced(tasks, t))
  BY DEF Unique, Replaced

LEMMA CompletedTask ==
    ASSUME NEW t \in Task
    PROVE  /\ Completed(t) \in Task
           /\ Completed(t).id = t.id
           /\ Completed(t).title = t.title
           /\ Completed(t).done
  BY DEF Completed, Task

-----------------------------------------------------------------------------
(* Whoever is going to save or to replace a task has one. *)
Saving(p) == at[p] \in {"truncate", "write"}

Replacing(p) == at[p] = "load" /\ cmd[p] = "complete"

Held == \A p \in Procs : Saving(p) \/ Replacing(p) => task[p] \in Task

LEMMA LoadedTasks ==
    ASSUME TypeOK
    PROVE  Loaded \in SUBSET Task
  BY DEF TypeOK, Loaded, Files

LEMMA AddTask ==
    ASSUME TypeOK, NEW p \in Procs, Add(p)
    PROVE  \E id \in Ids : \E t \in Task :
              /\ IsNext(id, Loaded)
              /\ t.id = id
              /\ task' = [task EXCEPT ![p] = t]
              /\ Save(p, Loaded \union {t})
  <1>1. PICK id \in Ids :
            /\ IsNext(id, Loaded)
            /\ LET new == [id |-> id, title |-> p, done |-> FALSE]
               IN /\ task' = [task EXCEPT ![p] = new]
                  /\ Save(p, Loaded \union {new})
    BY DEF Add
  <1> DEFINE new == [id |-> id, title |-> p, done |-> FALSE]
  <1>2. new \in Task /\ new.id = id
    BY DEF Task
  <1> QED BY <1>1, <1>2

LEMMA TypeStep ==
    ASSUME TypeOK, Held, [Next]_vars
    PROVE  TypeOK' /\ Held'
  <1> USE DEF Saving, Replacing
  <1>1. Loaded \in SUBSET Task
    BY LoadedTasks
  <1>2. ASSUME NEW p \in Procs,
               Start(p) \/ LoadFails(p) \/ Read(p) \/ Crash(p)
        PROVE  TypeOK' /\ Held'
    BY <1>2 DEF TypeOK, Held, Start, LoadFails, Read, Crash, End
  <1>3. ASSUME NEW p \in Procs, Add(p)
        PROVE  TypeOK' /\ Held'
    <2>1. PICK t \in Task : /\ task' = [task EXCEPT ![p] = t]
                            /\ Save(p, Loaded \union {t})
      BY <1>3, AddTask
    <2> QED BY <1>1, <1>3, <2>1 DEF TypeOK, Held, Add, Save
  <1>4. ASSUME NEW p \in Procs, Get(p)
        PROVE  TypeOK' /\ Held'
    <2>1. CASE \E t \in Loaded : /\ task' = [task EXCEPT ![p] = Completed(t)]
                                 /\ at' = [at EXCEPT ![p] = "load"]
      BY <1>1, <1>4, <2>1, CompletedTask DEF TypeOK, Held, Get
    <2>2. CASE End(p) /\ UNCHANGED task
      BY <1>4, <2>2 DEF TypeOK, Held, Get, End
    <2> QED BY <1>4, <2>1, <2>2 DEF Get
  <1>5. ASSUME NEW p \in Procs, Update(p)
        PROVE  TypeOK' /\ Held'
    <2>1. task[p] \in Task
      BY <1>5 DEF Update, Held
    <2>2. Replaced(Loaded, task[p]) \in SUBSET Task
      BY <1>1, <2>1 DEF Replaced
    <2>3. CASE Save(p, Replaced(Loaded, task[p]))
      BY <1>5, <2>1, <2>2, <2>3 DEF TypeOK, Held, Update, Save
    <2>4. CASE End(p) /\ acked' = acked \union {task[p]} /\ UNCHANGED pending
      BY <1>5, <2>1, <2>4 DEF TypeOK, Held, Update, End
    <2> QED BY <1>5, <2>3, <2>4 DEF Update
  <1>6. ASSUME NEW p \in Procs, Truncate(p) \/ Write(p) \/ WriteFails(p)
        PROVE  TypeOK' /\ Held'
    BY <1>6 DEF TypeOK, Held, Truncate, Write, WriteFails, End, File, Files
  <1>7. CASE UNCHANGED vars
    BY <1>7 DEF TypeOK, Held, vars
  <1> QED BY <1>2, <1>3, <1>4, <1>5, <1>6, <1>7 DEF Next

LEMMA TypeInv == Spec => [](TypeOK /\ Held)
  <1>1. Init => TypeOK /\ Held
    BY DEF Init, TypeOK, Held, Files, File, Saving, Replacing
  <1> QED BY <1>1, TypeStep, PTL DEF Spec

(* Every variable keeps its type, in every interleaving of the commands.   *)
THEOREM TypeCorrect == Spec => []TypeOK
  BY TypeInv, PTL
-----------------------------------------------------------------------------
(* What a process will save has one task of every number, too. *)
PendingUnique == \A p \in Procs : Saving(p) => Unique(pending[p])

UniqueInv == IdsUnique /\ PendingUnique

LEMMA UniqueStep ==
    ASSUME TypeOK, Held, UniqueInv, [Next]_vars
    PROVE  UniqueInv'
  <1> USE DEF Saving
  <1>1. Loaded \in SUBSET Task
    BY LoadedTasks
  <1>2. Unique(Loaded)
    BY DEF UniqueInv, IdsUnique, Loaded, Unique
  <1>3. ASSUME NEW p \in Procs, NEW tasks, Unique(tasks), Save(p, tasks),
               UNCHANGED file
        PROVE  UniqueInv'
    <2>1. IdsUnique'
      BY <1>3 DEF UniqueInv, IdsUnique
    <2>2. ASSUME NEW q \in Procs, Saving(q)'
          PROVE  Unique(pending'[q])
      <3>1. CASE q = p
        BY <1>3, <3>1 DEF TypeOK, Save
      <3>2. CASE q # p
        BY <1>3, <2>2, <3>2 DEF UniqueInv, PendingUnique, TypeOK, Save
      <3> QED BY <3>1, <3>2
    <2> QED BY <2>1, <2>2 DEF UniqueInv, PendingUnique, Unique
  <1>4. ASSUME NEW p \in Procs,
               \/ Start(p) \/ LoadFails(p) \/ Read(p) \/ Get(p) \/ Crash(p)
        PROVE  UniqueInv'
    <2>1. UNCHANGED <<file, pending>>
      BY <1>4 DEF Start, LoadFails, Read, Get, Crash
    <2>2. \A q \in Procs : Saving(q)' => Saving(q)
      BY <1>4 DEF TypeOK, Start, LoadFails, Read, Get, Crash, End
    <2> QED BY <2>1, <2>2 DEF UniqueInv, IdsUnique, PendingUnique, Unique
  <1>5. ASSUME NEW p \in Procs, Add(p)
        PROVE  UniqueInv'
    <2>1. PICK id \in Ids, t \in Task : /\ IsNext(id, Loaded)
                                        /\ t.id = id
                                        /\ Save(p, Loaded \union {t})
      BY <1>5, AddTask
    <2>2. Unique(Loaded \union {t})
      BY <1>1, <1>2, <2>1, NextUnique
    <2>3. UNCHANGED file
      BY <1>5 DEF Add
    <2> QED BY <1>3, <2>1, <2>2, <2>3
  <1>6. ASSUME NEW p \in Procs, Update(p)
        PROVE  UniqueInv'
    <2>1. UNCHANGED file
      BY <1>6 DEF Update
    <2>2. CASE Save(p, Replaced(Loaded, task[p]))
      <3>1. task[p] \in Task
        BY <1>6 DEF Update, Held, Replacing
      <3>2. Unique(Replaced(Loaded, task[p]))
        BY <1>1, <1>2, <3>1, ReplacedUnique
      <3> QED BY <1>3, <2>1, <2>2, <3>2
    <2>3. CASE End(p) /\ UNCHANGED pending
      <3>1. \A q \in Procs : Saving(q)' => Saving(q)
        BY <2>3 DEF TypeOK, End
      <3> QED BY <2>1, <2>3, <3>1 DEF UniqueInv, IdsUnique, PendingUnique,
                                      Unique
    <2> QED BY <1>6, <2>2, <2>3 DEF Update
  <1>7. ASSUME NEW p \in Procs, Truncate(p) \/ Write(p) \/ WriteFails(p)
        PROVE  UniqueInv'
    <2>1. UNCHANGED pending
      BY <1>7 DEF Truncate, Write, WriteFails
    <2>2. \A q \in Procs : Saving(q)' => Saving(q)
      BY <1>7 DEF TypeOK, Truncate, Write, WriteFails, End
    <2>3. Saving(p)
      BY <1>7 DEF Truncate, Write, WriteFails
    <2>4. \/ file'.tasks = {}
          \/ file'.tasks = pending[p]
          \/ UNCHANGED file
      BY <1>7 DEF Truncate, Write, WriteFails, File
    <2> QED BY <2>1, <2>2, <2>3, <2>4 DEF UniqueInv, IdsUnique, PendingUnique,
                                          Unique
  <1>8. CASE UNCHANGED vars
    BY <1>8 DEF UniqueInv, IdsUnique, PendingUnique, Unique, vars
  <1> QED BY <1>4, <1>5, <1>6, <1>7, <1>8 DEF Next

LEMMA UniqueInvariant == Spec => []UniqueInv
  <1>1. Init => UniqueInv
    BY DEF Init, UniqueInv, IdsUnique, PendingUnique, Unique, File, Saving
  <1> QED BY <1>1, UniqueStep, TypeInv, PTL DEF Spec

(* storage.go Add and Update: no list of the file ever holds two tasks of  *)
(* one number, whatever processes overlap, crash and overwrite.            *)
THEOREM NumbersUnique == Spec => []IdsUnique
  BY UniqueInvariant, PTL DEF UniqueInv

-----------------------------------------------------------------------------
(* storage.go load: an unreadable file stays as it is for good, once       *)
(* nobody is left who was about to write it.                               *)
THEOREM BrokenForGood == Spec => StaysBroken
  <1>1. TypeOK /\ [Next]_vars => (Broken => Broken' /\ file' = file)
    <2> SUFFICES ASSUME TypeOK, [Next]_vars, Broken
                 PROVE  Broken' /\ file' = file
      OBVIOUS
    <2>1. ~Readable
      BY DEF Broken, Readable
    <2>2. ASSUME NEW p \in Procs, Start(p) \/ LoadFails(p) \/ Crash(p)
          PROVE  Broken' /\ file' = file
      BY <2>2 DEF TypeOK, Broken, Start, LoadFails, Crash, End
    <2>3. ASSUME NEW p \in Procs, Read(p) \/ Add(p) \/ Get(p) \/ Update(p)
          PROVE  FALSE
      BY <2>1, <2>3 DEF Read, Add, Get, Update
    <2>4. ASSUME NEW p \in Procs, Truncate(p) \/ Write(p) \/ WriteFails(p)
          PROVE  FALSE
      BY <2>4 DEF Broken, Truncate, Write, WriteFails
    <2>5. CASE UNCHANGED vars
      BY <2>5 DEF Broken, vars
    <2> QED BY <2>2, <2>3, <2>4, <2>5 DEF Next
  <1> QED BY <1>1, TypeCorrect, PTL DEF Spec, StaysBroken
-----------------------------------------------------------------------------
(* Kept apart, a process finds the file as it has read it, so that what it *)
(* will save has all that was reported before.                             *)
In(t, tasks) == \E u \in tasks :
    u.id = t.id /\ u.title = t.title /\ (t.done => u.done)

Apart == \A p, q \in Procs : Running(p) /\ Running(q) => p = q

Fetched == \A p \in Procs :
    Replacing(p) => \E u \in Loaded : task[p] = Completed(u)

SavesAll == \A p \in Procs :
    Saving(p) => \A t \in acked \union {task[p]} : In(t, pending[p])

KeptInv ==
    /\ \A p \in Procs : Saving(p) => kind = "file"
    /\ exclusive => Apart /\ Fetched /\ SavesAll
    /\ KeptUnlessTorn

(* Completing a task in a list of unique numbers keeps what the list had.  *)
LEMMA ReplacedKeeps ==
    ASSUME NEW tasks \in SUBSET Task, Unique(tasks),
           NEW u \in tasks, NEW t \in Task, In(t, tasks)
    PROVE  /\ In(t, Replaced(tasks, Completed(u)))
           /\ In(Completed(u), Replaced(tasks, Completed(u)))
  <1> DEFINE c == Completed(u)
  <1>1. c.id = u.id /\ c.title = u.title /\ c.done /\ c \in Task
    BY CompletedTask
  <1>2. c \in Replaced(tasks, c)
    BY DEF Replaced
  <1>3. In(c, Replaced(tasks, c))
    BY <1>2 DEF In
  <1>4. PICK v \in tasks : v.id = t.id /\ v.title = t.title /\ (t.done => v.done)
    BY DEF In
  <1>5. CASE v.id = u.id
    <2>1. v = u
      BY <1>5 DEF Unique
    <2> QED BY <1>1, <1>2, <1>3, <1>4, <2>1 DEF In
  <1>6. CASE v.id # u.id
    <2>1. v \in Replaced(tasks, c)
      BY <1>1, <1>6 DEF Replaced
    <2> QED BY <1>3, <1>4, <2>1 DEF In
  <1> QED BY <1>5, <1>6

LEMMA KeptStep ==
    ASSUME TypeOK, Held, UniqueInv, KeptInv, [Next]_vars
    PROVE  KeptInv'
  <1> USE DEF Saving, Replacing
  <1>1. Loaded \in SUBSET Task /\ Unique(Loaded)
    BY LoadedTasks DEF UniqueInv, IdsUnique, Loaded, Unique
  <1>2. CASE UNCHANGED vars
    BY <1>2 DEF KeptInv, Apart, Running, Fetched, Loaded, SavesAll, In,
                KeptUnlessTorn, Holds, vars
  <1>3. ASSUME NEW p \in Procs, Start(p)
        PROVE  KeptInv'
    <2>1. UNCHANGED <<kind, exclusive, file, task, pending, acked>>
      BY <1>3 DEF Start
    <2>2. \A q \in Procs : /\ Saving(q)' => Saving(q)
                           /\ Replacing(q)' => Replacing(q)
                           /\ Running(q)' => q = p \/ Running(q)
      BY <1>3 DEF TypeOK, Start, End, Running
    <2>3. exclusive => \A q \in Procs : ~Running(q)
      BY <1>3 DEF Start
    <2>4. exclusive' => Apart' /\ Fetched' /\ SavesAll'
      BY <2>1, <2>2, <2>3 DEF KeptInv, Apart, Fetched, Loaded, SavesAll, In
    <2> QED BY <2>1, <2>2, <2>4 DEF KeptInv, KeptUnlessTorn, Holds
  <1>4. ASSUME NEW p \in Procs, LoadFails(p) \/ Read(p) \/ Crash(p)
        PROVE  KeptInv'
    <2>1. UNCHANGED <<kind, exclusive, file, cmd, task, pending, acked>>
      BY <1>4 DEF LoadFails, Read, Crash
    <2>2. \A q \in Procs : /\ Saving(q)' => Saving(q)
                           /\ Replacing(q)' => Replacing(q)
                           /\ Running(q)' => Running(q)
      BY <1>4 DEF TypeOK, LoadFails, Read, Crash, End, Running
    <2> QED BY <2>1, <2>2 DEF KeptInv, Apart, Fetched, Loaded, SavesAll, In,
                              KeptUnlessTorn, Holds
  (* From here on p runs: kept apart, it is the only one. *)
  <1>5. ASSUME NEW p \in Procs, Running(p), exclusive, exclusive',
               \A q \in Procs : q # p => at'[q] = at[q],
               \/ Running(p)' /\ (Replacing(p)' =>
                                    \E u \in Loaded' : task'[p] = Completed(u))
                              /\ (Saving(p)' =>
                                    \A t \in acked' \union {task'[p]} :
                                        In(t, pending'[p]))
               \/ ~Running(p)'
        PROVE  Apart' /\ Fetched' /\ SavesAll'
    <2>1. \A q \in Procs : q # p => ~Running(q)'
      BY <1>5 DEF KeptInv, Apart, Running
    <2> QED BY <1>5, <2>1 DEF Apart, Fetched, SavesAll, Running, In
  <1>6. ASSUME NEW p \in Procs, Get(p)
        PROVE  KeptInv'
    <2>1. UNCHANGED <<kind, exclusive, file, cmd, pending, acked>>
      BY <1>6 DEF Get
    <2>2. CASE \E t \in Loaded : /\ task' = [task EXCEPT ![p] = Completed(t)]
                                 /\ at' = [at EXCEPT ![p] = "load"]
      <3>1. \A q \in Procs : Saving(q)' => Saving(q)
        BY <2>2 DEF TypeOK
      <3>2. Running(p) /\ at'[p] = "load" /\ Running(p)'
        BY <1>6, <2>2 DEF Get, Running, TypeOK
      <3>3. \E u \in Loaded' : task'[p] = Completed(u)
        BY <2>1, <2>2 DEF TypeOK, Loaded
      <3>4. exclusive' => Apart' /\ Fetched' /\ SavesAll'
        BY <1>5, <2>1, <2>2, <3>2, <3>3 DEF TypeOK
      <3> QED BY <2>1, <3>1, <3>4 DEF KeptInv, KeptUnlessTorn, Holds
    <2>3. CASE End(p) /\ UNCHANGED task
      <3>1. \A q \in Procs : /\ Saving(q)' => Saving(q)
                             /\ Replacing(q)' => Replacing(q)
                             /\ Running(q)' => Running(q)
        BY <2>1, <2>3 DEF TypeOK, End, Running
      <3> QED BY <2>1, <2>3, <3>1 DEF KeptInv, Apart, Fetched, Loaded,
                                      SavesAll, In, KeptUnlessTorn, Holds
    <2> QED BY <1>6, <2>2, <2>3 DEF Get
  <1>7. ASSUME NEW p \in Procs, at[p] = "load", NEW tasks, Readable,
               Save(p, tasks), UNCHANGED <<kind, exclusive, file, cmd>>,
               exclusive /\ kind = "file" =>
                   \A t \in acked \union {task'[p]} : In(t, tasks)
        PROVE  KeptInv'
    <2>1. \A q \in Procs : q # p => at'[q] = at[q]
      BY <1>7 DEF Save, TypeOK
    <2>2. /\ Running(p)
          /\ pending'[p] = tasks
          /\ at'[p] = IF kind = "file" THEN "truncate" ELSE "done"
          /\ acked' = acked
      BY <1>7 DEF Save, TypeOK, Running
    <2>3. \A q \in Procs : Saving(q)' => kind' = "file"
      BY <1>7, <2>1, <2>2 DEF KeptInv
    <2>4. exclusive' => Apart' /\ Fetched' /\ SavesAll'
      BY <1>5, <1>7, <2>1, <2>2 DEF Running
    <2> QED BY <1>7, <2>2, <2>3, <2>4 DEF KeptInv, KeptUnlessTorn, Holds
  <1>8. ASSUME Readable, kind = "file", exclusive
        PROVE  /\ Loaded = file.tasks
               /\ \A t \in acked : In(t, Loaded)
    BY <1>8 DEF KeptInv, KeptUnlessTorn, Holds, In, Loaded, Readable
  <1>9. ASSUME NEW p \in Procs, Add(p)
        PROVE  KeptInv'
    <2>1. PICK t \in Task : /\ task' = [task EXCEPT ![p] = t]
                            /\ Save(p, Loaded \union {t})
      BY <1>9, AddTask
    <2>2. task'[p] = t
      BY <2>1 DEF TypeOK
    <2>3. exclusive /\ kind = "file" =>
              \A u \in acked \union {task'[p]} : In(u, Loaded \union {t})
      BY <1>8, <1>9, <2>2 DEF Add, In
    <2> QED BY <1>7, <1>9, <2>1, <2>3 DEF Add
  <1>10. ASSUME NEW p \in Procs, Update(p)
         PROVE  KeptInv'
    <2>1. /\ at[p] = "load" /\ Replacing(p) /\ Readable
          /\ UNCHANGED <<kind, exclusive, file, cmd, task>>
      BY <1>10 DEF Update
    <2>2. exclusive => \E u \in Loaded : task[p] = Completed(u)
      BY <2>1 DEF KeptInv, Fetched
    <2>3. CASE \E u \in Loaded : u.id = task[p].id
      <3>1. Save(p, Replaced(Loaded, task[p]))
        BY <1>10, <2>3 DEF Update
      <3>2. ASSUME exclusive, kind = "file"
            PROVE  \A t \in acked \union {task'[p]} :
                       In(t, Replaced(Loaded, task[p]))
        <4>1. PICK u \in Loaded : task[p] = Completed(u)
          BY <2>2, <3>2
        <4>2. \A t \in acked : In(t, Loaded) /\ t \in Task
          BY <1>8, <2>1, <3>2 DEF TypeOK
        <4>3. u \in Task /\ In(u, Loaded)
          BY <1>1 DEF In
        <4>4. \A t \in acked : In(t, Replaced(Loaded, Completed(u)))
          BY <1>1, <4>2, ReplacedKeeps
        <4>5. In(Completed(u), Replaced(Loaded, Completed(u)))
          BY <1>1, <4>3, ReplacedKeeps
        <4> QED BY <2>1, <4>1, <4>4, <4>5
      <3> QED BY <1>7, <2>1, <3>1, <3>2
    <2>4. CASE ~ \E u \in Loaded : u.id = task[p].id
      <3>1. ~exclusive
        BY <1>1, <2>2, <2>4, CompletedTask
      <3>2. End(p)
        BY <1>10, <2>4 DEF Update
      <3>3. \A q \in Procs : Saving(q)' => Saving(q)
        BY <3>2 DEF TypeOK, End
      <3> QED BY <2>1, <3>1, <3>3 DEF KeptInv, KeptUnlessTorn
    <2> QED BY <2>3, <2>4
  <1>11. ASSUME NEW p \in Procs, Truncate(p)
         PROVE  KeptInv'
    <2>1. /\ UNCHANGED <<kind, exclusive, cmd, task, pending, acked>>
          /\ file'.state = "empty"
          /\ at' = [at EXCEPT ![p] = "write"]
          /\ Saving(p)
      BY <1>11 DEF Truncate, File
    <2>2. /\ Running(p) /\ Running(p)' /\ ~Replacing(p)'
          /\ \A q \in Procs : q # p => at'[q] = at[q]
          /\ \A q \in Procs : Saving(q)' => Saving(q)
      BY <2>1 DEF TypeOK, Running
    <2>3. exclusive => \A t \in acked' \union {task'[p]} : In(t, pending'[p])
      BY <2>1 DEF KeptInv, SavesAll
    <2>4. exclusive' => Apart' /\ Fetched' /\ SavesAll'
      BY <1>5, <2>1, <2>2, <2>3
    <2> QED BY <2>1, <2>2, <2>4 DEF KeptInv, KeptUnlessTorn
  <1>12. ASSUME NEW p \in Procs, Write(p) \/ WriteFails(p)
         PROVE  KeptInv'
    <2>1. /\ UNCHANGED <<kind, exclusive, cmd, task, pending>>
          /\ End(p) /\ Saving(p)
      BY <1>12 DEF Write, WriteFails
    <2>2. /\ Running(p) /\ ~Running(p)'
          /\ \A q \in Procs : q # p => at'[q] = at[q]
          /\ \A q \in Procs : Saving(q)' => Saving(q)
      BY <2>1 DEF TypeOK, Running, End
    <2>3. exclusive' => Apart' /\ Fetched' /\ SavesAll'
      BY <1>5, <2>1, <2>2
    <2>4. KeptUnlessTorn'
      <3>1. CASE file'.state = "torn"
        BY <3>1 DEF KeptUnlessTorn
      <3>2. CASE UNCHANGED file /\ UNCHANGED acked
        BY <2>1, <3>2 DEF KeptInv, KeptUnlessTorn, Holds
      <3>3. CASE file'.tasks = pending[p] /\ acked' = acked \union {task[p]}
        BY <2>1, <3>3 DEF KeptInv, SavesAll, In, KeptUnlessTorn, Holds
      <3> QED BY <1>12, <3>1, <3>2, <3>3 DEF Write, WriteFails, File
    <2> QED BY <2>1, <2>2, <2>3, <2>4 DEF KeptInv
  <1> QED BY <1>2, <1>3, <1>4, <1>6, <1>9, <1>10, <1>11, <1>12 DEF Next

(* storage.go: as long as processes do not overlap, a readable file holds  *)
(* all that commands have reported, whatever crashes and writes that fail. *)
THEOREM KeptApart == Spec => []KeptUnlessTorn
  <1>1. Init => KeptInv
    BY DEF Init, KeptInv, Apart, Fetched, SavesAll, Running, Saving,
           Replacing, KeptUnlessTorn
  <1> QED BY <1>1, KeptStep, TypeInv, UniqueInvariant, PTL DEF Spec, KeptInv
=============================================================================
