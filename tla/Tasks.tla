-------------------------------- MODULE Tasks --------------------------------
(***************************************************************************)
(* examples/cli-tasks: a task list, one process for every command.         *)
(*                                                                         *)
(* A process builds a scope of its own, resolves one service and calls it  *)
(* once.  FileStorage locks a mutex of its own process, so that only the   *)
(* file is shared: it is read whole, changed in memory, truncated and      *)
(* written again, and another process, a crash or a failing write may come *)
(* between any two of these.  MemoryStorage, which Config asks for, starts *)
(* empty in every process.                                                 *)
(***************************************************************************)
EXTENDS Naturals, FiniteSets

CONSTANTS
    NoTask, \* no task yet
    Procs,  \* processes; the title of a task is the process that added it
    Ids     \* the numbers a task may get; bounds the search for the next one

ASSUME TasksAssumption == Ids \subseteq Nat \ {0}

VARIABLES
    kind,       \* what Config asks for: "memory" or "file"
    exclusive,  \* does somebody see to it that processes do not overlap?
    file,       \* tasks.json
    at,         \* at[p]: the next thing process p does
    cmd,        \* cmd[p]: its command
    task,       \* task[p]: the task it adds or completes
    pending,    \* pending[p]: what it is about to save
    acked       \* what commands on the file have reported as added or completed

vars == <<kind, exclusive, file, at, cmd, task, pending, acked>>

-----------------------------------------------------------------------------
Task == [id : Ids, title : Procs, done : BOOLEAN]

(* "empty" is a truncated file, "torn" one that is not a list of tasks.    *)
Files == [state : {"missing", "whole", "empty", "torn"}, tasks : SUBSET Task]

File(state, tasks) == [state |-> state, tasks |-> tasks]

Running(p) == at[p] \notin {"idle", "done", "crashed"}

Init ==
    /\ kind \in {"memory", "file"}
    /\ exclusive \in BOOLEAN
    /\ file = File("missing", {})
    /\ at = [p \in Procs |-> "idle"]
    /\ cmd = [p \in Procs |-> "none"]
    /\ task = [p \in Procs |-> NoTask]
    /\ pending = [p \in Procs |-> {}]
    /\ acked = {}

-----------------------------------------------------------------------------
(* A bug: a truncated file counts as an empty list. *)
ReadableOrEmpty == kind = "memory" \/ file.state # "torn"

(* load: no file is an empty list, and so is a new MemoryStorage; what     *)
(* json.Unmarshal refuses is an error of the command.                      *)
Readable == kind = "memory" \/ file.state \in {"missing", "whole"}

Loaded == IF kind = "file" THEN file.tasks ELSE {}

End(p) == at' = [at EXCEPT ![p] = "done"]

(* What a store keeps is saved: a file is written, memory has it already   *)
(* and the process that owns the memory ends.                              *)
Save(p, tasks) ==
    /\ pending' = [pending EXCEPT ![p] = tasks]
    /\ at' = [at EXCEPT ![p] = IF kind = "file" THEN "truncate" ELSE "done"]
    /\ UNCHANGED acked

(* main: a command starts.  Without the argument it needs, or with a name  *)
(* nobody knows, it ends before anything is resolved.                      *)
Start(p) ==
    /\ at[p] = "idle"
    /\ exclusive => \A q \in Procs : ~Running(q)
    /\ \/ \E c \in {"add", "read"} :
            /\ cmd' = [cmd EXCEPT ![p] = c]
            /\ at' = [at EXCEPT ![p] = "load"]
       \/ /\ cmd' = [cmd EXCEPT ![p] = "complete"]
          /\ at' = [at EXCEPT ![p] = "get"]
       \/ End(p) /\ UNCHANGED cmd
    /\ UNCHANGED <<kind, exclusive, file, task, pending, acked>>

LoadFails(p) ==
    /\ at[p] \in {"get", "load"}
    /\ ~Readable
    /\ End(p)
    /\ UNCHANGED <<kind, exclusive, file, cmd, task, pending, acked>>

(* List and GetStats: one load, whose answer is shown. *)
Read(p) ==
    /\ at[p] = "load"
    /\ cmd[p] = "read"
    /\ Readable
    /\ End(p)
    /\ UNCHANGED <<kind, exclusive, file, cmd, task, pending, acked>>

(* A bug: the search for the next number stops one too early. *)
IsLast(id, tasks) ==
    /\ \A t \in tasks : t.id <= id
    /\ id = 1 \/ \E t \in tasks : t.id = id

(* FileStorage.Add: the number after the greatest there is. *)
IsNext(id, tasks) ==
    /\ \A t \in tasks : t.id < id
    /\ id = 1 \/ \E t \in tasks : t.id = id - 1

Add(p) ==
    /\ at[p] = "load"
    /\ cmd[p] = "add"
    /\ Readable
    /\ \E id \in Ids :
          /\ IsNext(id, Loaded)
          /\ LET new == [id |-> id, title |-> p, done |-> FALSE]
             IN /\ task' = [task EXCEPT ![p] = new]
                /\ Save(p, Loaded \union {new})
    /\ UNCHANGED <<kind, exclusive, file, cmd>>

(* TaskService.Complete: the task is looked up in one load ... *)
Completed(t) == [t EXCEPT !.done = TRUE]

Get(p) ==
    /\ at[p] = "get"
    /\ Readable
    /\ \E id \in Ids :
          \/ \E t \in Loaded :
                /\ t.id = id
                /\ task' = [task EXCEPT ![p] = Completed(t)]
                /\ at' = [at EXCEPT ![p] = "load"]
          \/ /\ \A t \in Loaded : t.id # id
             /\ End(p)
             /\ UNCHANGED task
    /\ UNCHANGED <<kind, exclusive, file, cmd, pending, acked>>

(* A bug: the list is cut off behind the task. *)
ReplacedUpTo(tasks, t) == { u \in tasks : u.id < t.id } \union {t}

(* ... and replaces the one that has its number in another.  When there is *)
(* none any more nothing is saved, and the command reports the completion  *)
(* all the same.                                                           *)
Replaced(tasks, t) == { u \in tasks : u.id # t.id } \union {t}

Update(p) ==
    /\ at[p] = "load"
    /\ cmd[p] = "complete"
    /\ Readable
    /\ IF \E t \in Loaded : t.id = task[p].id
       THEN Save(p, Replaced(Loaded, task[p]))
       ELSE /\ End(p)
            /\ acked' = acked \union {task[p]}
            /\ UNCHANGED pending
    /\ UNCHANGED <<kind, exclusive, file, cmd, task>>

(* save: os.WriteFile opens the file, which truncates it ... *)
Truncate(p) ==
    /\ at[p] = "truncate"
    /\ file' = File("empty", {})
    /\ at' = [at EXCEPT ![p] = "write"]
    /\ UNCHANGED <<kind, exclusive, cmd, task, pending, acked>>

(* ... and writes from its first byte.  If another process has written in  *)
(* between, and more, the rest of what it wrote follows.                   *)
Write(p) ==
    /\ at[p] = "write"
    /\ \/ file' = File("whole", pending[p])
       \/ file.state # "empty" /\ file' = File("torn", {})
    /\ acked' = acked \union {task[p]}
    /\ End(p)
    /\ UNCHANGED <<kind, exclusive, cmd, task, pending>>

(* The write fails, perhaps half way, and the command with it. *)
WriteFails(p) ==
    /\ at[p] = "write"
    /\ \/ UNCHANGED file
       \/ file' = File("torn", {})
    /\ End(p)
    /\ UNCHANGED <<kind, exclusive, cmd, task, pending, acked>>

(* A process is killed. *)
Crash(p) ==
    /\ Running(p)
    /\ at' = [at EXCEPT ![p] = "crashed"]
    /\ UNCHANGED <<kind, exclusive, file, cmd, task, pending, acked>>

Next == \E p \in Procs :
    \/ Start(p) \/ LoadFails(p) \/ Read(p) \/ Add(p) \/ Get(p) \/ Update(p)
    \/ Truncate(p) \/ Write(p) \/ WriteFails(p) \/ Crash(p)

Spec == Init /\ [][Next]_vars

-----------------------------------------------------------------------------
TypeOK ==
    /\ kind \in {"memory", "file"}
    /\ exclusive \in BOOLEAN
    /\ file \in Files
    /\ at \in [Procs -> {"idle", "get", "load", "truncate", "write", "done",
                         "crashed"}]
    /\ cmd \in [Procs -> {"none", "add", "read", "complete"}]
    /\ task \in [Procs -> Task \union {NoTask}]
    /\ pending \in [Procs -> SUBSET Task]
    /\ acked \in SUBSET Task

Unique(tasks) == \A t, u \in tasks : t.id = u.id => t = u

(* storage.go Add and Update: however the processes overlap, crash and     *)
(* overwrite one another, no list ever holds two tasks of one number.      *)
IdsUnique == Unique(file.tasks)

Holds(t) == \E u \in file.tasks :
    u.id = t.id /\ u.title = t.title /\ (t.done => u.done)

(* storage.go: as long as processes do not overlap, what a command         *)
(* reported is in the file, completions included, unless the file has      *)
(* become unreadable.                                                      *)
KeptUnlessTorn ==
    exclusive /\ file.state \in {"missing", "whole"} => \A t \in acked : Holds(t)

(* storage.go load: once a file is unreadable and nobody is about to write *)
(* it, no command ever gets as far as writing it: nothing repairs it, and  *)
(* nothing wipes what a user could still recover.                          *)
Broken ==
    /\ kind = "file"
    /\ file.state \in {"empty", "torn"}
    /\ \A p \in Procs : at[p] \notin {"truncate", "write"}

StaysBroken == [][Broken => Broken' /\ file' = file]_vars
=============================================================================
