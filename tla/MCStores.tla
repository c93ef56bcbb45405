------------------------------ MODULE MCStores -------------------------------
(***************************************************************************)
(* The stores of two examples, one at a time: four commands on the task    *)
(* list of cli-tasks, or three requests, two of them at once, to http-api: *)
(* once a storage has been replaced, only two.                             *)
(***************************************************************************)
EXTENDS Tasks, Api

VARIABLE example

MCIds == 1..Cardinality(Procs)

MCInit ==
    /\ Init /\ ApiInit
    /\ \/ example = "cli-tasks"
       \/ example = "http-api" /\ kind = "memory" /\ exclusive

MCNext ==
    \/ example = "cli-tasks" /\ Next /\ UNCHANGED <<example, apiVars>>
    \/ /\ example = "http-api" /\ ApiNext
       /\ replaced => calls' < MaxCalls
       /\ UNCHANGED <<example, vars>>

MCSpec == MCInit /\ [][MCNext]_<<example, vars, apiVars>>

Symmetric == Permutations(Handlers) \union Permutations(Emails)
=============================================================================
