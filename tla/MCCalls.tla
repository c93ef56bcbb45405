------------------------------- MODULE MCCalls -------------------------------
(***************************************************************************)
(* The calls of one scope, executors and flows one at a time: what callers *)
(* see who keep updates apart, and that calls come back.                   *)
(***************************************************************************)
EXTENDS MCScope

CONSTANTS Ids, Limit, Statuses, Clients, Helpers, Endings, HooksFail

VARIABLES ctx, client, execs, asks, nodes, byParent, roots, system

F == INSTANCE FlowProperties

flows == <<ctx, client, execs, asks, nodes, byParent, roots>>

MCIds == 1..2
MCStatuses == {"running", "success", "failed", "cancelled"}

MCInit == Init /\ F!Init /\ system \in {"executors", "flows"}

MCNext ==
    \/ system = "executors" /\ Next /\ UNCHANGED <<system, flows>>
    \/ system = "flows" /\ F!Next /\ UNCHANGED <<system, vars>>

MCSpec ==
    /\ MCInit /\ [][MCNext]_<<system, vars, flows>>
    /\ Fairness
    /\ F!Fairness

CancelReturns == F!CancelReturns
Exec1Returns == F!Exec1Returns
=============================================================================
