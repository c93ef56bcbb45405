-------------------------------- MODULE Flow --------------------------------
(***************************************************************************)
(* scope.go Exec and flow.go Exec1, executeFlow: executions of flows.      *)
(*                                                                         *)
(* A client calls Exec once, with a context of its own.  Every execution   *)
(* has two sides that run at the same time: its caller, which waits for    *)
(* the factory or for the context, and the goroutine executeFlow starts    *)
(* for the factory.  The factory is not stopped when its caller stops      *)
(* waiting for it.                                                         *)
(*                                                                         *)
(* Exec1 makes a child of the execution whose ExecutionCtx it is given.    *)
(* The context is handed to the factory and returned to the caller, and    *)
(* whoever has it may pass it on: so a factory may call Exec1 on its own   *)
(* execution, on one of its children that has come back, as the package    *)
(* comment does, or on any other, and so may any other goroutine.          *)
(*                                                                         *)
(* Values are left out.  A panic counts as an error: both make executeFlow *)
(* return one.  The hooks of the extensions are one step at each place     *)
(* where they are called, which may fail.                                  *)
(***************************************************************************)
EXTENDS ExecutionTree

CONSTANTS
    Clients,   \* goroutines that call Exec
    Helpers,   \* goroutines besides the factories that call Exec1: clients
               \* that have a result, and what clients and factories start
    Endings,   \* how a context may end: a subset of {"cancelled", "deadline"}
    HooksFail  \* may OnFlowStart, OnFlowEnd and dependencies return errors?

ASSUME FlowAssumption ==
    /\ Ids = 1..Cardinality(Ids)
    /\ IsFiniteSet(Ids)
    /\ Endings \subseteq {"cancelled", "deadline"}
    /\ HooksFail \in BOOLEAN
    /\ Statuses = {"running", "success", "failed", "cancelled"}
    /\ Helpers \intersect (Ids \union {NoParent}) = {}

(* Who may call Exec1: the factory of an execution, which has its id, and  *)
(* the helpers.                                                            *)
Actors == Ids \union Helpers

VARIABLES
    ctx,     \* ctx[c]: "live", or how the context of c has ended
    client,  \* client[c]: where c is in Exec before there is an execution
    execs,   \* the executions made so far; their ids are their positions
    asks     \* asks[a]: where a is in Exec1

vars == <<ctx, client, execs, asks, nodes, byParent, roots>>

-----------------------------------------------------------------------------
(* at: where the caller is.  parent: the execution Exec1 was called on,    *)
(* and caller: who called it.  result: what its caller may still take from *)
(* resultCh.  outcome: the error executeFlow returned, if any.  status is  *)
(* data[statusTag].                                                        *)
Outcomes == {"none", "value", "error", "cancelled", "deadline"}

Executions == [
    client : Clients, parent : Ids \union {NoParent}, caller : Actors \union {NoParent},
    at : {"hooks", "enter", "wait", "finish", "cached", "record", "recorded",
          "returned"},
    factory : {"none", "run", "done"},
    result : Outcomes, outcome : Outcomes, status : Statuses ]

Made == 1..Len(execs)

Execution(c, parent, caller, at, status) ==
    [client |-> c, parent |-> parent, caller |-> caller, at |-> at,
     factory |-> "none", result |-> "none", outcome |-> "none", status |-> status]

(* "deps" is inside Exec1 before the child exists, "mark" where Exec1      *)
(* writes the cancellation into the data of the execution it was given,    *)
(* and "child" where its caller waits for the child.                       *)
Asks == [at : {"none", "deps", "mark", "child"}, on : Ids \union {NoParent}]

Asking(at, x) == [at |-> at, on |-> x]
NoAsk == Asking("none", NoParent)

Finished(x) == execs[x].at \in {"recorded", "returned"}

Ended(x) == ctx[execs[x].client] # "live"

Reason(x) == ctx[execs[x].client]

(* Somebody has the context of x: its factory, or its caller.  The hooks,  *)
(* which are shown it before, make no executions.                          *)
Out(x) == execs[x].factory # "none" \/ Finished(x)

Init ==
    /\ ctx = [c \in Clients |-> "live"]
    /\ client = [c \in Clients |-> "idle"]
    /\ execs = <<>>
    /\ asks = [a \in Actors |-> NoAsk]
    /\ TreeInit

-----------------------------------------------------------------------------
(* The context of a client ends. *)
End(c) ==
    /\ ctx[c] = "live"
    /\ \E how \in Endings : ctx' = [ctx EXCEPT ![c] = how]
    /\ UNCHANGED <<client, execs, asks, treeVars>>

(* Ids bounds the number of executions; what a client still needs is kept. *)
HasRoom == Len(execs) < Cardinality(Ids)

Reserved == Cardinality({ c \in Clients : client[c] # "done" })

HasRoomForChild == HasRoom /\ Len(execs) + Reserved < Cardinality(Ids)

(* Exec: an ended context is seen before anything else. *)
Call(c) ==
    /\ client[c] = "idle"
    /\ ctx[c] = "live"
    /\ client' = [client EXCEPT ![c] = "deps"]
    /\ UNCHANGED <<ctx, execs, asks, treeVars>>

(* Seen at the start or before a dependency, it makes an execution that    *)
(* nobody records.                                                         *)
CallCancelled(c) ==
    /\ client[c] \in {"idle", "deps"}
    /\ ctx[c] # "live"
    /\ HasRoom
    /\ execs' = Append(execs, Execution(c, NoParent, NoParent, "returned", "cancelled"))
    /\ client' = [client EXCEPT ![c] = "done"]
    /\ UNCHANGED <<ctx, asks, treeVars>>

(* A dependency cannot be resolved: there is no execution. *)
CallFailed(c) ==
    /\ HooksFail
    /\ client[c] = "deps"
    /\ client' = [client EXCEPT ![c] = "done"]
    /\ UNCHANGED <<ctx, execs, asks, treeVars>>

(* Exec: the execution is made, with status running. *)
Launch(c) ==
    /\ client[c] = "deps"
    /\ HasRoom
    /\ execs' = Append(execs, Execution(c, NoParent, NoParent, "hooks", "running"))
    /\ client' = [client EXCEPT ![c] = "done"]
    /\ UNCHANGED <<ctx, asks, treeVars>>

-----------------------------------------------------------------------------
(* The caller of execution x. *)

Move(x, e) == execs' = [execs EXCEPT ![x] = e]

(* The caller has it back, and if it was in Exec1 goes on. *)
Returned(x, e) ==
    /\ Move(x, e)
    /\ asks' = IF e.caller = NoParent THEN asks ELSE [asks EXCEPT ![e.caller] = NoAsk]

(* OnFlowStart fails: the execution is returned and not recorded. *)
StartFails(x) ==
    /\ HooksFail
    /\ execs[x].at = "hooks"
    /\ Returned(x, [execs[x] EXCEPT !.at = "returned", !.status = "failed"])
    /\ UNCHANGED <<ctx, client, treeVars>>

(* So it is when the context has ended after the hooks. *)
StartCancelled(x) ==
    /\ execs[x].at = "hooks"
    /\ Ended(x)
    /\ Returned(x, [execs[x] EXCEPT !.at = "returned", !.status = "cancelled"])
    /\ UNCHANGED <<ctx, client, treeVars>>

Enter(x) ==
    /\ execs[x].at = "hooks"
    /\ ~Ended(x)
    /\ Move(x, [execs[x] EXCEPT !.at = "enter"])
    /\ UNCHANGED <<ctx, client, asks, treeVars>>

(* Exec1: a hook asked for the execution to be skipped and gave a cached   *)
(* output.                                                                 *)
Skip(x) ==
    /\ execs[x].at = "hooks"
    /\ execs[x].parent # NoParent
    /\ ~Ended(x)
    /\ Move(x, [execs[x] EXCEPT !.at = "cached", !.status = "success"])
    /\ UNCHANGED <<ctx, client, asks, treeVars>>

(* A bug: after recording a skipped execution Exec1 runs it all the same.  *)
CachedFallsThrough(x) ==
    /\ execs[x].at = "cached"
    /\ addNode([id |-> x, parent |-> execs[x].parent, status |-> execs[x].status])
    /\ Move(x, [execs[x] EXCEPT !.at = "enter"])
    /\ UNCHANGED <<ctx, client, asks>>

(* OnFlowEnd of a skipped execution: an error keeps it out of the tree. *)
CachedEnd(x) ==
    /\ execs[x].at = "cached"
    /\ \/ /\ Move(x, [execs[x] EXCEPT !.at = "record"])
          /\ UNCHANGED asks
       \/ /\ HooksFail
          /\ Returned(x, [execs[x] EXCEPT !.at = "returned", !.status = "failed"])
    /\ UNCHANGED <<ctx, client, treeVars>>

(* executeFlow: an ended context is seen before the factory is started. *)
EnterCancelled(x) ==
    /\ execs[x].at = "enter"
    /\ Ended(x)
    /\ Move(x, [execs[x] EXCEPT !.at = "finish", !.outcome = Reason(x),
                                !.status = "cancelled"])
    /\ UNCHANGED <<ctx, client, asks, treeVars>>

Start(x) ==
    /\ execs[x].at = "enter"
    /\ ~Ended(x)
    /\ Move(x, [execs[x] EXCEPT !.at = "wait", !.factory = "run"])
    /\ UNCHANGED <<ctx, client, asks, treeVars>>

(* The select: the factory's result, or the end of the context. *)
Receive(x) ==
    /\ execs[x].at = "wait"
    /\ execs[x].result # "none"
    /\ Move(x, [execs[x] EXCEPT !.at = "finish", !.outcome = execs[x].result,
                                !.result = "none"])
    /\ UNCHANGED <<ctx, client, asks, treeVars>>

(* A bug: executeFlow waits for the factory although the context has ended. *)
GiveUpWithResult(x) ==
    /\ execs[x].at = "wait"
    /\ Ended(x)
    /\ execs[x].result # "none"
    /\ Move(x, [execs[x] EXCEPT !.at = "finish", !.outcome = Reason(x),
                                !.result = "none", !.status = "cancelled"])
    /\ UNCHANGED <<ctx, client, asks, treeVars>>

GiveUp(x) ==
    /\ execs[x].at = "wait"
    /\ Ended(x)
    /\ Move(x, [execs[x] EXCEPT !.at = "finish", !.outcome = Reason(x),
                                !.result = "none", !.status = "cancelled"])
    /\ UNCHANGED <<ctx, client, asks, treeVars>>

(* A bug: every error is a failure. *)
FinalStatusTwoWay(outcome) == IF outcome = "value" THEN "success" ELSE "failed"

(* A bug: the error itself becomes the status. *)
FinalStatusRaw(outcome) == IF outcome = "value" THEN "success" ELSE outcome

(* The status after executeFlow: only context.Canceled counts as cancelled. *)
FinalStatus(outcome) ==
    CASE outcome = "value" -> "success"
      [] outcome = "cancelled" -> "cancelled"
      [] OTHER -> "failed"

Finish(x) ==
    /\ execs[x].at = "finish"
    /\ Move(x, [execs[x] EXCEPT !.at = "record", !.status = FinalStatus(execs[x].outcome)])
    /\ UNCHANGED <<ctx, client, asks, treeVars>>

(* OnFlowEnd, finalize and addNode; then the caller has the result.  An    *)
(* error of OnFlowEnd is returned but not recorded.                        *)
Record(x) ==
    /\ execs[x].at = "record"
    /\ addNode([id |-> x, parent |-> execs[x].parent, status |-> execs[x].status])
    /\ Returned(x, [execs[x] EXCEPT !.at = "recorded"])
    /\ UNCHANGED <<ctx, client>>

-----------------------------------------------------------------------------
(* The goroutine of the factory of execution x.  It may return the error   *)
(* of its context, or of one it derived from it or made, ended or not.     *)
(* When nobody waits any more its result stays in resultCh, unseen.        *)
FactoryReturn(x) ==
    /\ execs[x].factory = "run"
    /\ asks[x].at = "none"
    /\ \E result \in Outcomes \ {"none"} :
          Move(x, [execs[x] EXCEPT !.factory = "done",
                       !.result = IF execs[x].at = "wait" THEN result ELSE "none"])
    /\ UNCHANGED <<ctx, client, asks, treeVars>>

-----------------------------------------------------------------------------
(* Exec1, called by a on the context of execution x.  The caller is in one *)
(* call at a time.                                                         *)
MayAsk(a) ==
    /\ asks[a].at = "none"
    /\ a \in Ids => a \in Made /\ execs[a].factory = "run"

Go(a, ask) == asks' = [asks EXCEPT ![a] = ask]

(* The context is checked first, and before each dependency. *)
Ask(a, x) ==
    /\ MayAsk(a)
    /\ Out(x)
    /\ Go(a, Asking("deps", x))
    /\ UNCHANGED <<ctx, client, execs, treeVars>>

AskCancelled(a) ==
    /\ asks[a].at = "deps"
    /\ Ended(asks[a].on)
    /\ Go(a, Asking("mark", asks[a].on))
    /\ UNCHANGED <<ctx, client, execs, treeVars>>

(* The execution that was to be the parent is marked as cancelled, by the  *)
(* goroutine of a and whatever has become of the execution.                *)
Mark(a) ==
    /\ asks[a].at = "mark"
    /\ Move(asks[a].on, [execs[asks[a].on] EXCEPT !.status = "cancelled"])
    /\ Go(a, NoAsk)
    /\ UNCHANGED <<ctx, client, treeVars>>

(* A dependency cannot be resolved. *)
AskFailed(a) ==
    /\ HooksFail
    /\ asks[a].at = "deps"
    /\ Go(a, NoAsk)
    /\ UNCHANGED <<ctx, client, execs, treeVars>>

Child(a) == Execution(execs[asks[a].on].client, asks[a].on, a, "hooks", "running")

(* A bug: Exec1 does not wait for the child. *)
LaunchChildOnly(a) ==
    /\ asks[a].at = "deps"
    /\ HasRoomForChild
    /\ execs' = Append(execs, Child(a))
    /\ Go(a, NoAsk)
    /\ UNCHANGED <<ctx, client, treeVars>>

LaunchChild(a) ==
    /\ asks[a].at = "deps"
    /\ HasRoomForChild
    /\ execs' = Append(execs, Child(a))
    /\ Go(a, Asking("child", asks[a].on))
    /\ UNCHANGED <<ctx, client, treeVars>>

-----------------------------------------------------------------------------
ClientStep(c) == CallCancelled(c) \/ CallFailed(c) \/ Launch(c)

CallerStep(x) ==
    \/ StartFails(x)
    \/ StartCancelled(x)
    \/ Enter(x)
    \/ Skip(x)
    \/ CachedEnd(x)
    \/ EnterCancelled(x)
    \/ Start(x)
    \/ Receive(x)
    \/ GiveUp(x)
    \/ Finish(x)
    \/ Record(x)

AskStep(a) ==
    \/ AskCancelled(a)
    \/ Mark(a)
    \/ AskFailed(a)
    \/ LaunchChild(a)

(* Every client has called, every context has ended and every goroutine    *)
(* has returned.                                                           *)
AllReturned ==
    /\ \A c \in Clients : client[c] = "done" /\ ctx[c] # "live"
    /\ \A x \in Made : Finished(x) /\ execs[x].factory \in {"none", "done"}
    /\ \A a \in Actors : asks[a] = NoAsk
    /\ UNCHANGED vars

Next ==
    \/ \E c \in Clients : End(c) \/ Call(c) \/ ClientStep(c)
    \/ \E x \in Made : CallerStep(x) \/ FactoryReturn(x)
    \/ \E a \in Actors : AskStep(a) \/ \E x \in Made : Ask(a, x)
    \/ AllReturned

Spec == Init /\ [][Next]_vars

(* A goroutine inside Exec or Exec1 is scheduled again, and the hooks and  *)
(* the dependencies it waits for come back.  Nothing is assumed of         *)
(* factories: they may ignore their context and never return.              *)
Fairness ==
    /\ \A c \in Clients : WF_vars(ClientStep(c))
    /\ \A x \in Ids : WF_vars(x \in Made /\ CallerStep(x))
    /\ \A a \in Actors : WF_vars(AskStep(a))
=============================================================================
