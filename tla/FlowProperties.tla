--------------------------- MODULE FlowProperties ---------------------------
(***************************************************************************)
(* What is true of executions and of the tree that remembers them.         *)
(***************************************************************************)
EXTENDS Flow

(* Every variable stays in its type (flow.go 42-48, 107-128). *)
TypeOK ==
    /\ ctx \in [Clients -> {"live"} \union Endings]
    /\ client \in [Clients -> {"idle", "deps", "done"}]
    /\ execs \in Seq(Executions)
    /\ Len(execs) <= Cardinality(Ids)
    /\ asks \in [Actors -> Asks]
    /\ TreeTypeOK

(* As long as its context lives an execution comes back after everything   *)
(* its own factory started on its context.  What others start there, and   *)
(* what the factory starts elsewhere, may come later (flow.go 440,         *)
(* 509-533).                                                               *)
ChildrenFirst ==
    \A x, y \in Made :
        execs[y].caller = x /\ Finished(x) /\ ~Ended(x) => Finished(y)

(* A node of the tree is listed under its parent, so that it leaves the    *)
(* tree with it.  Where the parent's own factory made it and the context   *)
(* lives, the parent is there too once it has come back: no root is        *)
(* evicted before what its factories made is complete (flow.go 139-176).   *)
NoOrphans ==
    \A n \in nodes : n.parent # NoParent =>
        /\ n.id \in ToSet(byParent[n.parent])
        /\ execs[n.id].caller = n.parent /\ Finished(n.parent) /\ ~Ended(n.id)
              => n.parent \in Recorded

(* The tree and the caller agree: an execution is recorded as a success    *)
(* only if its caller got a value, the factory's or the one it was skipped *)
(* for, and as a failure only if it got an error other than that of a      *)
(* cancellation.  It is recorded as cancelled although the caller got      *)
(* something else only if its context ended while it was being recorded,   *)
(* when somebody else called Exec1 on it (flow.go 323-325, 420-432,        *)
(* scope.go 496-506).                                                      *)
Skipped(e) == e.factory = "none" /\ e.outcome = "none"

StatusHonest ==
    \A n \in nodes :
        LET e == execs[n.id]
        IN  \/ n.status = "success" /\ (e.outcome = "value" \/ Skipped(e))
            \/ n.status = "failed" /\ e.outcome \in {"error", "deadline"}
            \/ n.status = "cancelled"
                  /\ (e.outcome \in {"cancelled", "deadline"} \/ Ended(n.id))

(* Exec comes back once its context has ended, whatever the factories do   *)
(* (flow.go 509-540).                                                      *)
Busy(c) ==
    \/ client[c] = "deps"
    \/ \E x \in Made : /\ execs[x].parent = NoParent
                       /\ execs[x].client = c
                       /\ ~Finished(x)

CancelReturns == \A c \in Clients : (Busy(c) /\ ctx[c] # "live") ~> ~Busy(c)

(* So does Exec1, on whatever execution it was called (flow.go 316-360,    *)
(* 509-540).                                                               *)
Asked(a) == asks[a].at # "none"

Exec1Returns == \A a \in Actors : (Asked(a) /\ Ended(asks[a].on)) ~> ~Asked(a)

-----------------------------------------------------------------------------
(* What the repository says and the code does not do.                      *)

(* doc.go 290: all operations are thread-safe.  Nobody writes to the data  *)
(* of an execution (a Go map) in Exec1 while its caller writes to it or    *)
(* copies it (flow.go 323-325, 100-102).                                   *)
NoDataRace ==
    \A x \in Made, a \in Actors :
        ~(asks[a] = Asking("mark", x) /\ execs[x].at \in {"finish", "record"})
=============================================================================
