-------------------------- MODULE MonitorProperties --------------------------
(***************************************************************************)
(* What the handlers of the health monitor answer, and that incidents and  *)
(* checks tell the same.                                                   *)
(***************************************************************************)
EXTENDS Monitor, Functions

(* GetLatest, and GET /services/{id}/health: a check of the greatest time. *)
GetCurrent(s) == { k \in DOMAIN checks :
    /\ checks[k].service = s
    /\ \A j \in DOMAIN checks :
          checks[j].service = s => checks[j].time <= checks[k].time }

(* GET /services/{id}/incidents *)
ListByService(s) == { k \in DOMAIN incidents : incidents[k].service = s }

(* GET /incidents/active *)
ListActive == { k \in DOMAIN incidents : ~incidents[k].recovered }

FailedChecks(s) == { k \in DOMAIN checks :
    /\ checks[k].service = s
    /\ checks[k].status = "unhealthy"
    /\ checks[k].processed }

Counted(s) ==
    FoldFunctionOnSet(LAMBDA x, n : x + n, 0,
                      [k \in DOMAIN incidents |-> incidents[k].failed],
                      ListByService(s))

-----------------------------------------------------------------------------
(* incident_detector.go: the incidents of a service never count more       *)
(* failed checks than the detector has seen, however checks overlap,       *)
(* overwrite one another's copies, fail half way or are cut off.           *)
NeverOvercounts ==
    \A s \in Services : Counted(s) <= Cardinality(FailedChecks(s))

(* incident_detector.go ProcessHealthCheck: checks of a service that do    *)
(* not overlap keep the books.  At most one incident is active, the counts *)
(* are those of the failed checks, and a service has an active incident if *)
(* and only if the check that is shown for it is unhealthy.                *)
CalmLedger == calm => \A s \in Services :
    LET active == ListActive \intersect ListByService(s)
    IN /\ Cardinality(active) <= 1
       /\ Counted(s) = Cardinality(FailedChecks(s))
       /\ \A k \in GetCurrent(s) : checks[k].processed =>
             (checks[k].status = "unhealthy" <=> active # {})
=============================================================================
