----------------------------- MODULE MCMonitor ------------------------------
(***************************************************************************)
(* A health monitor with one service: three checks that may overlap, or    *)
(* two with a failure and a Stop or a restart in between, or two with more *)
(* calls of Start and Stop.                                                *)
(***************************************************************************)
EXTENDS MonitorProperties

Overlaps == [time |-> 3, tasks |-> 3, calls |-> 1, requests |-> 2, failures |-> 0]
Failures == [time |-> 2, tasks |-> 2, calls |-> 2, requests |-> 2, failures |-> 1]
Lifecycle == [time |-> 2, tasks |-> 2, calls |-> 4, requests |-> 1, failures |-> 1]

MCLimits == {Overlaps, Failures, Lifecycle}
=============================================================================
