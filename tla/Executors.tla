------------------------------ MODULE Executors ------------------------------
(***************************************************************************)
(* executor.go: the executors of a program and what they declare.          *)
(*                                                                         *)
(* Provide and Derive1..Derive9 fix the dependencies of an executor when   *)
(* it is made, out of executors made before, so nothing below ever changes *)
(* and an instance has no executor that depends on itself.                 *)
(***************************************************************************)
EXTENDS Integers, SequencesExt, Reachability

CONSTANTS
    Execs,     \* executors
    Eager,     \* Eager[e]: dependencies of e that are not lazy, in order
    Reactive,  \* Reactive[e]: those declared with Reactive()
    Reads      \* Reads[e]: those whose controllers the factory of e calls Get on

ASSUME ExecutorsAssumption ==
    /\ Eager \in [Execs -> Seq(Execs)]
    /\ Reads \in [Execs -> Seq(Execs)]
    /\ Reactive \in [Execs -> SUBSET Execs]

(* From a dependency to the executors that declare it reactive. *)
Declared == { edge \in Execs \X Execs : edge[1] \in Reactive[edge[2]] }

(* A factory reads every dependency it declares reactive. *)
ASSUME ReadsAssumption == \A e \in Execs : Reactive[e] \subseteq ToSet(Reads[e])

(* Executors made by Provide: their factories read nothing. *)
Sources == { e \in Execs : Reads[e] = <<>> }
=============================================================================
