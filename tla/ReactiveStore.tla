---------------------------- MODULE ReactiveStore ----------------------------
(***************************************************************************)
(* What a scope promises its callers: a cache of executors in which        *)
(* resolving an executor and updating a source each take effect at once.   *)
(*                                                                         *)
(* A filled value is computed from the values of what its factory reads,   *)
(* and an update empties everything that depends on the source through     *)
(* reactive dependencies, so that it is computed again.  Scope implements  *)
(* this when the callers keep updates apart from other calls.              *)
(***************************************************************************)
EXTENDS Executors

CONSTANT Stamps  \* what tells two updates apart

VARIABLE value   \* value[e]: what the value of e was computed from, {} if none

(* <<e, 0>> says that the factory of e took part, <<e, stamp>> an update. *)
VersionsOf(stamps) == Execs \X ({0} \union stamps)

Init == value = [e \in Execs |-> {}]

Computed(e) == {<<e, 0>>} \union UNION { value[d] : d \in ToSet(Reads[e]) }

(* The first resolution of e, or the first after it was invalidated. *)
Fill(e) ==
    /\ value[e] = {}
    /\ \A d \in ToSet(Reads[e]) : value[d] # {}
    /\ value' = [value EXCEPT ![e] = Computed(e)]

(* An update of the source e. *)
Put(e, stamp) ==
    /\ e \in Sources
    /\ value' = [x \in Execs |->
            IF x = e THEN {<<e, stamp>>}
            ELSE IF x \in Reach(Declared, Execs, e) THEN {}
            ELSE value[x]]

Next ==
    \/ \E e \in Execs : Fill(e)
    \/ \E e \in Execs, stamp \in Stamps : Put(e, stamp)

Spec == Init /\ [][Next]_value

(* A value is a set of factories and updates. *)
TypeOK == value \in [Execs -> SUBSET VersionsOf(Stamps)]

(* A value that is present was computed from the present value of every    *)
(* reactive dependency: nobody reads a derived value older than what it    *)
(* was derived from (executor.go 52-53, scope.go 262-264).                 *)
Fresh ==
    \A e \in Execs : value[e] # {} =>
        \A d \in Reactive[e] : value[d] # {} /\ value[d] \subseteq value[e]
=============================================================================
