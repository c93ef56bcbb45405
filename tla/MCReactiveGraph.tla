--------------------------- MODULE MCReactiveGraph ---------------------------
(***************************************************************************)
(* Model checking ReactiveGraph: three executors, so that diamonds are     *)
(* missing but cycles, self-loops and shared dependents occur; two walkers *)
(* so that walks overlap; the writers change the graph MaxChanges times.   *)
(***************************************************************************)
EXTENDS GraphDebug
=============================================================================
