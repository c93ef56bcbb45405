------------------------------- MODULE MCScope -------------------------------
(***************************************************************************)
(* Instances of Scope for TLC.  Each is a small program: who depends on    *)
(* whom, and which factories open something.                               *)
(***************************************************************************)
EXTENDS ScopeProperties, TLC

CONSTANTS src, mid, top, side, alt  \* executors

(* A chain: top reads mid reactively, mid reads src reactively.            *)
ChainEager == (src :> <<>>) @@ (mid :> <<src>>) @@ (top :> <<mid>>)
ChainReactive == (src :> {}) @@ (mid :> {src}) @@ (top :> {mid})

(* A diamond: top reads mid and side reactively, both read src: mid        *)
(* reactively, side as a static dependency.                                *)
DiamondEager == (src :> <<>>) @@ (mid :> <<src>>) @@ (side :> <<src>>)
                @@ (top :> <<mid, side>>)
DiamondReactive == (src :> {}) @@ (mid :> {src}) @@ (side :> {})
                   @@ (top :> {mid, side})

(* Presets: side is preset to a value and mid, which reads src, replaced   *)
(* by alt, which reads it too; top reads all three.                        *)
PresetEager == (src :> <<>>) @@ (mid :> <<src>>) @@ (side :> <<>>)
               @@ (alt :> <<src>>) @@ (top :> <<src, mid, side>>)
PresetReactive == (src :> {}) @@ (mid :> {src}) @@ (side :> {})
                  @@ (alt :> {}) @@ (top :> {src, mid, side})
PresetReplacement == mid :> alt

NoReplacement == [e \in {} |-> src]

Symmetric == Permutations(Procs)
=============================================================================
