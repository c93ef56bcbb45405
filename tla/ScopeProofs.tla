----------------------------- MODULE ScopeProofs -----------------------------
(***************************************************************************)
(* What scope.go guarantees for any executors, any number of goroutines    *)
(* and any calls.                                                          *)
(*                                                                         *)
(* Whatever interleaves, every variable keeps its type, no error is        *)
(* cached, what a Resolve cached has all its reactive edges in the graph,  *)
(* and what a factory opened is not closed twice by Updates.  Linked is    *)
(* not inductive: a Resolve adds the edges long before it caches anything. *)
(* The invariant that is says the same of the frames on the stacks: past   *)
(* "link", the edges of a frame's executor are there.  They stay there     *)
(* because nothing in scope.go removes an edge.                            *)
(*                                                                         *)
(* The second part is about the values in the cache: none comes from a     *)
(* factory that a preset replaced; and while the callers keep updates      *)
(* apart, none is older than what it was derived from, no Resolve          *)
(* overwrites another value, the scope implements ReactiveStore, and what  *)
(* a value stands on is open and registered.  A value is made in many      *)
(* steps, by factories that call one another, so the invariants speak of   *)
(* whole stacks: which frame may wait for which (Awaits), what is known of *)
(* the frames that wait and what of the one that runs (Held).  How a call, *)
(* a return and a move keep such an invariant is said once; after that,    *)
(* only what is known of the frames.                                       *)
(***************************************************************************)
EXTENDS ScopeProperties, ReachabilityProofs, FiniteSetTheorems, TLAPS

-----------------------------------------------------------------------------
(* Stacks.                                                                 *)

(* What is below the top of a stack that is not empty, and the top.  *)
LEMMA StackTop ==
    ASSUME NEW F, NEW s \in Seq(F), s # <<>>
    PROVE  /\ Front(s) \in Seq(F)
           /\ Last(s) \in F
           /\ Len(s) # 1 => Front(s) # <<>>
<1>1. Len(s) \in Nat /\ Len(s) > 0 /\ s[Len(s)] \in F
  OBVIOUS
<1>2. Front(s) \in Seq(F) /\ Len(Front(s)) = Len(s) - 1
  <2> DEFINE n == Len(s) - 1
  <2>1. n \in Nat /\ n <= Len(s)
    BY <1>1
  <2> HIDE DEF n
  <2>2. SubSeq(s, 1, n) \in Seq(F) /\ Len(SubSeq(s, 1, n)) = n
    BY <2>1
  <2>3. QED
    BY <2>2 DEF n, Front
<1>3. QED
  BY <1>1, <1>2 DEF Last

(* Goto, Invoke and Return put frames on what is below the top. *)
LEMMA StackKept ==
    ASSUME NEW F, NEW s \in Seq(F), s # <<>>
    PROVE  /\ \A f \in F : Append(Front(s), f) \in Seq(F)
           /\ \A f, g \in F : Append(Append(Front(s), f), g) \in Seq(F)
           /\ Len(s) # 1 => /\ Last(Front(s)) \in F
                            /\ \A f \in F : Append(Front(Front(s)), f) \in Seq(F)
<1>1. Front(s) \in Seq(F) /\ (Len(s) # 1 => Front(s) # <<>>)
  BY StackTop
<1>2. Len(s) # 1 => Front(Front(s)) \in Seq(F) /\ Last(Front(s)) \in F
  BY <1>1, StackTop
<1>3. \A t \in Seq(F), f \in F : Append(t, f) \in Seq(F)
  OBVIOUS
<1>4. QED
  BY <1>1, <1>2, <1>3

-----------------------------------------------------------------------------
(* The inductive invariant.                                                *)

(* What a call may return: an error, or a value of a run that was made. *)
Returned == { v \in Values : v.run <= Len(runs) }

(* A frame holds what calls return; past "link" its executor is linked. *)
SoundFrames == { f \in Frames : /\ f.got \in Returned
                                /\ f.at \in {"deps", "store"} => IsLinked(f.exec) }

Shape ==
    /\ cache \in [Execs -> Values]
    /\ edges \subseteq Execs \X Execs
    /\ registry \in [Execs -> 0..Len(runs)]
    /\ runs \in Seq([exec : Execs, closed : Nat])
    /\ calls \in 0..MaxCalls
    /\ disposals \in 0..calls

CacheSound ==
    \A e \in Execs : cache[e].kind # "error" /\ cache[e] \in Returned

StacksSound == stack \in [Procs -> Seq(SoundFrames)]

JobsSound ==
    /\ job \in [Procs -> Jobs]
    /\ \A p \in Procs : job[p].version <= calls /\ job[p].held \subseteq 1..Len(runs)

IInv == Shape /\ CacheSound /\ StacksSound /\ JobsSound /\ Linked

(* Edges and runs are only ever added, so what is sound remains sound. *)
LEMMA SoundnessGrows ==
    ASSUME Shape, Shape', edges \subseteq edges', Len(runs) <= Len(runs')
    PROVE  /\ Returned \subseteq Returned'
           /\ SoundFrames \subseteq SoundFrames'
           /\ StacksSound => stack \in [Procs -> Seq(SoundFrames')]
           /\ \A e \in Execs : IsLinked(e) => IsLinked(e)'
<1>1. Len(runs) \in Nat /\ Len(runs') \in Nat
  BY DEF Shape
<1>2. Returned \subseteq Returned'
  BY <1>1 DEF Returned, Values
<1>3. \A e \in Execs : IsLinked(e) => IsLinked(e)'
  BY DEF IsLinked
<1>4. SoundFrames \subseteq SoundFrames'
  BY <1>2, <1>3 DEF SoundFrames, Frames
<1>5. StacksSound => stack \in [Procs -> Seq(SoundFrames')]
  BY <1>4 DEF StacksSound
<1>6. QED
  BY <1>2, <1>3, <1>4, <1>5

-----------------------------------------------------------------------------
(* Moves of a goroutine on its stack, for any set T of frames that holds   *)
(* the sound ones: below it is SoundFrames'.                               *)

(* The frames of a goroutine that is inside a call. *)
LEMMA TopSound ==
    ASSUME StacksSound, NEW p \in Procs, stack[p] # <<>>
    PROVE  /\ stack[p] \in Seq(SoundFrames)
           /\ Top(p) \in SoundFrames
           /\ Top(p) \in Frames
           /\ Top(p).exec \in Execs
           /\ Top(p).i \in Nat
           /\ Top(p).data \in SUBSET Versions
           /\ Top(p).got \in Returned
           /\ Top(p).got \in Values
           /\ Top(p).at \in {"deps", "store"} => IsLinked(Top(p).exec)
<1>1. stack[p] \in Seq(SoundFrames)
  BY DEF StacksSound
<1>2. Top(p) \in SoundFrames
  BY <1>1, StackTop DEF Top
<1>3. QED
  BY <1>1, <1>2 DEF SoundFrames, Frames, Returned

(* A goroutine that goes on in the same call, or makes another one. *)
LEMMA MoveSound ==
    ASSUME Shape, Shape', edges \subseteq edges', Len(runs) <= Len(runs'), StacksSound,
           NEW p \in Procs, stack[p] # <<>>, NEW f \in SoundFrames', NEW g \in SoundFrames',
           Goto(p, f) \/ Invoke(p, f, g)
    PROVE  StacksSound'
<1> DEFINE T == SoundFrames'
<1>1. stack \in [Procs -> Seq(T)]
  BY SoundnessGrows
<1>2. f \in T /\ g \in T
  OBVIOUS
<1> HIDE DEF T
<1>3. /\ Append(Front(stack[p]), f) \in Seq(T)
      /\ Append(Append(Front(stack[p]), f), g) \in Seq(T)
  BY <1>1, <1>2, StackKept
<1>4. stack' \in [Procs -> Seq(T)]
  BY <1>1, <1>3 DEF Goto, Invoke
<1>5. QED
  BY <1>4 DEF T, StacksSound

(* A goroutine that returns. *)
LEMMA ReturnSound ==
    ASSUME Shape, Shape', edges \subseteq edges', Len(runs) <= Len(runs'), StacksSound,
           NEW p \in Procs, stack[p] # <<>>, NEW v \in Returned', Return(p, v)
    PROVE  StacksSound'
<1> DEFINE s == stack[p]
           below == [Last(Front(s)) EXCEPT !.got = v]
           T == SoundFrames'
<1>1. stack \in [Procs -> Seq(T)] /\ s \in Seq(T)
  BY SoundnessGrows
<1>2. ASSUME Len(s) # 1 PROVE Append(Front(Front(s)), below) \in Seq(T)
  <2>1. Last(Front(s)) \in T
    <3> HIDE DEF T
    <3> QED BY <1>1, <1>2, StackKept
  <2>2. below \in T
    BY <2>1 DEF SoundFrames, Frames, Returned
  <2> HIDE DEF T, below
  <2>3. QED
    BY <1>1, <1>2, <2>2, StackKept
<1> HIDE DEF T
<1>3. (IF Len(s) = 1 THEN <<>> ELSE Append(Front(Front(s)), below)) \in Seq(T)
  BY <1>2
<1>4. stack' \in [Procs -> Seq(T)]
  BY <1>1, <1>3 DEF Return
<1>5. QED
  BY <1>4 DEF T, StacksSound

(* A goroutine that starts a call. *)
LEMMA StartSound ==
    ASSUME Shape, Shape', edges \subseteq edges', Len(runs) <= Len(runs'), StacksSound,
           NEW p \in Procs, NEW f \in SoundFrames',
           stack' = [stack EXCEPT ![p] = <<f>>]
    PROVE  StacksSound'
<1> DEFINE T == SoundFrames'
<1>1. stack \in [Procs -> Seq(T)] /\ f \in T
  BY SoundnessGrows
<1> HIDE DEF T
<1>2. stack' \in [Procs -> Seq(T)]
  BY <1>1
<1>3. QED
  BY <1>2 DEF T, StacksSound

(* The frames a call starts with. *)
LEMMA NewFrames ==
    ASSUME NEW e \in Execs, Shape
    PROVE  Resolve(e) \in SoundFrames /\ ResolveAny(e) \in SoundFrames
<1>1. NoValue \in Returned
  BY DEF Shape, NoValue, Value, Returned, Values, Kinds
<1>2. QED
  BY <1>1 DEF Resolve, ResolveAny, Frame, SoundFrames, Frames, Returned

-----------------------------------------------------------------------------
(* The calls and the steps.                                                *)

(* Initially nothing is cached, linked, registered or under way. *)
LEMMA InitSound == Init => IInv
<1> SUFFICES ASSUME Init PROVE IInv
  OBVIOUS
<1>1. Shape
  BY ScopeAssumption DEF Init, Shape, NoValue, Value, Values, Kinds
<1>2. CacheSound /\ Linked
  BY <1>1 DEF Init, Shape, CacheSound, Returned, NoValue, Value, Values, Kinds, Linked
<1>3. StacksSound
  BY DEF Init, StacksSound
<1>4. JobsSound
  BY ScopeAssumption DEF Init, JobsSound, NoJob, Jobs
<1>5. QED
  BY <1>1, <1>2, <1>3, <1>4 DEF IInv

(* When the cache, the graph and the runs stay as they are, so do the      *)
(* parts of the invariant about them.                                      *)
LEMMA Unchanged ==
    ASSUME IInv, Shape', UNCHANGED <<cache, edges, runs>>
    PROVE  /\ CacheSound'
           /\ Linked'
           /\ UNCHANGED job /\ calls <= calls' => JobsSound'
<1>1. CacheSound' /\ Linked'
  BY DEF IInv, CacheSound, Returned, Linked, IsLinked
<1>2. ASSUME UNCHANGED job, calls <= calls' PROVE JobsSound'
  <2>1. JobsSound /\ calls \in Nat /\ calls' \in Nat /\ UNCHANGED runs
    BY DEF IInv, Shape
  <2>2. \A p \in Procs : job[p].version \in Nat
    BY <2>1 DEF JobsSound, Jobs
  <2>3. QED
    BY <1>2, <2>1, <2>2 DEF JobsSound
<1>3. QED
  BY <1>1, <1>2

(* Reading the cache. *)
LEMMA LoadSound == ASSUME IInv, NEW p \in Procs, Load(p) PROVE IInv'
<1>1. stack[p] # <<>> /\ UNCHANGED <<cache, edges, registry, runs, job, calls, disposals>>
  BY DEF Load, At
<1>2. PICK f \in SoundFrames : f = Top(p) /\ f \in Frames /\ f.exec \in Execs
  BY <1>1, TopSound DEF IInv
<1>3. Shape'
  BY <1>1 DEF IInv, Shape
<1>4. CacheSound' /\ Linked' /\ JobsSound'
  BY <1>1, <1>3, Unchanged DEF IInv, Shape
<1>5. StacksSound'
  <2>1. /\ Shape /\ StacksSound /\ edges \subseteq edges' /\ Len(runs) <= Len(runs')
    BY <1>1 DEF IInv, Shape
  <2>2. f \in SoundFrames'
    BY <1>2, <1>3, <2>1, SoundnessGrows
  <2>3. CASE Return(p, cache[f.exec])
    <3>1. cache[f.exec] \in Returned
      BY <1>2 DEF IInv, CacheSound
    <3>2. PICK v \in Returned' : Return(p, v)
      BY <1>3, <2>1, <2>3, <3>1, SoundnessGrows
    <3>3. QED
      BY <1>1, <1>3, <2>1, <3>2, ReturnSound
  <2>4. CASE Goto(p, [f EXCEPT !.at = "link"])
    <3>1. [f EXCEPT !.at = "link"] \in SoundFrames'
      BY <1>2, <2>2 DEF SoundFrames, Frames
    <3>2. QED
      BY <1>1, <1>3, <2>1, <2>4, <3>1, MoveSound
  <2>5. QED
    BY <1>2, <2>3, <2>4 DEF Load
<1>6. QED
  BY <1>3, <1>4, <1>5 DEF IInv

(* Linking, and taking a preset. *)
LEMMA LinkSound == ASSUME IInv, NEW p \in Procs, Link(p) PROVE IInv'
<1>1. stack[p] # <<>> /\ UNCHANGED <<cache, registry, runs, job, calls, disposals>>
  BY DEF Link, At
<1>2. PICK f \in SoundFrames : f = Top(p) /\ f \in Frames /\ f.exec \in Execs
  BY <1>1, TopSound DEF IInv
<1> DEFINE e == f.exec
           got == Value("preset", 0, {<<e, PresetVersion>>})
<1>3. edges' = edges \union (Reactive[e] \X {e})
  BY <1>2 DEF Link
<1>4. Shape'
  BY <1>1, <1>2, <1>3, ExecutorsAssumption DEF IInv, Shape
<1>5. Shape /\ StacksSound /\ edges \subseteq edges' /\ Len(runs) <= Len(runs')
  BY <1>1, <1>3 DEF IInv, Shape
<1>6. CacheSound' /\ JobsSound'
  BY <1>1 DEF IInv, CacheSound, Returned, JobsSound
<1>7. Linked'
  BY <1>1, <1>4, <1>5, SoundnessGrows DEF IInv, Linked
<1>8. StacksSound'
  <2>1. f \in SoundFrames'
    BY <1>4, <1>5, SoundnessGrows
  <2>2. IsLinked(e)'
    BY <1>3 DEF IsLinked
  <2>3. CASE Goto(p, [f EXCEPT !.at = "store", !.got = got])
    <3>1. got \in Returned'
      BY <1>2, <1>4, ScopeAssumption
         DEF Shape, Value, Returned, Values, Kinds, Versions, PresetVersion
    <3>2. [f EXCEPT !.at = "store", !.got = got] \in SoundFrames'
      <4> HIDE DEF got
      <4> QED BY <1>2, <2>1, <2>2, <3>1 DEF SoundFrames, Frames, Returned
    <3>3. QED
      BY <1>1, <1>4, <1>5, <2>3, <3>2, MoveSound
  <2>4. CASE /\ e \in DOMAIN Replacement
             /\ Invoke(p, [f EXCEPT !.at = "store"], ResolveAny(Replacement[e]))
    <3>1. ResolveAny(Replacement[e]) \in SoundFrames'
      BY <1>4, <1>5, <2>4, ScopeAssumption, NewFrames, SoundnessGrows
    <3>2. [f EXCEPT !.at = "store"] \in SoundFrames'
      BY <1>2, <2>1, <2>2 DEF SoundFrames, Frames
    <3>3. QED
      BY <1>1, <1>4, <1>5, <2>4, <3>1, <3>2, MoveSound
  <2>5. CASE Goto(p, [f EXCEPT !.at = "deps"])
    <3>1. [f EXCEPT !.at = "deps"] \in SoundFrames'
      BY <1>2, <2>1, <2>2 DEF SoundFrames, Frames
    <3>2. QED
      BY <1>1, <1>4, <1>5, <2>5, <3>1, MoveSound
  <2>6. QED
    BY <1>2, <2>3, <2>4, <2>5 DEF Link
<1>9. QED
  BY <1>4, <1>6, <1>7, <1>8 DEF IInv

(* Running the dependencies and then the factory. *)
LEMMA PreResolveSound == ASSUME IInv, NEW p \in Procs, PreResolve(p) PROVE IInv'
<1>1. stack[p] # <<>> /\ UNCHANGED <<cache, edges, registry, runs, job, calls, disposals>>
  BY DEF PreResolve, At
<1>2. PICK f \in SoundFrames : f = Top(p) /\ f \in Frames /\ f.exec \in Execs /\ f.i \in Nat
  BY <1>1, TopSound DEF IInv
<1> DEFINE e == f.exec
<1>3. Shape'
  BY <1>1 DEF IInv, Shape
<1>4. CacheSound' /\ Linked' /\ JobsSound'
  BY <1>1, <1>3, Unchanged DEF IInv, Shape
<1>5. /\ Shape /\ StacksSound /\ edges \subseteq edges' /\ Len(runs) <= Len(runs')
  BY <1>1 DEF IInv, Shape
<1>6. /\ f.at = "deps"
      /\ \/ Return(p, Failure)
         \/ /\ f.i < Len(Eager[e])
            /\ Invoke(p, [f EXCEPT !.i = @ + 1, !.got = NoValue],
                      ResolveAny(Eager[e][f.i + 1]))
         \/ Invoke(p, [f EXCEPT !.at = "store", !.got = NoValue], ResolveAny(e))
  BY <1>2 DEF PreResolve, At
<1>7. NoValue \in Returned' /\ Failure \in Returned'
  BY <1>3 DEF NoValue, Failure, Value, Returned, Values, Kinds, Shape
<1>8. f \in SoundFrames' /\ IsLinked(e)'
  BY <1>1, <1>2, <1>3, <1>5, <1>6, SoundnessGrows DEF SoundFrames, IsLinked
<1>9. \A d \in Execs : ResolveAny(d) \in SoundFrames'
  BY <1>3, <1>5, NewFrames, SoundnessGrows
<1>10. StacksSound'
  <2>1. CASE Return(p, Failure)
    BY <1>1, <1>3, <1>5, <1>7, <2>1, ReturnSound
  <2>2. CASE /\ f.i < Len(Eager[e])
             /\ Invoke(p, [f EXCEPT !.i = @ + 1, !.got = NoValue],
                       ResolveAny(Eager[e][f.i + 1]))
    <3>1. Eager[e][f.i + 1] \in Execs
      BY <1>2, <2>2, ExecutorsAssumption
    <3>2. [f EXCEPT !.i = @ + 1, !.got = NoValue] \in SoundFrames'
      <4> DEFINE n == f.i + 1
      <4>1. n \in Nat
        BY <1>2
      <4> HIDE DEF n
      <4>2. [f EXCEPT !.i = n, !.got = NoValue] \in SoundFrames'
        BY <1>2, <1>7, <1>8, <4>1 DEF SoundFrames, Frames, Returned
      <4>3. QED
        BY <4>2 DEF n
    <3>3. QED
      BY <1>1, <1>3, <1>5, <1>9, <2>2, <3>1, <3>2, MoveSound
  <2>3. CASE Invoke(p, [f EXCEPT !.at = "store", !.got = NoValue], ResolveAny(e))
    <3>1. [f EXCEPT !.at = "store", !.got = NoValue] \in SoundFrames'
      BY <1>2, <1>7, <1>8 DEF SoundFrames, Frames, Returned
    <3>2. QED
      BY <1>1, <1>2, <1>3, <1>5, <1>9, <2>3, <3>1, MoveSound
  <2>4. QED
    BY <1>6, <2>1, <2>2, <2>3
<1>11. QED
  BY <1>3, <1>4, <1>10 DEF IInv

(* Caching a value: its executor was linked before. *)
LEMMA StoreValueSound == ASSUME IInv, NEW p \in Procs, StoreValue(p) PROVE IInv'
<1>1. stack[p] # <<>> /\ UNCHANGED <<edges, registry, runs, job, calls, disposals>>
  BY DEF StoreValue, At
<1>2. PICK f \in SoundFrames :
          /\ f = Top(p)
          /\ f.exec \in Execs
          /\ f.got \in Returned
          /\ f.at = "store"
          /\ IsLinked(f.exec)
  BY <1>1, TopSound DEF IInv, StoreValue, At
<1> DEFINE e == f.exec
           v == f.got
<1>3. /\ Return(p, v)
      /\ \/ v.kind = "error" /\ UNCHANGED cache
         \/ v.kind # "error" /\ cache' = [cache EXCEPT ![e] = v]
  BY <1>2 DEF StoreValue
<1>4. Shape'
  BY <1>1, <1>2, <1>3 DEF IInv, Shape, Returned
<1>5. /\ Shape /\ StacksSound /\ edges \subseteq edges' /\ Len(runs) <= Len(runs')
  BY <1>1 DEF IInv, Shape
<1>6. Returned' = Returned
  BY <1>1 DEF Returned
<1>7. CacheSound'
  BY <1>2, <1>3, <1>6 DEF IInv, Shape, CacheSound
<1>8. JobsSound'
  BY <1>1 DEF IInv, JobsSound
<1>9. Linked'
  BY <1>1, <1>2, <1>3 DEF IInv, Shape, Linked, IsLinked
<1>10. StacksSound'
  BY <1>1, <1>2, <1>3, <1>4, <1>5, <1>6, ReturnSound
<1>11. QED
  BY <1>4, <1>7, <1>8, <1>9, <1>10 DEF IInv

(* The factory asks for the next value it reads. *)
LEMMA FactoryGetSound == ASSUME IInv, NEW p \in Procs, FactoryGet(p) PROVE IInv'
<1>1. stack[p] # <<>> /\ UNCHANGED <<cache, edges, registry, runs, job, calls, disposals>>
  BY DEF FactoryGet, At
<1>2. PICK f \in SoundFrames :
          /\ f = Top(p)
          /\ f \in Frames
          /\ f.exec \in Execs
          /\ f.i \in Nat
          /\ f.data \union f.got.data \in SUBSET Versions
  BY <1>1, TopSound DEF IInv, Values
<1> DEFINE e == f.exec
           n == f.i + 1
           data == f.data \union f.got.data
           g == [f EXCEPT !.i = n, !.got = NoValue, !.data = data]
<1>3. Shape'
  BY <1>1 DEF IInv, Shape
<1>4. CacheSound' /\ Linked' /\ JobsSound'
  BY <1>1, <1>3, Unchanged DEF IInv, Shape
<1>5. /\ Shape /\ StacksSound /\ edges \subseteq edges' /\ Len(runs) <= Len(runs')
  BY <1>1 DEF IInv, Shape
<1>6. f.at = "gets" /\ f.i < Len(Reads[e]) /\ Invoke(p, g, Resolve(Reads[e][n]))
  BY <1>2 DEF FactoryGet, At, Gather
<1>7. NoValue \in Returned'
  BY <1>3 DEF NoValue, Value, Returned, Values, Kinds, Shape
<1>8. f \in SoundFrames'
  BY <1>3, <1>5, SoundnessGrows
<1>9. Resolve(Reads[e][n]) \in SoundFrames'
  <2>1. Reads[e][n] \in Execs
    BY <1>2, <1>6, ExecutorsAssumption
  <2>2. QED
    BY <1>3, <1>5, <2>1, NewFrames, SoundnessGrows
<1>10. g \in SoundFrames'
  <2>1. n \in Nat
    BY <1>2
  <2> HIDE DEF n, data
  <2>2. QED
    BY <1>2, <1>6, <1>7, <1>8, <2>1 DEF SoundFrames, Frames, Returned, data
<1> HIDE DEF g
<1>11. StacksSound'
  BY <1>1, <1>3, <1>5, <1>6, <1>9, <1>10, MoveSound
<1>12. QED
  BY <1>3, <1>4, <1>11 DEF IInv

(* The factory fails. *)
LEMMA FactoryFailSound == ASSUME IInv, NEW p \in Procs, FactoryFail(p) PROVE IInv'
<1>1. /\ stack[p] # <<>>
      /\ Return(p, Failure)
      /\ UNCHANGED <<cache, edges, registry, runs, job, calls, disposals>>
  BY DEF FactoryFail, At
<1>2. Shape'
  BY <1>1 DEF IInv, Shape
<1>3. CacheSound' /\ Linked' /\ JobsSound'
  BY <1>1, <1>2, Unchanged DEF IInv, Shape
<1>4. StacksSound'
  <2>1. Failure \in Returned'
    BY <1>2 DEF Failure, Value, Returned, Values, Kinds, Shape
  <2>2. /\ Shape /\ StacksSound /\ edges \subseteq edges' /\ Len(runs) <= Len(runs')
    BY <1>1 DEF IInv, Shape
  <2>3. QED
    BY <1>1, <1>2, <2>1, <2>2, ReturnSound
<1>5. QED
  BY <1>2, <1>3, <1>4 DEF IInv

(* The factory returns, perhaps with a run of cleanups. *)
LEMMA FactoryDoneSound == ASSUME IInv, NEW p \in Procs, FactoryDone(p) PROVE IInv'
<1>1. stack[p] # <<>> /\ UNCHANGED <<cache, edges, job, calls, disposals>>
  BY DEF FactoryDone, At
<1>2. PICK f \in SoundFrames :
          /\ f = Top(p)
          /\ f.exec \in Execs
          /\ f.data \union f.got.data \in SUBSET Versions
  BY <1>1, TopSound DEF IInv, Values
<1> DEFINE e == f.exec
           run == IF e \in Closers THEN Len(runs) + 1 ELSE 0
           data == {<<e, 0>>} \union f.data \union f.got.data
           r == [exec |-> e, closed |-> 0]
<1>3. Return(p, Value("factory", run, data))
  BY <1>2 DEF FactoryDone, Gather
<1>4. \/ /\ e \in Closers
         /\ runs' = Append(runs, r)
         /\ registry' = [registry EXCEPT ![e] = Len(runs) + 1]
      \/ e \notin Closers /\ UNCHANGED <<runs, registry>>
  BY <1>2 DEF FactoryDone
<1>5. /\ Len(runs) \in Nat
      /\ runs' \in Seq([exec : Execs, closed : Nat])
      /\ \/ Len(runs') = Len(runs) + 1
         \/ Len(runs') = Len(runs) /\ e \notin Closers
  <2>1. r \in [exec : Execs, closed : Nat]
    BY <1>2
  <2>2. runs \in Seq([exec : Execs, closed : Nat])
    BY DEF IInv, Shape
  <2> DEFINE R == [exec : Execs, closed : Nat]
  <2> HIDE DEF r, R
  <2>3. Append(runs, r) \in Seq(R) /\ Len(Append(runs, r)) = Len(runs) + 1 /\ Len(runs) \in Nat
    BY <2>1, <2>2 DEF R
  <2>4. CASE e \in Closers /\ runs' = Append(runs, r)
    BY <2>3, <2>4 DEF R
  <2>5. CASE e \notin Closers /\ UNCHANGED runs
    BY <2>2, <2>3, <2>5
  <2>6. QED
    BY <1>4, <2>4, <2>5
<1>6. Shape'
  <2>1. registry' \in [Execs -> 0..Len(runs')]
    BY <1>2, <1>4, <1>5 DEF IInv, Shape
  <2>2. QED
    BY <1>1, <1>5, <2>1 DEF IInv, Shape
<1>7. /\ Shape /\ StacksSound /\ edges \subseteq edges' /\ Len(runs) <= Len(runs')
  BY <1>1, <1>5 DEF IInv
<1>8. CacheSound'
  BY <1>1, <1>6, <1>7, SoundnessGrows DEF IInv, CacheSound
<1>9. JobsSound'
  BY <1>1, <1>5 DEF IInv, JobsSound
<1>10. Linked'
  BY <1>1 DEF IInv, Linked, IsLinked
<1>11. StacksSound'
  <2>1. data \in SUBSET Versions
    BY <1>2, ScopeAssumption DEF Versions, PresetVersion
  <2>2. run \in Nat /\ run <= Len(runs')
    BY <1>4, <1>5
  <2> HIDE DEF data, run
  <2>3. Value("factory", run, data) \in Returned'
    BY <2>1, <2>2 DEF Value, Returned, Values, Kinds
  <2>4. QED
    BY <1>1, <1>3, <1>6, <1>7, <2>3, ReturnSound
<1>12. QED
  BY <1>6, <1>8, <1>9, <1>10, <1>11 DEF IInv

(* The calls that run factories. *)
LEMMA StartCallSound ==
    ASSUME IInv, NEW p \in Procs, NEW e \in Execs, Get(p, e) \/ FlowDependency(p, e)
    PROVE  IInv'
<1>1. /\ calls < MaxCalls
      /\ calls' = calls + 1
      /\ UNCHANGED <<cache, edges, registry, runs, job, disposals>>
  BY DEF Get, FlowDependency, Begin
<1>2. Shape'
  BY <1>1, ScopeAssumption DEF IInv, Shape
<1>3. /\ Shape /\ StacksSound /\ edges \subseteq edges' /\ Len(runs) <= Len(runs')
  BY <1>1 DEF IInv, Shape
<1>4. CacheSound' /\ Linked' /\ JobsSound'
  BY <1>1, <1>2, <1>3, Unchanged DEF Shape
<1>5. Resolve(e) \in SoundFrames' /\ ResolveAny(e) \in SoundFrames'
  BY <1>2, <1>3, NewFrames, SoundnessGrows
<1>6. StacksSound'
  BY <1>2, <1>3, <1>5, StartSound DEF Get, FlowDependency
<1>7. QED
  BY <1>2, <1>4, <1>6 DEF IInv

(* An entry leaves the cache. *)
LEMMA DeleteSound ==
    ASSUME IInv, NEW e \in Execs, cache' = [cache EXCEPT ![e] = NoValue], UNCHANGED <<edges, runs>>
    PROVE  CacheSound' /\ Linked' /\ cache' \in [Execs -> Values]
<1>1. NoValue \in Returned /\ NoValue.kind = "none" /\ Returned' = Returned
  BY DEF IInv, Shape, NoValue, Value, Returned, Values, Kinds
<1>2. cache' \in [Execs -> Values]
  BY <1>1 DEF IInv, Shape, Returned
<1>3. CacheSound'
  BY <1>1 DEF IInv, Shape, CacheSound
<1>4. Linked'
  BY <1>1 DEF IInv, Shape, Linked, IsLinked
<1>5. QED
  BY <1>2, <1>3, <1>4

(* Release and Reload. *)
LEMMA ReleaseSound ==
    ASSUME IInv, NEW p \in Procs, NEW e \in Execs, Release(p, e) \/ Reload(p, e)
    PROVE  IInv'
<1>1. /\ calls < MaxCalls
      /\ calls' = calls + 1
      /\ cache' = [cache EXCEPT ![e] = NoValue]
      /\ UNCHANGED <<edges, registry, runs, job, disposals>>
  BY DEF Release, Reload, Begin
<1>2. CacheSound' /\ Linked' /\ cache' \in [Execs -> Values]
  BY <1>1, DeleteSound
<1>3. Shape'
  BY <1>1, <1>2, ScopeAssumption DEF IInv, Shape
<1>4. /\ Shape /\ StacksSound /\ edges \subseteq edges' /\ Len(runs) <= Len(runs')
  BY <1>1 DEF IInv, Shape
<1>5. JobsSound'
  <2>1. \A q \in Procs : job[q].version \in Nat
    BY DEF IInv, JobsSound, Jobs
  <2>2. QED
    BY <1>1, <1>4, <2>1 DEF IInv, Shape, JobsSound
<1>6. StacksSound'
  <2>1. CASE UNCHANGED stack
    BY <1>3, <1>4, <2>1, SoundnessGrows DEF StacksSound
  <2>2. CASE stack' = [stack EXCEPT ![p] = <<Resolve(e)>>]
    <3>1. Resolve(e) \in SoundFrames'
      BY <1>3, <1>4, NewFrames, SoundnessGrows
    <3>2. QED
      BY <1>3, <1>4, <2>2, <3>1, StartSound
  <2>3. QED
    BY <2>1, <2>2 DEF Release, Reload
<1>7. QED
  BY <1>2, <1>3, <1>5, <1>6 DEF IInv

(* Running the cleanups of a run. *)
LEMMA CloseSound ==
    ASSUME Shape, NEW r \in 1..Len(runs), Close(r)
    PROVE  runs' \in Seq([exec : Execs, closed : Nat]) /\ Len(runs') = Len(runs)
<1> DEFINE R == [exec : Execs, closed : Nat]
           x == [runs[r] EXCEPT !.closed = @ + 1]
<1>1. runs \in Seq(R)
  BY DEF Shape
<1>2. runs[r] \in R
  <2> HIDE DEF R
  <2> QED BY <1>1
<1>3. x \in R
  BY <1>2
<1>4. runs' = [runs EXCEPT ![r] = x]
  BY DEF Close
<1> HIDE DEF R, x
<1>5. runs' \in Seq(R) /\ Len(runs') = Len(runs)
  BY <1>1, <1>3, <1>4
<1>6. QED
  BY <1>5 DEF R

(* Steps of a job that leave the cache and the stacks alone. *)
LEMMA JobStepSound ==
    ASSUME IInv, JobsSound', UNCHANGED <<cache, edges, stack>>,
           calls' \in 0..MaxCalls, disposals' \in 0..calls',
           registry' \in [Execs -> 0..Len(runs)],
           UNCHANGED runs \/ \E r \in 1..Len(runs) : Close(r)
    PROVE  IInv'
<1>1. runs' \in Seq([exec : Execs, closed : Nat]) /\ Len(runs') = Len(runs)
  BY CloseSound DEF IInv, Shape
<1>2. Shape'
  BY <1>1 DEF IInv, Shape
<1>3. Shape /\ edges \subseteq edges' /\ Len(runs) <= Len(runs')
  BY <1>1 DEF IInv, Shape
<1>4. CacheSound' /\ Linked' /\ StacksSound'
  <2>1. Returned \subseteq Returned' /\ stack \in [Procs -> Seq(SoundFrames')]
    BY <1>2, <1>3, SoundnessGrows DEF IInv
  <2>2. QED
    BY <2>1 DEF IInv, CacheSound, Linked, IsLinked, StacksSound
<1>5. QED
  BY <1>2, <1>4 DEF IInv

(* Cleanup, by whom it may be. *)
LEMMA CleanupSound ==
    ASSUME Shape, NEW e \in Execs, Cleanup(e)
    PROVE  /\ registry' \in [Execs -> 0..Len(runs)]
           /\ UNCHANGED runs \/ \E r \in 1..Len(runs) : Close(r)
           /\ Len(runs') = Len(runs)
<1>1. registry[e] \in 0..Len(runs) /\ Len(runs) \in Nat
  BY DEF Shape
<1>2. registry' \in [Execs -> 0..Len(runs)]
  BY <1>1 DEF Shape, Cleanup
<1>3. UNCHANGED runs \/ \E r \in 1..Len(runs) : Close(r)
  BY <1>1 DEF Cleanup
<1>4. QED
  BY <1>2, <1>3, CloseSound

(* The jobs of the goroutines, when that of p becomes j. *)
SetJob(p, j) == job' = [job EXCEPT ![p] = j]

LEMMA JobChange ==
    ASSUME IInv, NEW p \in Procs, NEW j \in Jobs, SetJob(p, j),
           calls' \in Nat, calls <= calls', Len(runs') = Len(runs),
           j.version <= calls', j.held \subseteq 1..Len(runs)
    PROVE  JobsSound'
<1>1. \A q \in Procs : job[q].version \in Nat /\ job[q].version <= calls
  BY DEF IInv, JobsSound, Jobs
<1>2. calls \in Nat /\ job \in [Procs -> Jobs]
  BY DEF IInv, Shape, JobsSound
<1>3. \A q \in Procs : job'[q] = IF q = p THEN j ELSE job[q]
  BY <1>2 DEF SetJob
<1>4. \A q \in Procs : job'[q].version <= calls' /\ job'[q].held \subseteq 1..Len(runs')
  BY <1>1, <1>2, <1>3 DEF IInv, JobsSound
<1>5. QED
  BY <1>2, <1>4 DEF JobsSound, SetJob

LEMMA NoJobTyped == NoJob \in Jobs /\ NoJob.version = 0 /\ NoJob.held = {}
BY DEF NoJob, Jobs

(* Update finds the dependents. *)
LEMMA UpdateSound ==
    ASSUME IInv, NEW p \in Procs, NEW e \in Execs, Update(p, e) PROVE IInv'
<1> DEFINE j == [at |-> "self", target |-> {e}, version |-> calls + 1,
                 victims |-> Dependents(e), todo |-> Dependents(e), held |-> {}]
<1>1. /\ calls < MaxCalls
      /\ calls' = calls + 1
      /\ SetJob(p, j)
      /\ UNCHANGED <<cache, edges, registry, runs, stack, disposals>>
  BY DEF Update, Begin, SetJob
<1>2. calls \in Nat /\ calls' \in 0..MaxCalls /\ disposals' \in 0..calls'
  BY <1>1, ScopeAssumption DEF IInv, Shape
<1>3. j \in Jobs /\ j.version = calls + 1 /\ j.held = {}
  BY <1>2 DEF Jobs, Dependents, Reach
<1> HIDE DEF j
<1>4. JobsSound'
  BY <1>1, <1>2, <1>3, JobChange
<1>5. registry' \in [Execs -> 0..Len(runs)]
  BY <1>1 DEF IInv, Shape
<1>6. QED
  BY <1>1, <1>2, <1>4, <1>5, JobStepSound

(* Update cleans up the updated executor and its dependents. *)
LEMMA UpdateCleanupSound ==
    ASSUME IInv, NEW p \in Procs, NEW e \in Execs, UpdateSelf(p, e) \/ UpdateDependent(p, e)
    PROVE  IInv'
<1>1. Cleanup(e) /\ UNCHANGED <<cache, edges, stack, calls, disposals>>
  BY DEF UpdateSelf, UpdateDependent
<1>2. PICK j \in Jobs : /\ SetJob(p, j)
                        /\ j.version <= calls
                        /\ j.held \subseteq 1..Len(runs)
  <2>1. job[p] \in Jobs /\ job[p].version <= calls /\ job[p].held \subseteq 1..Len(runs)
    BY DEF IInv, JobsSound
  <2>2. CASE job' = [job EXCEPT ![p].at = "dependents"]
    <3>1. [job[p] EXCEPT !.at = "dependents"] \in Jobs
      BY <2>1 DEF Jobs
    <3>2. QED
      BY <2>1, <2>2, <3>1 DEF Jobs, SetJob
  <2>3. CASE job' = [job EXCEPT ![p].todo = @ \ {e}]
    <3>1. [job[p] EXCEPT !.todo = @ \ {e}] \in Jobs
      BY <2>1 DEF Jobs
    <3>2. QED
      BY <2>1, <2>3, <3>1 DEF Jobs, SetJob
  <2>4. QED
    BY <2>2, <2>3 DEF UpdateSelf, UpdateDependent
<1>3. /\ registry' \in [Execs -> 0..Len(runs)]
      /\ UNCHANGED runs \/ \E r \in 1..Len(runs) : Close(r)
      /\ Len(runs') = Len(runs)
  BY <1>1, CleanupSound DEF IInv
<1>4. calls \in Nat /\ calls' \in 0..MaxCalls /\ disposals' \in 0..calls'
  BY <1>1 DEF IInv, Shape
<1>5. JobsSound'
  BY <1>1, <1>2, <1>3, <1>4, JobChange
<1>6. QED
  BY <1>1, <1>3, <1>4, <1>5, JobStepSound

(* Update is cancelled. *)
LEMMA UpdateCancelledSound == ASSUME IInv, NEW p \in Procs, UpdateCancelled(p) PROVE IInv'
<1>1. /\ SetJob(p, NoJob)
      /\ UNCHANGED <<cache, edges, registry, runs, stack, calls, disposals>>
  BY DEF UpdateCancelled, SetJob
<1>2. /\ calls \in Nat
      /\ calls' \in 0..MaxCalls
      /\ disposals' \in 0..calls'
      /\ registry' \in [Execs -> 0..Len(runs)]
  BY <1>1 DEF IInv, Shape
<1>3. JobsSound'
  BY <1>1, <1>2, NoJobTyped, JobChange
<1>4. QED
  BY <1>1, <1>2, <1>3, JobStepSound

(* Update stores the new value. *)
LEMMA UpdateStoreSound ==
    ASSUME IInv, NEW p \in Procs, NEW e \in Execs, UpdateStore(p, e) PROVE IInv'
<1> DEFINE v == Value("update", 0, {<<e, job[p].version>>})
           j == IF job[p].victims = {} THEN NoJob
                ELSE [job[p] EXCEPT !.at = "delete", !.todo = job[p].victims]
<1>1. /\ cache' = [cache EXCEPT ![e] = v]
      /\ SetJob(p, j)
      /\ UNCHANGED <<edges, registry, runs, stack, calls, disposals>>
  BY DEF UpdateStore, SetJob
<1>2. job[p] \in Jobs /\ job[p].version <= calls /\ job[p].held \subseteq 1..Len(runs)
  BY DEF IInv, JobsSound
<1>3. calls \in Nat /\ calls <= MaxCalls /\ Len(runs) \in Nat
  BY ScopeAssumption DEF IInv, Shape
<1>4. v \in Returned /\ v.kind = "update"
  <2>1. job[p].version \in 0..MaxCalls
    BY <1>2, <1>3, ScopeAssumption DEF Jobs
  <2>2. {<<e, job[p].version>>} \in SUBSET Versions
    BY <2>1, ScopeAssumption DEF Versions, PresetVersion
  <2>3. QED
    BY <1>3, <2>2 DEF Value, Returned, Values, Kinds
<1>5. j \in Jobs /\ j.version <= calls /\ j.held \subseteq 1..Len(runs)
  <2> DEFINE k == [job[p] EXCEPT !.at = "delete", !.todo = job[p].victims]
  <2>1. k \in Jobs /\ k.version = job[p].version /\ k.held = job[p].held
    BY <1>2 DEF Jobs
  <2> HIDE DEF k
  <2>2. j = NoJob \/ j = k
    BY DEF k
  <2>3. QED
    BY <1>2, <1>3, <2>1, <2>2, NoJobTyped
<1> HIDE DEF v, j
<1>6. Shape'
  BY <1>1, <1>4 DEF IInv, Shape, Returned
<1>7. CacheSound' /\ Linked'
  <2>1. Returned' = Returned
    BY <1>1 DEF Returned
  <2>2. QED
    BY <1>1, <1>4, <2>1 DEF IInv, Shape, CacheSound, Linked, IsLinked
<1>8. JobsSound'
  BY <1>1, <1>3, <1>5, JobChange
<1>9. StacksSound'
  BY <1>1, <1>3, <1>6, SoundnessGrows DEF IInv, StacksSound
<1>10. QED
  BY <1>6, <1>7, <1>8, <1>9 DEF IInv

(* Update deletes a dependent. *)
LEMMA UpdateDeleteSound ==
    ASSUME IInv, NEW p \in Procs, NEW d \in Execs, UpdateDelete(p, d) PROVE IInv'
<1> DEFINE k == [job[p] EXCEPT !.todo = @ \ {d}]
           j == IF job[p].todo = {d} THEN NoJob ELSE k
<1>1. /\ cache' = [cache EXCEPT ![d] = NoValue]
      /\ SetJob(p, j)
      /\ UNCHANGED <<edges, registry, runs, stack, calls, disposals>>
  BY DEF UpdateDelete, SetJob
<1>2. job[p] \in Jobs /\ job[p].version <= calls /\ job[p].held \subseteq 1..Len(runs)
  BY DEF IInv, JobsSound
<1>3. calls \in Nat /\ Len(runs) \in Nat
  BY DEF IInv, Shape
<1>4. k \in Jobs /\ k.version = job[p].version /\ k.held = job[p].held
  BY <1>2 DEF Jobs
<1>5. j = NoJob \/ j = k
  OBVIOUS
<1> HIDE DEF j, k
<1>6. j \in Jobs /\ j.version <= calls /\ j.held \subseteq 1..Len(runs)
  BY <1>2, <1>3, <1>4, <1>5, NoJobTyped
<1>7. CacheSound' /\ Linked' /\ cache' \in [Execs -> Values]
  BY <1>1, DeleteSound
<1>8. Shape'
  BY <1>1, <1>7 DEF IInv, Shape
<1>9. JobsSound'
  BY <1>1, <1>3, <1>6, JobChange
<1>10. StacksSound'
  BY <1>1, <1>3, <1>8, SoundnessGrows DEF IInv, StacksSound
<1>11. QED
  BY <1>7, <1>8, <1>9, <1>10 DEF IInv

(* Dispose copies the registry. *)
LEMMA DisposeSound == ASSUME IInv, NEW p \in Procs, Dispose(p) PROVE IInv'
<1> DEFINE copied == { registry[e] : e \in Execs } \ {0}
           k == [NoJob EXCEPT !.at = "dispose", !.held = copied]
           j == IF copied = {} THEN NoJob ELSE k
<1>1. /\ calls < MaxCalls
      /\ calls' = calls + 1
      /\ disposals' = disposals + 1
      /\ SetJob(p, j)
      /\ UNCHANGED <<cache, edges, registry, runs, stack>>
  BY DEF Dispose, Begin, SetJob
<1>2. /\ Len(runs) \in Nat
      /\ calls \in Nat
      /\ calls' \in 0..MaxCalls
      /\ disposals' \in 0..calls'
      /\ registry' \in [Execs -> 0..Len(runs)]
  BY <1>1, ScopeAssumption DEF IInv, Shape
<1>3. copied \subseteq 1..Len(runs)
  BY <1>2 DEF IInv, Shape
<1>4. copied \subseteq Nat
  BY <1>2, <1>3
<1> HIDE DEF copied
<1>5. k \in Jobs /\ k.version = 0 /\ k.held = copied
  BY <1>4 DEF Jobs, NoJob
<1>6. j = NoJob \/ j = k
  OBVIOUS
<1> HIDE DEF j, k
<1>7. j \in Jobs /\ j.version <= calls' /\ j.held \subseteq 1..Len(runs)
  <2>1. 0 <= calls'
    BY <1>1, <1>2
  <2>2. CASE j = NoJob
    BY <2>1, <2>2, NoJobTyped
  <2>3. CASE j = k
    BY <1>3, <1>5, <2>1, <2>3
  <2>4. QED
    BY <1>6, <2>2, <2>3
<1>8. JobsSound'
  BY <1>1, <1>2, <1>7, JobChange
<1>9. QED
  BY <1>1, <1>2, <1>8, JobStepSound

(* Dispose runs the cleanups of a run. *)
LEMMA DisposeRunSound ==
    ASSUME IInv, NEW p \in Procs, NEW r \in 1..Len(runs), DisposeRun(p, r) PROVE IInv'
<1> DEFINE k == [job[p] EXCEPT !.held = @ \ {r}]
           j == IF job[p].held = {r} THEN NoJob ELSE k
<1>1. /\ Close(r)
      /\ SetJob(p, j)
      /\ UNCHANGED <<cache, edges, registry, stack, calls, disposals>>
  BY DEF DisposeRun, SetJob
<1>2. job[p] \in Jobs /\ job[p].version <= calls /\ job[p].held \subseteq 1..Len(runs)
  BY DEF IInv, JobsSound
<1>3. /\ calls \in Nat
      /\ calls' \in 0..MaxCalls
      /\ disposals' \in 0..calls'
      /\ registry' \in [Execs -> 0..Len(runs)]
  BY <1>1 DEF IInv, Shape
<1>4. k \in Jobs /\ k.version = job[p].version /\ k.held \subseteq job[p].held
  BY <1>2 DEF Jobs
<1>5. j = NoJob \/ j = k
  OBVIOUS
<1> HIDE DEF j, k
<1>6. j \in Jobs /\ j.version <= calls /\ j.held \subseteq 1..Len(runs)
  BY <1>2, <1>3, <1>4, <1>5, NoJobTyped
<1>7. Len(runs') = Len(runs)
  BY <1>1, CloseSound DEF IInv
<1>8. JobsSound'
  BY <1>1, <1>3, <1>6, <1>7, JobChange
<1>9. QED
  BY <1>1, <1>3, <1>8, JobStepSound

-----------------------------------------------------------------------------
(* The theorems.                                                           *)

LEMMA NextSound == IInv /\ [Next]_vars => IInv'
<1> SUFFICES ASSUME IInv, [Next]_vars PROVE IInv'
  OBVIOUS
<1>1. CASE UNCHANGED vars
  <2>1. Shape' /\ Shape /\ edges \subseteq edges' /\ Len(runs) <= Len(runs') /\ UNCHANGED job
    BY <1>1 DEF IInv, Shape, vars
  <2>2. CacheSound' /\ Linked' /\ JobsSound'
    BY <1>1, <2>1, Unchanged DEF vars, Shape
  <2>3. StacksSound'
    BY <1>1, <2>1, SoundnessGrows DEF vars, IInv, StacksSound
  <2>4. QED
    BY <2>1, <2>2, <2>3 DEF IInv
<1>2. ASSUME NEW p \in Procs, Call(p) PROVE IInv'
  BY <1>2, StartCallSound, ReleaseSound, UpdateSound, DisposeSound DEF Call
<1>3. ASSUME NEW p \in Procs, Step(p) PROVE IInv'
  BY <1>3, LoadSound, LinkSound, PreResolveSound, StoreValueSound, FactoryGetSound,
     FactoryFailSound, FactoryDoneSound, UpdateCleanupSound, UpdateCancelledSound,
     UpdateStoreSound, UpdateDeleteSound, DisposeRunSound DEF Step
<1>4. QED
  BY <1>1, <1>2, <1>3 DEF Next, AllReturned

LEMMA Invariant == Spec => []IInv
BY InitSound, NextSound, PTL DEF Spec

(* Every variable keeps its type, no error is cached, and nobody holds a   *)
(* run that was not made, whatever the calls do (scope.go 196-205).        *)
THEOREM TypeCorrect == Spec => []ScopeTypeOK
<1>1. IInv => ScopeTypeOK
  <2> SUFFICES ASSUME IInv PROVE ScopeTypeOK
    OBVIOUS
  <2>1. disposals \in 0..MaxCalls
    BY ScopeAssumption DEF IInv, Shape
  <2>2. stack \in [Procs -> Seq(Frames)]
    <3>1. SoundFrames \subseteq Frames
      BY DEF SoundFrames
    <3>2. QED
      BY <3>1 DEF IInv, StacksSound
  <2>3. \A e \in Execs : cache[e].kind # "error" /\ cache[e].run <= Len(runs)
    BY DEF IInv, CacheSound, Returned
  <2>4. QED
    BY <2>1, <2>2, <2>3 DEF ScopeTypeOK, IInv, Shape, JobsSound
<1>2. QED
  BY <1>1, Invariant, PTL

(* What a Resolve cached is linked to all its reactive dependencies, so    *)
(* that no later Update misses it (scope.go 110-117 before 205).           *)
THEOREM ResolvedIsLinked == Spec => []Linked
<1>1. IInv => Linked
  BY DEF IInv
<1>2. QED
  BY <1>1, Invariant, PTL

-----------------------------------------------------------------------------
(* Cleanups.  CleanedOnce is not inductive: it says nothing of the runs    *)
(* that a Dispose has copied and not yet closed.  Each of them is one more *)
(* closing to come, so they are counted too; the count is finite because   *)
(* every Dispose adds one goroutine to it.                                 *)

(* The goroutines that are about to close r in a Dispose. *)
Holders(r) == { p \in Procs : r \in job[p].held }

Allowed(r) == disposals + (IF Registered(r) THEN 0 ELSE 1)

(* What is registered for an executor is a run of its factory. *)
RegistryOwns == \A e \in Execs : registry[e] # 0 => runs[registry[e]].exec = e

OnlyDisposeHolds == \A p \in Procs : job[p].at # "dispose" => job[p].held = {}

ClosingsCounted ==
    \A r \in 1..Len(runs) :
        /\ IsFiniteSet(Holders(r))
        /\ runs[r].closed + Cardinality(Holders(r)) <= Allowed(r)

CleanInv == IInv /\ RegistryOwns /\ OnlyDisposeHolds /\ ClosingsCounted

(* Runs are records, and the registry points at them. *)
LEMMA RunFields ==
    ASSUME Shape
    PROVE  /\ Len(runs) \in Nat
           /\ disposals \in Nat
           /\ \A r \in 1..Len(runs) : /\ runs[r].exec \in Execs
                                      /\ runs[r].closed \in Nat
                                      /\ runs[r] = [exec |-> runs[r].exec, closed |-> runs[r].closed]
           /\ \A e \in Execs : registry[e] \in 0..Len(runs)
<1>1. \A r \in 1..Len(runs) : runs[r] \in [exec : Execs, closed : Nat]
  <2> DEFINE R == [exec : Execs, closed : Nat]
  <2>1. runs \in Seq(R)
    BY DEF Shape
  <2> HIDE DEF R
  <2>2. \A r \in 1..Len(runs) : runs[r] \in R
    BY <2>1
  <2>3. QED
    BY <2>2 DEF R
<1>2. calls \in Nat /\ disposals \in Nat
  BY DEF Shape
<1>3. Len(runs) \in Nat
  BY DEF Shape
<1>4. QED
  BY <1>1, <1>2, <1>3 DEF Shape

(* Closing a run changes nothing but the count of that run. *)
LEMMA OneClosed ==
    ASSUME Shape, NEW c \in 1..Len(runs), Close(c)
    PROVE  /\ Len(runs') = Len(runs)
           /\ \A r \in 1..Len(runs) :
                 /\ runs'[r].exec = runs[r].exec
                 /\ runs'[r].closed = IF r = c THEN runs[r].closed + 1 ELSE runs[r].closed
<1> DEFINE x == [runs[c] EXCEPT !.closed = @ + 1]
<1>1. x.exec = runs[c].exec /\ x.closed = runs[c].closed + 1
  <2>1. runs[c] = [exec |-> runs[c].exec, closed |-> runs[c].closed]
    BY RunFields
  <2>2. QED
    BY <2>1
<1>2. runs' = [runs EXCEPT ![c] = x] /\ Len(runs') = Len(runs)
  BY CloseSound DEF Close
<1> HIDE DEF x
<1>3. \A r \in 1..Len(runs) : runs'[r] = IF r = c THEN x ELSE runs[r]
  BY <1>2 DEF Shape
<1>4. QED
  BY <1>1, <1>2, <1>3

(* A step that neither registers nor closes anything, nor copies the       *)
(* registry.                                                               *)
LEMMA NothingCleaned ==
    ASSUME CleanInv, IInv', UNCHANGED <<registry, runs, disposals>>,
           \A p \in Procs : job'[p].held = job[p].held,
           \A p \in Procs : job'[p].at = "dispose" <=> job[p].at = "dispose"
    PROVE  CleanInv'
<1>1. \A r \in 1..Len(runs) : Holders(r)' = Holders(r) /\ Allowed(r)' = Allowed(r)
  BY DEF Holders, Allowed, Registered
<1>2. QED
  BY <1>1 DEF CleanInv, RegistryOwns, OnlyDisposeHolds, ClosingsCounted

(* Closing what is registered for e, which takes it from the registry. *)
LEMMA CleanupCounted ==
    ASSUME CleanInv, IInv', NEW e \in Execs, Cleanup(e), UNCHANGED disposals,
           \A p \in Procs : job'[p].held = job[p].held,
           \A p \in Procs : job'[p].at = "dispose" <=> job[p].at = "dispose"
    PROVE  CleanInv'
<1>1. registry' = [registry EXCEPT ![e] = 0] /\ registry[e] \in 0..Len(runs)
  BY RunFields DEF Cleanup, CleanInv, IInv
<1>2. CASE registry[e] = 0
  <2>1. registry' = registry /\ runs' = runs
    BY <1>1, <1>2 DEF Cleanup, CleanInv, IInv, Shape
  <2>2. QED
    BY <2>1, NothingCleaned
<1>3. CASE registry[e] # 0
  <2> DEFINE c == registry[e]
  <2>1. c \in 1..Len(runs) /\ Close(c) /\ runs[c].exec = e
    BY <1>1, <1>3 DEF Cleanup, CleanInv, RegistryOwns
  <2>2. /\ Len(runs') = Len(runs)
        /\ \A r \in 1..Len(runs) :
              /\ runs'[r].exec = runs[r].exec
              /\ runs'[r].closed = IF r = c THEN runs[r].closed + 1 ELSE runs[r].closed
    BY <2>1, OneClosed DEF CleanInv, IInv
  <2>3. \A x \in Execs : registry'[x] = IF x = e THEN 0 ELSE registry[x]
    BY <1>1 DEF CleanInv, IInv, Shape
  <2>4. RegistryOwns'
    BY <2>2, <2>3, RunFields DEF CleanInv, IInv, RegistryOwns
  <2>5. OnlyDisposeHolds'
    BY DEF CleanInv, OnlyDisposeHolds
  <2>6. ASSUME NEW r \in 1..Len(runs)
        PROVE  /\ IsFiniteSet(Holders(r)')
               /\ (runs'[r].closed + Cardinality(Holders(r)') <= Allowed(r)')
    <3>1. Holders(r)' = Holders(r)
      BY DEF Holders
    <3>2. /\ IsFiniteSet(Holders(r))
          /\ runs[r].closed + Cardinality(Holders(r)) <= Allowed(r)
      BY DEF CleanInv, ClosingsCounted
    <3>3. Cardinality(Holders(r)) \in Nat /\ disposals \in Nat /\ runs[r].closed \in Nat
      BY <3>2, FS_CardinalityType, RunFields DEF CleanInv, IInv
    <3>4. runs[r].exec \in Execs
      BY RunFields DEF CleanInv, IInv
    <3>5. CASE r = c
      <4>1. Registered(r) /\ ~Registered(r)'
        BY <1>3, <2>1, <2>2, <2>3, <3>5 DEF Registered
      <4>2. Allowed(r) = disposals /\ Allowed(r)' = disposals + 1
        BY <3>3, <4>1 DEF Allowed
      <4>3. runs'[r].closed = runs[r].closed + 1
        BY <2>2, <3>5
      <4>4. QED
        BY <3>1, <3>2, <3>3, <4>2, <4>3
    <3>6. CASE r # c
      <4>1. Registered(r)' <=> Registered(r)
        BY <2>2, <2>3, <3>4, <3>6 DEF Registered
      <4>2. Allowed(r)' = Allowed(r) /\ runs'[r].closed = runs[r].closed
        BY <2>2, <3>6, <4>1 DEF Allowed
      <4>3. QED
        BY <3>1, <3>2, <4>2
    <3>7. QED
      BY <3>5, <3>6
  <2>7. ClosingsCounted'
    BY <2>2, <2>6 DEF ClosingsCounted
  <2>8. QED
    BY <2>4, <2>5, <2>7 DEF CleanInv
<1>4. QED
  BY <1>2, <1>3

(* A factory registers a run of its own, which nobody has copied or closed;*)
(* what its executor had registered is then closed by Disposes only.       *)
LEMMA RunRegistered ==
    ASSUME CleanInv, IInv', NEW p \in Procs, FactoryDone(p)
    PROVE  CleanInv'
<1> DEFINE e == Top(p).exec
<1>0. PICK new \in Nat : new = Len(runs) + 1
  BY RunFields DEF CleanInv, IInv
<1>1. UNCHANGED <<job, disposals>>
  BY DEF FactoryDone
<1>2. CASE UNCHANGED <<registry, runs>>
  BY <1>1, <1>2, NothingCleaned
<1>3. CASE /\ runs' = Append(runs, [exec |-> e, closed |-> 0])
           /\ registry' = [registry EXCEPT ![e] = new]
  <2>1. /\ Len(runs) \in Nat
        /\ Len(runs') = new
        /\ runs'[new] = [exec |-> e, closed |-> 0]
        /\ \A r \in 1..Len(runs) : runs'[r] = runs[r]
    BY <1>0, <1>3 DEF CleanInv, IInv, Shape
  <2>2. \A x \in Execs : registry'[x] = IF x = e THEN new ELSE registry[x]
    BY <1>3 DEF CleanInv, IInv, Shape
  <2>3. RegistryOwns'
    BY <1>0, <2>1, <2>2, RunFields DEF CleanInv, IInv, RegistryOwns
  <2>4. OnlyDisposeHolds'
    BY <1>1 DEF CleanInv, OnlyDisposeHolds
  <2>5. \A r : Holders(r)' = Holders(r)
    BY <1>1 DEF Holders
  <2>6. ASSUME NEW r \in 1..Len(runs)
        PROVE  /\ IsFiniteSet(Holders(r)')
               /\ (runs'[r].closed + Cardinality(Holders(r)') <= Allowed(r)')
    <3>1. /\ IsFiniteSet(Holders(r))
          /\ runs[r].closed + Cardinality(Holders(r)) <= Allowed(r)
      BY DEF CleanInv, ClosingsCounted
    <3>2. Cardinality(Holders(r)) \in Nat /\ disposals \in Nat /\ runs[r].closed \in Nat
      BY <3>1, FS_CardinalityType, RunFields DEF CleanInv, IInv
    <3>3. Registered(r)' => Registered(r)
      <4>1. runs[r].exec \in Execs /\ runs'[r].exec = runs[r].exec /\ r # new
        <5>1. runs[r].exec \in Execs /\ runs'[r] = runs[r]
          BY <2>1, RunFields DEF CleanInv, IInv
        <5>2. r # new
          BY <1>0, <2>1
        <5>3. QED
          BY <5>1, <5>2
      <4>2. QED
        BY <2>2, <4>1 DEF Registered
    <3>4. Allowed(r) \in Nat /\ Allowed(r)' \in Nat /\ Allowed(r) <= Allowed(r)'
      BY <1>1, <3>2, <3>3 DEF Allowed
    <3>5. QED
      BY <2>1, <2>5, <3>1, <3>2, <3>4
  <2>7. /\ IsFiniteSet(Holders(new)')
        /\ (runs'[new].closed + Cardinality(Holders(new)') <= Allowed(new)')
    <3>1. Holders(new) = {}
      BY <1>0, <2>1 DEF CleanInv, IInv, JobsSound, Holders
    <3>2. IsFiniteSet(Holders(new)') /\ Cardinality(Holders(new)') = 0
      BY <2>5, <3>1, FS_EmptySet
    <3>3. disposals \in Nat /\ Allowed(new)' \in Nat
      BY <1>1, RunFields DEF CleanInv, IInv, Allowed
    <3>4. QED
      BY <2>1, <3>2, <3>3
  <2>8. ClosingsCounted'
    BY <1>0, <2>1, <2>6, <2>7 DEF ClosingsCounted
  <2>9. QED
    BY <2>3, <2>4, <2>8 DEF CleanInv
<1>4. QED
  BY <1>0, <1>2, <1>3 DEF FactoryDone

(* A Dispose copies the registry: one more closing to come for each run in *)
(* it, and one more allowed for each run there is.                         *)
LEMMA RegistryCopied ==
    ASSUME CleanInv, IInv', NEW p \in Procs, Dispose(p)
    PROVE  CleanInv'
<1> DEFINE copied == { registry[e] : e \in Execs } \ {0}
<1>1. /\ disposals' = disposals + 1
      /\ UNCHANGED <<registry, runs>>
      /\ job[p] = NoJob
      /\ job' = [job EXCEPT ![p] = IF copied = {} THEN NoJob
                                   ELSE [NoJob EXCEPT !.at = "dispose", !.held = copied]]
  BY DEF Dispose, Begin, Idle
<1> DEFINE j == IF copied = {} THEN NoJob
                ELSE [NoJob EXCEPT !.at = "dispose", !.held = copied]
<1>2. /\ job'[p].held = copied
      /\ job'[p].at # "dispose" => copied = {}
      /\ job[p].held = {}
      /\ \A q \in Procs \ {p} : job'[q] = job[q]
  <2>1. j.held = copied /\ (j.at # "dispose" => copied = {})
    <3> HIDE DEF copied
    <3> QED BY DEF NoJob
  <2>2. job' = [job EXCEPT ![p] = j]
    BY <1>1
  <2> HIDE DEF j, copied
  <2>3. QED
    BY <1>1, <2>1, <2>2 DEF NoJob, CleanInv, IInv, JobsSound
<1> HIDE DEF copied
<1>3. RegistryOwns' /\ OnlyDisposeHolds'
  BY <1>1, <1>2 DEF CleanInv, RegistryOwns, OnlyDisposeHolds
<1>4. ASSUME NEW r \in 1..Len(runs)
      PROVE  /\ IsFiniteSet(Holders(r)')
             /\ (runs'[r].closed + Cardinality(Holders(r)') <= Allowed(r)')
  <2>1. /\ IsFiniteSet(Holders(r))
        /\ runs[r].closed + Cardinality(Holders(r)) <= Allowed(r)
    BY DEF CleanInv, ClosingsCounted
  <2>2. Cardinality(Holders(r)) \in Nat /\ disposals \in Nat /\ runs[r].closed \in Nat
    BY <2>1, FS_CardinalityType, RunFields DEF CleanInv, IInv
  <2>3. /\ IsFiniteSet(Holders(r)')
        /\ Cardinality(Holders(r)') \in Nat
        /\ Cardinality(Holders(r)') <= Cardinality(Holders(r)) + 1
    <3>1. Holders(r)' = Holders(r) \/ Holders(r)' = Holders(r) \union {p}
      BY <1>2 DEF Holders
    <3>2. /\ IsFiniteSet(Holders(r) \union {p})
          /\ Cardinality(Holders(r) \union {p}) \in Nat
          /\ Cardinality(Holders(r) \union {p}) <= Cardinality(Holders(r)) + 1
      <4>1. IsFiniteSet(Holders(r) \union {p}) /\
            Cardinality(Holders(r) \union {p}) =
                IF p \in Holders(r) THEN Cardinality(Holders(r)) ELSE Cardinality(Holders(r)) + 1
        BY <2>1, FS_AddElement
      <4>2. QED
        BY <2>2, <4>1
    <3>3. CASE Holders(r)' = Holders(r)
      BY <2>1, <2>2, <3>3
    <3>4. CASE Holders(r)' = Holders(r) \union {p}
      BY <3>2, <3>4
    <3>5. QED
      BY <3>1, <3>3, <3>4
  <2>4. Allowed(r)' = Allowed(r) + 1 /\ Allowed(r) \in Nat
    BY <1>1, <2>2 DEF Allowed, Registered
  <2>5. QED
    BY <1>1, <2>1, <2>2, <2>3, <2>4
<1>5. ClosingsCounted'
  BY <1>1, <1>4 DEF ClosingsCounted
<1>6. QED
  BY <1>3, <1>5 DEF CleanInv

(* A Dispose closes a run it has copied: a closing that was counted. *)
LEMMA CopyClosed ==
    ASSUME CleanInv, IInv', NEW p \in Procs, NEW c \in 1..Len(runs), DisposeRun(p, c)
    PROVE  CleanInv'
<1>1. /\ c \in job[p].held
      /\ Close(c)
      /\ UNCHANGED <<registry, disposals>>
      /\ job' = [job EXCEPT ![p] =
            IF job[p].held = {c} THEN NoJob ELSE [job[p] EXCEPT !.held = @ \ {c}]]
      /\ job[p].at = "dispose"
      /\ job[p] \in Jobs
      /\ job \in [Procs -> Jobs]
  BY DEF DisposeRun, CleanInv, IInv, JobsSound
<1>2. /\ job'[p].held = job[p].held \ {c}
      /\ job'[p].at # "dispose" => job'[p].held = {}
      /\ \A q \in Procs \ {p} : job'[q] = job[q]
  BY <1>1 DEF NoJob, Jobs
<1>3. /\ Len(runs') = Len(runs)
      /\ \A r \in 1..Len(runs) :
            /\ runs'[r].exec = runs[r].exec
            /\ runs'[r].closed = IF r = c THEN runs[r].closed + 1 ELSE runs[r].closed
  BY <1>1, OneClosed DEF CleanInv, IInv
<1>4. RegistryOwns'
  BY <1>1, <1>3, RunFields DEF CleanInv, IInv, RegistryOwns
<1>5. OnlyDisposeHolds'
  BY <1>2 DEF CleanInv, OnlyDisposeHolds
<1>6. ASSUME NEW r \in 1..Len(runs)
      PROVE  /\ IsFiniteSet(Holders(r)')
             /\ (runs'[r].closed + Cardinality(Holders(r)') <= Allowed(r)')
  <2>1. /\ IsFiniteSet(Holders(r))
        /\ runs[r].closed + Cardinality(Holders(r)) <= Allowed(r)
    BY DEF CleanInv, ClosingsCounted
  <2>2. Cardinality(Holders(r)) \in Nat /\ disposals \in Nat /\ runs[r].closed \in Nat
    BY <2>1, FS_CardinalityType, RunFields DEF CleanInv, IInv
  <2>3. Allowed(r)' = Allowed(r) /\ Allowed(r) \in Nat
    BY <1>1, <1>3, <2>2 DEF Allowed, Registered
  <2>4. CASE r = c
    <3>1. Holders(r)' = Holders(r) \ {p} /\ p \in Holders(r)
      BY <1>1, <1>2, <2>4 DEF Holders
    <3>2. IsFiniteSet(Holders(r)') /\ Cardinality(Holders(r)') = Cardinality(Holders(r)) - 1
      BY <2>1, <3>1, FS_RemoveElement
    <3>3. QED
      BY <1>3, <2>1, <2>2, <2>3, <2>4, <3>2
  <2>5. CASE r # c
    <3>1. Holders(r)' = Holders(r)
      BY <1>2, <2>5 DEF Holders
    <3>2. QED
      BY <1>3, <2>1, <2>3, <2>5, <3>1
  <2>6. QED
    BY <2>4, <2>5
<1>7. ClosingsCounted'
  BY <1>3, <1>6 DEF ClosingsCounted
<1>8. QED
  BY <1>4, <1>5, <1>7 DEF CleanInv

LEMMA CleanStep == CleanInv /\ [Next]_vars => CleanInv'
<1> SUFFICES ASSUME CleanInv, [Next]_vars PROVE CleanInv'
  OBVIOUS
<1>1. IInv' /\ job \in [Procs -> Jobs]
  BY NextSound DEF CleanInv, IInv, JobsSound
<1>2. CASE UNCHANGED vars
  BY <1>1, <1>2, NothingCleaned DEF vars
<1>3. ASSUME NEW p \in Procs, Call(p) PROVE CleanInv'
  <2>1. CASE Dispose(p)
    BY <1>1, <2>1, RegistryCopied
  <2>2. ASSUME NEW e \in Execs, Update(p, e) PROVE CleanInv'
    <3>1. UNCHANGED <<registry, runs, disposals>> /\ job[p] = NoJob
      BY <2>2 DEF Update, Begin, Idle
    <3>2. job'[p].at = "self" /\ job'[p].held = {} /\ \A q \in Procs \ {p} : job'[q] = job[q]
      BY <1>1, <2>2 DEF Update
    <3>3. QED
      BY <1>1, <3>1, <3>2, NothingCleaned DEF NoJob
  <2>3. ASSUME NEW e \in Execs,
               Get(p, e) \/ FlowDependency(p, e) \/ Release(p, e) \/ Reload(p, e)
        PROVE  CleanInv'
    <3>1. UNCHANGED <<registry, runs, disposals, job>>
      BY <2>3 DEF Get, FlowDependency, Release, Reload
    <3>2. QED
      BY <1>1, <3>1, NothingCleaned
  <2>4. QED
    BY <1>3, <2>1, <2>2, <2>3 DEF Call
<1>4. ASSUME NEW p \in Procs, Step(p) PROVE CleanInv'
  <2>1. CASE Load(p) \/ Link(p) \/ PreResolve(p) \/ StoreValue(p) \/ FactoryGet(p) \/ FactoryFail(p)
    <3>1. UNCHANGED <<registry, runs, disposals, job>>
      BY <2>1 DEF Load, Link, PreResolve, StoreValue, FactoryGet, FactoryFail
    <3>2. QED
      BY <1>1, <3>1, NothingCleaned
  <2>2. CASE FactoryDone(p)
    BY <1>1, <2>2, RunRegistered
  <2>3. ASSUME NEW e \in Execs, UpdateSelf(p, e) \/ UpdateDependent(p, e) PROVE CleanInv'
    <3>1. Cleanup(e) /\ UNCHANGED disposals
      BY <2>3 DEF UpdateSelf, UpdateDependent
    <3>2. /\ job[p].at \in {"self", "dependents"}
          /\ job' = [job EXCEPT ![p].at = "dependents"] \/ job' = [job EXCEPT ![p].todo = @ \ {e}]
      BY <2>3 DEF UpdateSelf, UpdateDependent
    <3>3. \A q \in Procs : /\ job'[q].held = job[q].held
                           /\ job'[q].at = "dispose" <=> job[q].at = "dispose"
      BY <1>1, <3>2 DEF Jobs
    <3>4. QED
      BY <1>1, <3>1, <3>3, CleanupCounted
  <2>4. ASSUME UpdateCancelled(p) \/ \E e \in Execs : UpdateStore(p, e) \/ UpdateDelete(p, e)
        PROVE  CleanInv'
    <3>1. UNCHANGED <<registry, runs, disposals>>
      BY <2>4 DEF UpdateCancelled, UpdateStore, UpdateDelete
    <3>2. job[p].at \in {"dependents", "delete"} /\ job[p].held = {}
      BY <2>4 DEF UpdateCancelled, UpdateStore, UpdateDelete, CleanInv, OnlyDisposeHolds
    <3>3. \/ job' = [job EXCEPT ![p] = NoJob]
          \/ job' = [job EXCEPT ![p] = [job[p] EXCEPT !.at = "delete", !.todo = job[p].victims]]
          \/ \E e \in Execs : job' = [job EXCEPT ![p] = [job[p] EXCEPT !.todo = @ \ {e}]]
      BY <2>4 DEF UpdateCancelled, UpdateStore, UpdateDelete
    <3>4. /\ job'[p].held = {}
          /\ job'[p].at # "dispose"
          /\ \A q \in Procs \ {p} : job'[q] = job[q]
      <4>1. job[p] \in Jobs
        BY <1>1
      <4>2. CASE job' = [job EXCEPT ![p] = NoJob]
        BY <1>1, <4>2 DEF NoJob
      <4>3. CASE job' = [job EXCEPT ![p] = [job[p] EXCEPT !.at = "delete", !.todo = job[p].victims]]
        BY <1>1, <3>2, <4>1, <4>3 DEF Jobs
      <4>4. ASSUME NEW e \in Execs,
                   job' = [job EXCEPT ![p] = [job[p] EXCEPT !.todo = @ \ {e}]]
            PROVE  job'[p].held = {} /\ job'[p].at # "dispose" /\ \A q \in Procs \ {p} : job'[q] = job[q]
        BY <1>1, <3>2, <4>1, <4>4 DEF Jobs
      <4>5. QED
        BY <3>3, <4>2, <4>3, <4>4
    <3>5. QED
      BY <1>1, <3>1, <3>2, <3>4, NothingCleaned
  <2>5. ASSUME NEW r \in 1..Len(runs), DisposeRun(p, r) PROVE CleanInv'
    BY <1>1, <2>5, CopyClosed
  <2>6. QED
    BY <1>4, <2>1, <2>2, <2>3, <2>4, <2>5 DEF Step
<1>5. QED
  BY <1>2, <1>3, <1>4 DEF Next, AllReturned

LEMMA CleanStart == Init => CleanInv
<1>1. Init => RegistryOwns /\ OnlyDisposeHolds /\ ClosingsCounted
  BY DEF Init, RegistryOwns, OnlyDisposeHolds, ClosingsCounted, NoJob
<1>2. QED
  BY <1>1, InitSound DEF CleanInv

(* What a factory opened is closed at most once by Updates, and at most    *)
(* once more by each Dispose; what is still registered has been closed by  *)
(* Disposes only (scope.go 299-320, 354-371).                              *)
THEOREM ClosedOnce == Spec => []CleanedOnce
<1>1. CleanInv => CleanedOnce
  <2> SUFFICES ASSUME CleanInv, NEW r \in 1..Len(runs)
               PROVE  runs[r].closed <= Allowed(r)
    BY DEF CleanedOnce, Allowed
  <2>1. /\ IsFiniteSet(Holders(r))
        /\ runs[r].closed + Cardinality(Holders(r)) <= Allowed(r)
    BY DEF CleanInv, ClosingsCounted
  <2>2. Cardinality(Holders(r)) \in Nat
    BY <2>1, FS_CardinalityType
  <2>3. runs[r].closed \in Nat /\ disposals \in Nat
    BY RunFields DEF CleanInv, IInv
  <2>4. Allowed(r) \in Nat
    BY <2>3 DEF Allowed
  <2>5. QED
    BY <2>1, <2>2, <2>3, <2>4
<1>2. QED
  BY <1>1, CleanStart, CleanStep, PTL DEF Spec

-----------------------------------------------------------------------------
(* Stacks: what the frames are that may be on top of each other.           *)

(* The executor whose factory gives the value of e. *)
Maker(e) == IF e \in DOMAIN Replacement THEN Replacement[e] ELSE e

(* The frame f waits for the call whose frame is g: Resolve runs the       *)
(* dependencies and then a factory, a factory Gets what it reads.          *)
Awaits(f, g) ==
    \/ /\ f.at = "deps"
       /\ g.at = "gets"
       /\ g.exec \in ToSet(Eager[f.exec])
    \/ /\ f.at = "store"
       /\ f.exec \notin ValuePresets
       /\ g.at = "gets"
       /\ g.exec = Maker(f.exec)
    \/ /\ f.at = "gets"
       /\ g.at # "gets"
       /\ f.i \in 1..Len(Reads[f.exec])
       /\ g.exec = Reads[f.exec][f.i]

(* A factory that nothing on the stack waits for is run by a flow. *)
Bottom(f) == f.at = "gets" => f.exec \in FlowDeps

(* The stacks whose top is in T and whose other frames are in W. *)
Stacks(W, T) ==
    { s \in Seq(Frames) :
        /\ \A k \in 1..Len(s) :
              IF k = Len(s) THEN s[k] \in T ELSE s[k] \in W /\ Awaits(s[k], s[k + 1])
        /\ s # <<>> => Bottom(s[1]) }

(* A frame that another one replaces is the same call. *)
SameCall(f, g) == g.exec = f.exec /\ (g.at = "gets" <=> f.at = "gets")

LEMMA CalleeKept ==
    ASSUME NEW f, NEW g, NEW h, SameCall(f, g)
    PROVE  (Awaits(h, f) => Awaits(h, g)) /\ (Bottom(f) => Bottom(g))
BY DEF SameCall, Awaits, Bottom

(* Front and Last, place by place. *)
LEMMA FrontPlaces ==
    ASSUME NEW F, NEW s \in Seq(F), s # <<>>
    PROVE  /\ Len(s) \in Nat \ {0}
           /\ Front(s) \in Seq(F)
           /\ Len(Front(s)) = Len(s) - 1
           /\ \A k \in 1..(Len(s) - 1) : Front(s)[k] = s[k]
           /\ Last(s) = s[Len(s)]
           /\ Last(s) \in F
<1>1. Len(s) \in Nat \ {0} /\ s[Len(s)] \in F
  OBVIOUS
<1>2. /\ Front(s) \in Seq(F)
      /\ Len(Front(s)) = Len(s) - 1
      /\ \A k \in 1..(Len(s) - 1) : Front(s)[k] = s[k]
  <2> DEFINE n == Len(s) - 1
  <2>1. n \in Nat /\ n <= Len(s)
    BY <1>1
  <2> HIDE DEF n
  <2>2. /\ SubSeq(s, 1, n) \in Seq(F)
        /\ Len(SubSeq(s, 1, n)) = n
        /\ \A k \in 1..n : SubSeq(s, 1, n)[k] = s[k]
    BY <2>1
  <2>3. QED
    BY <2>2 DEF n, Front
<1>3. QED
  BY <1>1, <1>2 DEF Last

(* The top of a stack and the frame that waits for it. *)
LEMMA TopOfStack ==
    ASSUME NEW W, NEW T, NEW s \in Stacks(W, T), s # <<>>
    PROVE  /\ s \in Seq(Frames)
           /\ Last(s) \in T
           /\ Last(s) \in Frames
           /\ Len(s) = 1 => Bottom(Last(s))
           /\ Len(s) # 1 => /\ Front(s) # <<>>
                            /\ Last(Front(s)) \in W
                            /\ Last(Front(s)) \in Frames
                            /\ Awaits(Last(Front(s)), Last(s))
<1>1. s \in Seq(Frames)
  BY DEF Stacks
<1>2. Len(s) \in Nat \ {0} /\ Last(s) = s[Len(s)] /\ Last(s) \in Frames
  BY <1>1, FrontPlaces
<1>3. Last(s) \in T /\ (Len(s) = 1 => Bottom(Last(s)))
  BY <1>2 DEF Stacks
<1>4. ASSUME Len(s) # 1
      PROVE  /\ Front(s) # <<>>
             /\ Last(Front(s)) = s[Len(s) - 1]
             /\ Last(Front(s)) \in Frames
  <2>1. /\ Front(s) \in Seq(Frames)
        /\ Len(Front(s)) = Len(s) - 1
        /\ \A k \in 1..(Len(s) - 1) : Front(s)[k] = s[k]
    BY <1>1, FrontPlaces
  <2>2. Front(s) # <<>> /\ Len(s) - 1 \in 1..(Len(s) - 1)
    BY <1>2, <1>4, <2>1
  <2>3. Last(Front(s)) = Front(s)[Len(s) - 1] /\ Last(Front(s)) \in Frames
    BY <2>1, <2>2, FrontPlaces
  <2>4. QED
    BY <2>1, <2>2, <2>3
<1>5. ASSUME Len(s) # 1
      PROVE  s[Len(s) - 1] \in W /\ Awaits(s[Len(s) - 1], Last(s))
  <2>1. PICK n \in Nat \ {0, 1} : n = Len(s)
    BY <1>2, <1>5
  <2> DEFINE m == n - 1
  <2>2. PICK k \in 1..Len(s) : k = Len(s) - 1 /\ k # Len(s) /\ k + 1 = Len(s)
    <3>1. m \in 1..n /\ m # n /\ m + 1 = n
      OBVIOUS
    <3>2. QED
      BY <2>1, <3>1
  <2>3. s[k] \in W /\ Awaits(s[k], s[k + 1])
    BY <2>2 DEF Stacks
  <2>4. QED
    BY <1>2, <2>2, <2>3
<1>6. QED
  BY <1>1, <1>2, <1>3, <1>4, <1>5

(* Replacing the top. *)
LEMMA TopReplaced ==
    ASSUME NEW W, NEW T, NEW U, NEW s \in Stacks(W, U), s # <<>>,
           NEW f \in T, f \in Frames, SameCall(Last(s), f)
    PROVE  Append(Front(s), f) \in Stacks(W, T)
<1> DEFINE t == Append(Front(s), f)
           n == Len(s)
<1>1. s \in Seq(Frames)
  BY DEF Stacks
<1>2. /\ n \in Nat \ {0}
      /\ Front(s) \in Seq(Frames)
      /\ Len(Front(s)) = n - 1
      /\ \A k \in 1..(n - 1) : Front(s)[k] = s[k]
      /\ Last(s) = s[n]
  BY <1>1, FrontPlaces
<1> HIDE DEF n
<1>3. /\ t \in Seq(Frames)
      /\ Len(t) = n
      /\ t[n] = f
      /\ \A k \in 1..(n - 1) : t[k] = s[k]
  BY <1>2
<1> HIDE DEF t
<1>4. ASSUME NEW k \in 1..n, k # n
      PROVE  t[k] \in W /\ Awaits(t[k], t[k + 1])
  <2>1. k \in 1..(n - 1) /\ (k + 1 = n \/ k + 1 \in 1..(n - 1))
    BY <1>2, <1>4
  <2>2. s[k] \in W /\ Awaits(s[k], s[k + 1])
    BY <1>4 DEF Stacks, n
  <2>3. CASE k + 1 = n
    BY <1>2, <1>3, <2>1, <2>2, <2>3, CalleeKept
  <2>4. CASE k + 1 \in 1..(n - 1)
    BY <1>3, <2>1, <2>2, <2>4
  <2>5. QED
    BY <2>1, <2>3, <2>4
<1>5. Bottom(t[1])
  <2>1. Bottom(s[1])
    BY DEF Stacks
  <2>2. CASE n = 1
    BY <1>2, <1>3, <2>1, <2>2, CalleeKept
  <2>3. CASE n # 1
    BY <1>2, <1>3, <2>1, <2>3
  <2>4. QED
    BY <2>2, <2>3
<1>6. t \in Stacks(W, T)
  BY <1>3, <1>4, <1>5 DEF Stacks
<1>7. QED
  BY <1>6 DEF t

(* A call of the top: what was the top waits for it. *)
LEMMA CallMade ==
    ASSUME NEW W, NEW T, NEW s \in Stacks(W, T), s # <<>>,
           NEW f \in W, f \in Frames, SameCall(Last(s), f),
           NEW g \in T, g \in Frames, Awaits(f, g)
    PROVE  Append(Append(Front(s), f), g) \in Stacks(W, T)
<1> DEFINE u == Append(Front(s), f)
           t == Append(u, g)
           n == Len(s)
<1>1. u \in Stacks(W, {f})
  BY TopReplaced
<1>2. u \in Seq(Frames) /\ Len(u) = n /\ u[n] = f /\ n \in Nat \ {0}
  <2>1. s \in Seq(Frames)
    BY DEF Stacks
  <2>2. Front(s) \in Seq(Frames) /\ Len(Front(s)) = n - 1 /\ n \in Nat \ {0}
    BY <2>1, FrontPlaces
  <2> HIDE DEF n
  <2>3. QED
    BY <2>2
<1> HIDE DEF u, n
<1>3. /\ t \in Seq(Frames)
      /\ Len(t) = n + 1
      /\ t[n + 1] = g
      /\ \A k \in 1..n : t[k] = u[k]
  BY <1>2
<1> HIDE DEF t
<1>4. ASSUME NEW k \in 1..n
      PROVE  t[k] \in W /\ Awaits(t[k], t[k + 1])
  <2>1. CASE k = n
    BY <1>2, <1>3, <2>1
  <2>2. CASE k # n
    <3>1. u[k] \in W /\ Awaits(u[k], u[k + 1])
      BY <1>1, <1>2, <2>2 DEF Stacks
    <3>2. k + 1 \in 1..n
      BY <1>2, <2>2
    <3>3. QED
      BY <1>3, <3>1, <3>2
  <2>3. QED
    BY <2>1, <2>2
<1>5. Bottom(t[1])
  <2>1. u # <<>> /\ t[1] = u[1]
    BY <1>2, <1>3
  <2>2. QED
    BY <1>1, <2>1 DEF Stacks
<1>6. \A k \in 1..Len(t) : k = Len(t) \/ k \in 1..n
  BY <1>2, <1>3
<1>7. t \in Stacks(W, T)
  BY <1>3, <1>4, <1>5, <1>6 DEF Stacks
<1>8. QED
  BY <1>7 DEF t, u

(* A return: the frame that waited is the top. *)
LEMMA CallReturned ==
    ASSUME NEW W, NEW T, NEW s \in Stacks(W, T), s # <<>>, Len(s) # 1,
           NEW f \in T, f \in Frames, SameCall(Last(Front(s)), f)
    PROVE  Append(Front(Front(s)), f) \in Stacks(W, T)
<1> DEFINE u == Front(s)
           n == Len(s) - 1
<1>1. s \in Seq(Frames)
  BY DEF Stacks
<1>2. /\ u \in Seq(Frames)
      /\ Len(u) = n
      /\ n \in Nat \ {0}
      /\ \A k \in 1..n : u[k] = s[k]
  BY <1>1, FrontPlaces
<1>3. u \in Stacks(W, W)
  <2>1. ASSUME NEW k \in 1..n
        PROVE  s[k] \in W /\ Awaits(s[k], s[k + 1])
    <3>1. k \in 1..Len(s) /\ k # Len(s)
      BY <1>2
    <3>2. QED
      BY <3>1 DEF Stacks
  <2>2. Bottom(u[1])
    BY <1>2 DEF Stacks
  <2> HIDE DEF u, n
  <2>3. ASSUME NEW k \in 1..n, k # n
        PROVE  u[k] \in W /\ Awaits(u[k], u[k + 1])
    <3>1. k + 1 \in 1..n
      BY <1>2, <2>3
    <3>2. QED
      BY <1>2, <2>1, <3>1
  <2>4. u[n] \in W
    BY <1>2, <2>1
  <2>5. QED
    BY <1>2, <2>2, <2>3, <2>4 DEF Stacks
<1> HIDE DEF u
<1>4. u # <<>>
  BY <1>2
<1>5. Append(Front(u), f) \in Stacks(W, T)
  BY <1>3, <1>4, TopReplaced DEF u
<1>6. QED
  BY <1>5 DEF u

(* The sets may grow. *)
LEMMA StacksGrow ==
    ASSUME NEW W, NEW T, NEW V, NEW U, W \subseteq V, T \subseteq U
    PROVE  Stacks(W, T) \subseteq Stacks(V, U)
BY DEF Stacks

-----------------------------------------------------------------------------
(* Moves of a goroutine, for any sets of frames W and T that are V and U   *)
(* after it.                                                               *)

Held(W, T) == stack \in [Procs -> Stacks(W, T)]

LEMMA GotoHeld ==
    ASSUME NEW W, NEW T, NEW V, NEW U, W \subseteq V, T \subseteq U, Held(W, T),
           NEW p \in Procs, stack[p] # <<>>,
           NEW f \in U, f \in Frames, SameCall(Top(p), f), Goto(p, f)
    PROVE  stack' \in [Procs -> Stacks(V, U)]
<1>1. stack \in [Procs -> Stacks(V, U)]
  BY StacksGrow DEF Held
<1>2. Append(Front(stack[p]), f) \in Stacks(V, U)
  BY <1>1, TopReplaced DEF Top
<1>3. QED
  BY <1>1, <1>2 DEF Goto

LEMMA InvokeHeld ==
    ASSUME NEW W, NEW T, NEW V, NEW U, W \subseteq V, T \subseteq U, Held(W, T),
           NEW p \in Procs, stack[p] # <<>>,
           NEW f \in V, f \in Frames, SameCall(Top(p), f),
           NEW g \in U, g \in Frames, Awaits(f, g), Invoke(p, f, g)
    PROVE  stack' \in [Procs -> Stacks(V, U)]
<1>1. stack \in [Procs -> Stacks(V, U)]
  BY StacksGrow DEF Held
<1>2. Append(Append(Front(stack[p]), f), g) \in Stacks(V, U)
  BY <1>1, CallMade DEF Top
<1>3. QED
  BY <1>1, <1>2 DEF Invoke

LEMMA ReturnHeld ==
    ASSUME NEW W, NEW T, NEW V, NEW U, W \subseteq V, T \subseteq U, Held(W, T),
           NEW p \in Procs, stack[p] # <<>>, NEW v \in Values, Return(p, v),
           \A f \in W \intersect Frames :
               Awaits(f, Top(p)) => [f EXCEPT !.got = v] \in U
    PROVE  stack' \in [Procs -> Stacks(V, U)]
<1> DEFINE s == stack[p]
           f == Last(Front(s))
           g == [f EXCEPT !.got = v]
<1>1. stack \in [Procs -> Stacks(V, U)] /\ s \in Stacks(V, U)
  BY StacksGrow DEF Held
<1>2. ASSUME Len(s) # 1 PROVE Append(Front(Front(s)), g) \in Stacks(V, U)
  <2>1. f \in W /\ f \in Frames /\ Awaits(f, Top(p))
    BY <1>2, TopOfStack DEF Held, Top
  <2>2. g \in U
    BY <2>1
  <2>3. g \in Frames /\ SameCall(f, g)
    BY <2>1 DEF Frames, SameCall
  <2> HIDE DEF g
  <2>4. QED
    BY <1>1, <1>2, <2>2, <2>3, CallReturned
<1>3. <<>> \in Stacks(V, U)
  BY DEF Stacks
<1> HIDE DEF g
<1>4. (IF Len(s) = 1 THEN <<>> ELSE Append(Front(Front(s)), g)) \in Stacks(V, U)
  BY <1>2, <1>3
<1>5. stack' = [stack EXCEPT ![p] = IF Len(s) = 1 THEN <<>> ELSE Append(Front(Front(s)), g)]
  BY DEF Return, g
<1>6. QED
  BY <1>1, <1>4, <1>5

LEMMA StartHeld ==
    ASSUME NEW W, NEW T, NEW V, NEW U, W \subseteq V, T \subseteq U, Held(W, T),
           NEW p \in Procs, NEW f \in U, f \in Frames, Bottom(f),
           stack' = [stack EXCEPT ![p] = <<f>>]
    PROVE  stack' \in [Procs -> Stacks(V, U)]
<1>1. stack \in [Procs -> Stacks(V, U)]
  BY StacksGrow DEF Held
<1>2. <<f>> \in Stacks(V, U)
  BY DEF Stacks
<1>3. QED
  BY <1>1, <1>2

-----------------------------------------------------------------------------
(* Presets.  A preset keeps the factory it replaces out of the cache, but  *)
(* not out of the stacks: as a dependency the factory is run all the same, *)
(* and what it returns is dropped.  So the invariant follows its values up *)
(* to the frame that drops them.                                           *)

Presets == ValuePresets \union DOMAIN Replacement

(* No replacement is itself preset: as a replacement it would be run all   *)
(* the same.                                                               *)
PlainReplacements == \A e \in DOMAIN Replacement : Replacement[e] \notin Presets

(* Not computed from what a replaced factory made. *)
Clean(data) == \A e \in Presets : <<e, 0>> \notin data

(* Only what is not preset has its dependencies run. *)
PresetWaiting ==
    { f \in Frames : Clean(f.data) /\ (f.at = "deps" => f.exec \notin Presets) }

PresetTop ==
    { f \in PresetWaiting :
        f.at \in {"gets", "store"} => Clean(f.got.data) }

PresetCache == \A e \in Execs : Clean(cache[e].data)

(* The version an Update stores is that of a call, which is never 0. *)
VersionsGiven ==
    \A p \in Procs : job[p].at \in {"self", "dependents"} => job[p].version > 0

PresetInv ==
    IInv /\ Held(PresetWaiting, PresetTop) /\ PresetCache /\ VersionsGiven

(* What is on top of a stack. *)
LEMMA PresetFrame ==
    ASSUME PresetInv, NEW p \in Procs, stack[p] # <<>>
    PROVE  /\ Top(p) \in PresetTop
           /\ Top(p) \in PresetWaiting
           /\ Top(p) \in Frames
           /\ Top(p).exec \in Execs
           /\ Top(p).i \in Nat
           /\ Top(p).data \in SUBSET Versions
           /\ Top(p).got \in Values
<1>1. Top(p) \in PresetTop /\ Top(p) \in Frames
  BY TopOfStack DEF PresetInv, Held, Top
<1>2. QED
  BY <1>1 DEF PresetTop, PresetWaiting, Frames

LEMMA NewFramesClean ==
    /\ NoValue \in Values /\ Failure \in Values
    /\ Clean({}) /\ Clean(NoValue.data) /\ Clean(Failure.data)
    /\ \A e \in Execs : /\ Resolve(e) \in PresetTop /\ Resolve(e) \in Frames
                        /\ ResolveAny(e) \in PresetTop /\ ResolveAny(e) \in Frames
<1>1. NoValue \in Values /\ Failure \in Values
  BY DEF NoValue, Failure, Value, Values, Kinds
<1>2. Clean({}) /\ NoValue.data = {} /\ Failure.data = {}
  BY DEF Clean, NoValue, Failure, Value
<1>3. ASSUME NEW e \in Execs, NEW at \in {"load", "gets"}
      PROVE  Frame(e, at) \in PresetTop /\ Frame(e, at) \in Frames
  <2>1. Frame(e, at) \in Frames
    BY <1>1 DEF Frame, Frames
  <2>2. Frame(e, at).data = {} /\ Frame(e, at).got = NoValue /\ Frame(e, at).at = at
    BY DEF Frame
  <2>3. QED
    BY <1>2, <2>1, <2>2 DEF PresetTop, PresetWaiting
<1>4. QED
  BY <1>1, <1>2, <1>3 DEF Resolve, ResolveAny

(* A step that only moves a goroutine on its stack. *)
LEMMA PresetMoved ==
    ASSUME PresetInv, IInv', UNCHANGED <<cache, job>>,
           stack' \in [Procs -> Stacks(PresetWaiting, PresetTop)]
    PROVE  PresetInv'
BY DEF PresetInv, PresetCache, VersionsGiven, Held, PresetWaiting, PresetTop

LEMMA LoadKeepsPresets ==
    ASSUME PresetInv, IInv', NEW p \in Procs, Load(p) PROVE PresetInv'
<1>1. stack[p] # <<>> /\ Top(p).at = "load" /\ UNCHANGED <<cache, job>>
  BY DEF Load, At
<1>2. PICK f \in Frames : f = Top(p) /\ f \in PresetWaiting /\ f.exec \in Execs
  BY <1>1, PresetFrame
<1>3. CASE Return(p, cache[f.exec])
  <2>1. PICK v \in Values : Return(p, v) /\ Clean(v.data)
    BY <1>2, <1>3 DEF PresetInv, IInv, Shape, PresetCache
  <2>2. ASSUME NEW h \in PresetWaiting \intersect Frames, Awaits(h, Top(p))
        PROVE  [h EXCEPT !.got = v] \in PresetTop
    <3>1. h.at = "gets"
      BY <1>1, <2>2 DEF Awaits
    <3>2. QED
      BY <2>1, <3>1 DEF PresetTop, PresetWaiting, Frames
  <2>3. stack' \in [Procs -> Stacks(PresetWaiting, PresetTop)]
    BY <1>1, <2>1, <2>2, ReturnHeld DEF PresetInv
  <2>4. QED
    BY <1>1, <2>3, PresetMoved
<1>4. CASE Goto(p, [f EXCEPT !.at = "link"])
  <2> DEFINE g == [f EXCEPT !.at = "link"]
  <2>1. g \in PresetTop /\ g \in Frames /\ SameCall(Top(p), g)
    BY <1>1, <1>2 DEF PresetTop, PresetWaiting, Frames, SameCall
  <2> HIDE DEF g
  <2>2. stack' \in [Procs -> Stacks(PresetWaiting, PresetTop)]
    BY <1>1, <1>4, <2>1, GotoHeld DEF PresetInv, g
  <2>3. QED
    BY <1>1, <2>2, PresetMoved
<1>5. QED
  BY <1>2, <1>3, <1>4 DEF Load

LEMMA LinkKeepsPresets ==
    ASSUME PlainReplacements, PresetInv, IInv', NEW p \in Procs, Link(p) PROVE PresetInv'
<1>1. stack[p] # <<>> /\ Top(p).at = "link" /\ UNCHANGED <<cache, job>>
  BY DEF Link, At
<1>2. PICK f \in Frames : f = Top(p) /\ f \in PresetWaiting /\ f.exec \in Execs
  BY <1>1, PresetFrame
<1> DEFINE e == f.exec
           got == Value("preset", 0, {<<e, PresetVersion>>})
<1>3. CASE Goto(p, [f EXCEPT !.at = "store", !.got = got])
  <2> DEFINE g == [f EXCEPT !.at = "store", !.got = got]
  <2>1. got \in Values /\ got.kind = "preset" /\ Clean(got.data)
    BY <1>2, ScopeAssumption DEF Value, Values, Kinds, Versions, PresetVersion, Clean
  <2> HIDE DEF got
  <2>2. g \in PresetTop /\ g \in Frames /\ SameCall(Top(p), g)
    BY <1>1, <1>2, <2>1 DEF PresetTop, PresetWaiting, Frames, SameCall
  <2> HIDE DEF g
  <2>3. stack' \in [Procs -> Stacks(PresetWaiting, PresetTop)]
    BY <1>1, <1>3, <2>2, GotoHeld DEF PresetInv, g
  <2>4. QED
    BY <1>1, <2>3, PresetMoved
<1>4. CASE /\ e \in DOMAIN Replacement
           /\ Invoke(p, [f EXCEPT !.at = "store"], ResolveAny(Replacement[e]))
  <2> DEFINE g == [f EXCEPT !.at = "store"]
             h == ResolveAny(Replacement[e])
  <2>1. g \in PresetWaiting /\ g \in Frames /\ SameCall(Top(p), g) /\ g.at = "store" /\ g.exec = e
    BY <1>1, <1>2 DEF PresetWaiting, Frames, SameCall
  <2>2. h \in PresetTop /\ h \in Frames
    BY <1>4, ScopeAssumption, NewFramesClean
  <2>3. Awaits(g, h)
    BY <1>4, <2>1, ScopeAssumption DEF Awaits, Maker, ResolveAny, Frame
  <2> HIDE DEF g, h
  <2>4. stack' \in [Procs -> Stacks(PresetWaiting, PresetTop)]
    BY <1>1, <1>4, <2>1, <2>2, <2>3, InvokeHeld DEF PresetInv, g, h
  <2>5. QED
    BY <1>1, <2>4, PresetMoved
<1>5. CASE e \notin Presets /\ Goto(p, [f EXCEPT !.at = "deps"])
  <2> DEFINE g == [f EXCEPT !.at = "deps"]
  <2>1. g \in PresetTop /\ g \in Frames /\ SameCall(Top(p), g)
    BY <1>1, <1>2, <1>5 DEF PresetTop, PresetWaiting, Frames, SameCall
  <2> HIDE DEF g
  <2>2. stack' \in [Procs -> Stacks(PresetWaiting, PresetTop)]
    BY <1>1, <1>5, <2>1, GotoHeld DEF PresetInv, g
  <2>3. QED
    BY <1>1, <2>2, PresetMoved
<1>6. QED
  BY <1>2, <1>3, <1>4, <1>5 DEF Link, Presets

LEMMA PreResolveKeepsPresets ==
    ASSUME PresetInv, IInv', NEW p \in Procs, PreResolve(p) PROVE PresetInv'
<1>1. stack[p] # <<>> /\ Top(p).at = "deps" /\ UNCHANGED <<cache, job>>
  BY DEF PreResolve, At
<1>2. PICK f \in Frames : f = Top(p) /\ f \in PresetWaiting /\ f.exec \in Execs /\ f.i \in Nat
  BY <1>1, PresetFrame
<1> DEFINE e == f.exec
<1>3. CASE Return(p, Failure)
  <2>1. ASSUME NEW h \in PresetWaiting \intersect Frames, Awaits(h, Top(p))
        PROVE  [h EXCEPT !.got = Failure] \in PresetTop
    <3>1. h.at = "gets"
      BY <1>1, <2>1 DEF Awaits
    <3>2. QED
      BY <3>1, NewFramesClean DEF PresetTop, PresetWaiting, Frames
  <2>2. stack' \in [Procs -> Stacks(PresetWaiting, PresetTop)]
    BY <1>1, <1>3, <2>1, ReturnHeld, NewFramesClean DEF PresetInv
  <2>3. QED
    BY <1>1, <2>2, PresetMoved
<1>4. ASSUME NEW g, NEW d \in Execs, g \in PresetWaiting, SameCall(f, g), Awaits(g, ResolveAny(d)),
             Invoke(p, g, ResolveAny(d))
      PROVE  PresetInv'
  <2>1. g \in Frames /\ ResolveAny(d) \in PresetTop /\ ResolveAny(d) \in Frames
    BY <1>4, NewFramesClean DEF PresetWaiting
  <2>2. stack' \in [Procs -> Stacks(PresetWaiting, PresetTop)]
    BY <1>1, <1>2, <1>4, <2>1, InvokeHeld DEF PresetInv
  <2>3. QED
    BY <1>1, <2>2, PresetMoved
<1>5. CASE /\ f.i < Len(Eager[e])
           /\ Invoke(p, [f EXCEPT !.i = @ + 1, !.got = NoValue], ResolveAny(Eager[e][f.i + 1]))
  <2> DEFINE n == f.i + 1
             g == [f EXCEPT !.i = n, !.got = NoValue]
             d == Eager[e][n]
  <2>1. n \in Nat /\ n \in 1..Len(Eager[e]) /\ Eager[e] \in Seq(Execs)
    BY <1>2, <1>5, ExecutorsAssumption
  <2> HIDE DEF n
  <2>2. d \in Execs /\ d \in ToSet(Eager[e])
    BY <2>1 DEF ToSet
  <2> HIDE DEF d
  <2>3. g \in PresetWaiting /\ SameCall(f, g) /\ g.at = "deps" /\ g.exec = e
    BY <1>1, <1>2, <2>1, NewFramesClean DEF PresetWaiting, Frames, SameCall
  <2>4. Awaits(g, ResolveAny(d))
    BY <2>2, <2>3 DEF Awaits, ResolveAny, Frame
  <2> HIDE DEF g
  <2>5. Invoke(p, g, ResolveAny(d))
    BY <1>5 DEF g, d, n
  <2>6. QED
    BY <1>4, <2>2, <2>3, <2>4, <2>5
<1>6. CASE /\ e \notin Presets
           /\ Invoke(p, [f EXCEPT !.at = "store", !.got = NoValue], ResolveAny(e))
  <2> DEFINE g == [f EXCEPT !.at = "store", !.got = NoValue]
  <2>1. g \in PresetWaiting /\ SameCall(f, g) /\ g.at = "store" /\ g.exec = e
    BY <1>1, <1>2, NewFramesClean DEF PresetWaiting, Frames, SameCall
  <2>2. Awaits(g, ResolveAny(e))
    BY <1>6, <2>1 DEF Awaits, ResolveAny, Frame, Maker, Presets
  <2> HIDE DEF g
  <2>3. QED
    BY <1>2, <1>4, <1>6, <2>1, <2>2 DEF g
<1>7. e \notin Presets
  BY <1>1, <1>2 DEF PresetWaiting
<1>8. QED
  BY <1>2, <1>3, <1>5, <1>6, <1>7 DEF PreResolve

LEMMA FactoryGetKeepsPresets ==
    ASSUME PresetInv, IInv', NEW p \in Procs, FactoryGet(p) PROVE PresetInv'
<1>1. stack[p] # <<>> /\ Top(p).at = "gets" /\ UNCHANGED <<cache, job>>
  BY DEF FactoryGet, At
<1>2. PICK f \in Frames : /\ f = Top(p)
                         /\ f \in PresetTop
                         /\ f.exec \in Execs
                         /\ f.i \in Nat
                         /\ f.data \union f.got.data \in SUBSET Versions
  BY <1>1, PresetFrame DEF Values
<1> DEFINE n == f.i + 1
           data == f.data \union f.got.data
           g == [f EXCEPT !.i = n, !.got = NoValue, !.data = data]
           d == Reads[f.exec][n]
<1>3. f.i < Len(Reads[f.exec]) /\ Invoke(p, g, Resolve(d))
  BY <1>2 DEF FactoryGet, Gather
<1>4. n \in Nat /\ n \in 1..Len(Reads[f.exec]) /\ d \in Execs
  BY <1>2, <1>3, ExecutorsAssumption
<1>5. Clean(data)
  BY <1>1, <1>2 DEF PresetTop, PresetWaiting, Clean
<1> HIDE DEF n, data
<1>6. /\ g \in PresetWaiting /\ g \in Frames /\ SameCall(Top(p), g)
      /\ g.at = "gets" /\ g.exec = f.exec /\ g.i = n
  BY <1>1, <1>2, <1>4, <1>5, NewFramesClean DEF PresetWaiting, Frames, SameCall, data
<1>7. Resolve(d) \in PresetTop /\ Resolve(d) \in Frames /\ Awaits(g, Resolve(d))
  BY <1>4, <1>6, NewFramesClean DEF Awaits, Resolve, Frame
<1> HIDE DEF g, d
<1>8. stack' \in [Procs -> Stacks(PresetWaiting, PresetTop)]
  BY <1>1, <1>3, <1>6, <1>7, InvokeHeld DEF PresetInv
<1>9. QED
  BY <1>1, <1>8, PresetMoved

LEMMA FactoryFailKeepsPresets ==
    ASSUME PresetInv, IInv', NEW p \in Procs, FactoryFail(p) PROVE PresetInv'
<1>1. stack[p] # <<>> /\ Top(p).at = "gets" /\ Return(p, Failure) /\ UNCHANGED <<cache, job>>
  BY DEF FactoryFail, At
<1>2. ASSUME NEW h \in PresetWaiting \intersect Frames
      PROVE  [h EXCEPT !.got = Failure] \in PresetTop
  <2>1. Failure.kind = "error"
    BY DEF Failure, Value
  <2>2. QED
    BY <2>1, NewFramesClean DEF PresetTop, PresetWaiting, Frames
<1>3. stack' \in [Procs -> Stacks(PresetWaiting, PresetTop)]
  BY <1>1, <1>2, ReturnHeld, NewFramesClean DEF PresetInv
<1>4. QED
  BY <1>1, <1>3, PresetMoved

LEMMA FactoryDoneKeepsPresets ==
    ASSUME PlainReplacements, PresetInv, IInv', NEW p \in Procs, FactoryDone(p)
    PROVE  PresetInv'
<1>1. stack[p] # <<>> /\ Top(p).at = "gets" /\ UNCHANGED <<cache, job>>
  BY DEF FactoryDone, At
<1>2. PICK f \in Frames : /\ f = Top(p)
                         /\ f \in PresetTop
                         /\ f.exec \in Execs
                         /\ f.data \union f.got.data \in SUBSET Versions
  BY <1>1, PresetFrame DEF Values
<1> DEFINE e == f.exec
           run == IF e \in Closers THEN Len(runs) + 1 ELSE 0
           data == {<<e, 0>>} \union f.data \union f.got.data
           v == Value("factory", run, data)
<1>3. Return(p, v)
  BY <1>2 DEF FactoryDone, Gather
<1>4. v \in Values /\ v.data = data
  <2>1. run \in Nat
    BY DEF PresetInv, IInv, Shape
  <2>2. data \in SUBSET Versions
    BY <1>2, ScopeAssumption DEF Versions, PresetVersion
  <2> HIDE DEF run, data
  <2>3. QED
    BY <2>1, <2>2 DEF Value, Values, Kinds
<1>5. e \notin Presets => Clean(data)
  BY <1>1, <1>2 DEF PresetTop, PresetWaiting, Clean
<1> HIDE DEF v, data
<1>6. ASSUME NEW h \in PresetWaiting \intersect Frames, Awaits(h, Top(p))
      PROVE  [h EXCEPT !.got = v] \in PresetTop
  <2>1. CASE h.at = "deps"
    BY <1>4, <2>1 DEF PresetTop, PresetWaiting, Frames
  <2>2. CASE h.at # "deps"
    <3>1. h.at = "store" /\ h.exec \notin ValuePresets /\ e = Maker(h.exec)
      BY <1>1, <1>2, <1>6, <2>2 DEF Awaits
    <3>2. e \notin Presets
      BY <3>1 DEF Maker, Presets, PlainReplacements
    <3>3. QED
      BY <1>4, <1>5, <3>1, <3>2 DEF PresetTop, PresetWaiting, Frames
  <2>3. QED
    BY <2>1, <2>2
<1>7. stack' \in [Procs -> Stacks(PresetWaiting, PresetTop)]
  BY <1>1, <1>3, <1>4, <1>6, ReturnHeld DEF PresetInv
<1>8. QED
  BY <1>1, <1>7, PresetMoved

LEMMA StoreValueKeepsPresets ==
    ASSUME PresetInv, IInv', NEW p \in Procs, StoreValue(p) PROVE PresetInv'
<1>1. stack[p] # <<>> /\ Top(p).at = "store" /\ UNCHANGED job
  BY DEF StoreValue, At
<1>2. PICK f \in Frames : f = Top(p) /\ f \in PresetTop /\ f.exec \in Execs /\ f.got \in Values
  BY <1>1, PresetFrame
<1> DEFINE e == f.exec
<1>3. PICK w : w = f.got
  OBVIOUS
<1>4. /\ Return(p, w)
      /\ UNCHANGED cache \/ cache' = [cache EXCEPT ![e] = w]
  BY <1>2, <1>3 DEF StoreValue
<1>5. w \in Values /\ Clean(w.data)
  BY <1>1, <1>2, <1>3 DEF PresetTop
<1>6. ASSUME NEW h \in PresetWaiting \intersect Frames, Awaits(h, Top(p))
      PROVE  [h EXCEPT !.got = w] \in PresetTop
  <2>1. h.at = "gets"
    BY <1>1, <1>6 DEF Awaits
  <2>2. QED
    BY <1>5, <2>1 DEF PresetTop, PresetWaiting, Frames
<1>7. stack' \in [Procs -> Stacks(PresetWaiting, PresetTop)]
  BY <1>1, <1>4, <1>5, <1>6, ReturnHeld DEF PresetInv
<1>8. PresetCache'
  BY <1>2, <1>4, <1>5 DEF PresetInv, IInv, Shape, PresetCache
<1>9. QED
  BY <1>1, <1>7, <1>8 DEF PresetInv, VersionsGiven, Held

(* The calls: those that start on an empty stack, those that empty an      *)
(* entry of the cache, and those that only begin a job.                    *)
LEMMA CallKeepsPresets ==
    ASSUME PresetInv, IInv', NEW p \in Procs, Call(p) PROVE PresetInv'
<1>1. job \in [Procs -> Jobs] /\ calls \in Nat
  BY DEF PresetInv, IInv, JobsSound, Shape
<1>2. ASSUME NEW e \in Execs, Get(p, e) \/ FlowDependency(p, e) \/ Release(p, e) \/ Reload(p, e)
      PROVE  PresetInv'
  <2>1. UNCHANGED job /\ (UNCHANGED cache \/ cache' = [cache EXCEPT ![e] = NoValue])
    BY <1>2 DEF Get, FlowDependency, Release, Reload
  <2>2. PresetCache'
    <3>1. Clean(NoValue.data) /\ NoValue.kind = "none"
      BY NewFramesClean DEF NoValue, Value
    <3>2. QED
      BY <2>1, <3>1 DEF PresetInv, IInv, Shape, PresetCache
  <2>3. Held(PresetWaiting, PresetTop)'
    <3>1. CASE UNCHANGED stack
      BY <3>1 DEF PresetInv, Held, PresetWaiting, PresetTop
    <3>2. CASE \/ stack' = [stack EXCEPT ![p] = <<Resolve(e)>>]
               \/ e \in FlowDeps /\ stack' = [stack EXCEPT ![p] = <<ResolveAny(e)>>]
      <4>1. Bottom(Resolve(e)) /\ (e \in FlowDeps => Bottom(ResolveAny(e)))
        BY DEF Bottom, Resolve, ResolveAny, Frame
      <4>2. stack' \in [Procs -> Stacks(PresetWaiting, PresetTop)]
        BY <3>2, <4>1, StartHeld, NewFramesClean DEF PresetInv
      <4>3. QED
        BY <4>2 DEF Held, PresetWaiting, PresetTop
    <3>3. QED
      BY <1>2, <3>1, <3>2 DEF Get, FlowDependency, Release, Reload
  <2>4. QED
    BY <2>1, <2>2, <2>3 DEF PresetInv, VersionsGiven
<1>3. ASSUME NEW e \in Execs, Update(p, e) PROVE PresetInv'
  <2>1. UNCHANGED <<cache, stack>> /\ job'[p].version > 0 /\ \A q \in Procs \ {p} : job'[q] = job[q]
    BY <1>1, <1>3 DEF Update
  <2>2. QED
    BY <2>1 DEF PresetInv, PresetCache, VersionsGiven, Held, PresetWaiting, PresetTop
<1>4. CASE Dispose(p)
  <2>1. /\ UNCHANGED <<cache, stack>>
        /\ job'[p].at \notin {"self", "dependents"}
        /\ \A q \in Procs \ {p} : job'[q] = job[q]
    BY <1>1, <1>4 DEF Dispose, NoJob
  <2>2. QED
    BY <2>1 DEF PresetInv, PresetCache, VersionsGiven, Held, PresetWaiting, PresetTop
<1>5. QED
  BY <1>2, <1>3, <1>4 DEF Call

(* Jobs leave the stacks alone, and store nothing but updates. *)
LEMMA JobKeepsPresets ==
    ASSUME PresetInv, IInv', NEW p \in Procs,
           \/ \E e \in Execs : UpdateSelf(p, e) \/ UpdateDependent(p, e)
                              \/ UpdateStore(p, e) \/ UpdateDelete(p, e)
           \/ UpdateCancelled(p)
           \/ \E r \in 1..Len(runs) : DisposeRun(p, r)
    PROVE  PresetInv'
<1>1. job \in [Procs -> Jobs] /\ UNCHANGED stack
  BY DEF PresetInv, IInv, JobsSound, UpdateSelf, UpdateDependent, UpdateStore, UpdateDelete,
         UpdateCancelled, DisposeRun
<1>2. job[p] \in Jobs
  BY <1>1
<1> DEFINE Kept == /\ \A q \in Procs \ {p} : job'[q] = job[q]
                   /\ job'[p].at \in {"self", "dependents"} =>
                        /\ job[p].at \in {"self", "dependents"}
                        /\ job'[p].version = job[p].version
<1>3. Kept
  <2>1. ASSUME NEW e \in Execs, UpdateSelf(p, e) \/ UpdateDependent(p, e) PROVE Kept
    <3>1. job[p].at \in {"self", "dependents"}
      BY <2>1 DEF UpdateSelf, UpdateDependent
    <3>2. \/ job' = [job EXCEPT ![p] = [job[p] EXCEPT !.at = "dependents"]]
          \/ job' = [job EXCEPT ![p] = [job[p] EXCEPT !.todo = @ \ {e}]]
      BY <1>1, <2>1 DEF UpdateSelf, UpdateDependent
    <3>3. QED
      BY <1>1, <1>2, <3>1, <3>2 DEF Jobs
  <2>2. ASSUME NEW j \in Jobs, j.at \notin {"self", "dependents"}, job' = [job EXCEPT ![p] = j]
        PROVE  Kept
    BY <1>1, <2>2
  <2>3. NoJob \in Jobs /\ NoJob.at = "idle"
    BY DEF NoJob, Jobs
  <2>4. ASSUME NEW e \in Execs, UpdateStore(p, e) PROVE Kept
    <3> DEFINE j == [job[p] EXCEPT !.at = "delete", !.todo = job[p].victims]
    <3>1. j \in Jobs /\ j.at = "delete"
      BY <1>2 DEF Jobs
    <3>2. job' = [job EXCEPT ![p] = NoJob] \/ job' = [job EXCEPT ![p] = j]
      BY <2>4 DEF UpdateStore
    <3> HIDE DEF j, Kept
    <3>3. QED
      BY <2>2, <2>3, <3>1, <3>2
  <2>5. ASSUME NEW e \in Execs, UpdateDelete(p, e) PROVE Kept
    <3> DEFINE j == [job[p] EXCEPT !.todo = @ \ {e}]
    <3>1. j \in Jobs /\ j.at = "delete"
      BY <1>2, <2>5 DEF Jobs, UpdateDelete
    <3>2. job' = [job EXCEPT ![p] = NoJob] \/ job' = [job EXCEPT ![p] = j]
      BY <2>5 DEF UpdateDelete
    <3> HIDE DEF j, Kept
    <3>3. QED
      BY <2>2, <2>3, <3>1, <3>2
  <2>6. ASSUME NEW r \in 1..Len(runs), DisposeRun(p, r) PROVE Kept
    <3> DEFINE j == [job[p] EXCEPT !.held = @ \ {r}]
    <3>1. j \in Jobs /\ j.at = "dispose"
      BY <1>2, <2>6 DEF Jobs, DisposeRun
    <3>2. job' = [job EXCEPT ![p] = NoJob] \/ job' = [job EXCEPT ![p] = j]
      BY <2>6 DEF DisposeRun
    <3> HIDE DEF j, Kept
    <3>3. QED
      BY <2>2, <2>3, <3>1, <3>2
  <2>7. ASSUME UpdateCancelled(p) PROVE Kept
    BY <2>2, <2>3, <2>7 DEF UpdateCancelled
  <2>8. QED
    BY <2>1, <2>4, <2>5, <2>6, <2>7
<1>4. VersionsGiven'
  <2>1. ASSUME NEW q \in Procs, job'[q].at \in {"self", "dependents"}
        PROVE  job'[q].version > 0
    <3>1. job[q].at \in {"self", "dependents"} /\ job'[q].version = job[q].version
      BY <1>3, <2>1
    <3>2. QED
      BY <3>1 DEF PresetInv, VersionsGiven
  <2>2. QED
    BY <2>1 DEF VersionsGiven
<1>5. PresetCache'
  <2>1. CASE UNCHANGED cache
    BY <2>1 DEF PresetInv, PresetCache
  <2>2. ASSUME NEW e \in Execs, cache' = [cache EXCEPT ![e] = NoValue] PROVE PresetCache'
    <3>1. Clean(NoValue.data) /\ NoValue.kind = "none"
      BY NewFramesClean DEF NoValue, Value
    <3>2. QED
      BY <2>2, <3>1 DEF PresetInv, IInv, Shape, PresetCache
  <2>3. ASSUME NEW e \in Execs, UpdateStore(p, e) PROVE PresetCache'
    <3> DEFINE v == Value("update", 0, {<<e, job[p].version>>})
    <3>1. cache' = [cache EXCEPT ![e] = v] /\ job[p].version > 0
      BY <2>3 DEF UpdateStore, PresetInv, VersionsGiven
    <3>2. Clean(v.data) /\ v.kind = "update"
      BY <3>1 DEF Clean, Value
    <3> HIDE DEF v
    <3>3. QED
      BY <3>1, <3>2 DEF PresetInv, IInv, Shape, PresetCache
  <2>4. QED
    BY <2>1, <2>2, <2>3 DEF UpdateSelf, UpdateDependent, UpdateDelete, UpdateCancelled, DisposeRun
<1>6. QED
  BY <1>1, <1>4, <1>5 DEF PresetInv, Held, PresetWaiting, PresetTop

LEMMA PresetStart == Init => PresetInv
<1> SUFFICES ASSUME Init PROVE PresetInv
  OBVIOUS
<1>1. IInv
  BY InitSound
<1>2. Held(PresetWaiting, PresetTop)
  BY DEF Init, Held, Stacks
<1>3. PresetCache /\ VersionsGiven
  BY NewFramesClean DEF Init, PresetCache, VersionsGiven, NoValue, NoJob, Value
<1>4. QED
  BY <1>1, <1>2, <1>3 DEF PresetInv

LEMMA PresetStep == PlainReplacements /\ PresetInv /\ [Next]_vars => PresetInv'
<1> SUFFICES ASSUME PlainReplacements, PresetInv, [Next]_vars PROVE PresetInv'
  OBVIOUS
<1>1. IInv'
  BY NextSound DEF PresetInv
<1>2. CASE UNCHANGED vars
  BY <1>1, <1>2 DEF vars, PresetInv, PresetCache, VersionsGiven, Held, PresetWaiting, PresetTop
<1>3. ASSUME NEW p \in Procs, Call(p) PROVE PresetInv'
  BY <1>1, <1>3, CallKeepsPresets
<1>4. ASSUME NEW p \in Procs, Step(p) PROVE PresetInv'
  BY <1>1, <1>4, LoadKeepsPresets, LinkKeepsPresets, PreResolveKeepsPresets,
     StoreValueKeepsPresets, FactoryGetKeepsPresets, FactoryFailKeepsPresets,
     FactoryDoneKeepsPresets, JobKeepsPresets DEF Step
<1>5. QED
  BY <1>2, <1>3, <1>4 DEF Next, AllReturned

(* What a preset replaces never reaches the cache, whatever interleaves,   *)
(* although its factory is run as a dependency of others: neither as the   *)
(* value of its own executor nor inside that of another (scope.go 119-152).*)
THEOREM PresetsKept == ASSUME PlainReplacements PROVE Spec => []PresetHolds
<1>1. PresetInv => PresetHolds
  BY ScopeAssumption DEF PresetInv, PresetCache, PresetHolds, Presets, Clean
<1>2. QED
  BY <1>1, PresetStart, PresetStep, PTL DEF Spec

-----------------------------------------------------------------------------
(* Updates apart.  Callers that keep an Update apart from all other calls, *)
(* or a single goroutine, see it run alone.                                *)
Apart == ~Overlap \/ \E p \in Procs : Procs = {p}

Updating(p) == job[p].at \in {"self", "dependents", "delete"}

(* An Update finds nobody inside a Resolve, nor is anybody while it goes   *)
(* on, so that the graph stays as it was when it found the dependents.     *)
UpdatesAlone ==
    \A p \in Procs : Updating(p) =>
        /\ \A q \in Procs : stack[q] = <<>> /\ (q # p => job[q] = NoJob)
        /\ \E e \in Updatable \intersect Execs :
              /\ job[p].target = {e}
              /\ job[p].victims = Dependents(e)
              /\ job[p].todo \subseteq Dependents(e)

AloneInv == IInv /\ UpdatesAlone

(* While anybody is inside a Resolve there is no Update, and nothing is    *)
(* doomed.                                                                 *)
LEMMA NobodyUpdates ==
    ASSUME UpdatesAlone, NEW p \in Procs, stack[p] # <<>>
    PROVE  (\A q \in Procs : ~Updating(q)) /\ Doomed = {}
<1>1. \A q \in Procs : ~Updating(q)
  BY DEF UpdatesAlone
<1>2. QED
  BY <1>1 DEF Updating, Doomed

LEMMA StackKeepsAlone ==
    ASSUME UpdatesAlone, NEW p \in Procs, stack[p] # <<>>, UNCHANGED job
    PROVE  UpdatesAlone' /\ Doomed = {} /\ Doomed' = {}
BY NobodyUpdates DEF UpdatesAlone, Updating, Doomed

(* No call begins while anybody updates, and an Update begins alone. *)
LEMMA BeginsAlone ==
    ASSUME Apart, NEW p \in Procs
    PROVE  /\ \A call : Begin(p, call) => \A q \in Procs : job[q] = NoJob
           /\ \A e : Update(p, e) => \A q \in Procs : stack[q] = <<>> /\ job[q] = NoJob
<1>1. Idle(p) /\ (\E q \in Procs : Procs = {q}) => Quiet
  BY DEF Quiet
<1>2. ASSUME NEW call, Begin(p, call) PROVE \A q \in Procs : job[q] = NoJob
  BY <1>1, <1>2 DEF Begin, Apart, Quiet, Idle
<1>3. ASSUME NEW e, Update(p, e) PROVE Quiet
  BY <1>1, <1>3 DEF Update, Begin, Apart
<1>4. QED
  BY <1>2, <1>3 DEF Quiet, Idle

LEMMA CallAlone ==
    ASSUME Apart, AloneInv, NEW p \in Procs, Call(p)
    PROVE  UpdatesAlone' /\ Doomed = {} /\ Doomed' = {}
<1>1. job \in [Procs -> Jobs]
  BY DEF AloneInv, IInv, JobsSound
<1>2. \A q \in Procs : job[q] = NoJob
  BY BeginsAlone DEF Call, Get, FlowDependency, Release, Reload, Update, Dispose
<1>3. NoJob.at = "idle"
  BY DEF NoJob
<1>4. CASE UNCHANGED job
  BY <1>2, <1>3, <1>4 DEF UpdatesAlone, Updating, Doomed
<1>5. ASSUME NEW e \in Execs, Update(p, e) PROVE UpdatesAlone' /\ Doomed = {} /\ Doomed' = {}
  <2>1. /\ e \in Updatable
        /\ UNCHANGED <<edges, stack>>
        /\ \A q \in Procs : stack[q] = <<>>
        /\ \A q \in Procs \ {p} : job'[q] = NoJob
        /\ job'[p] = [at |-> "self", target |-> {e}, version |-> calls + 1,
                      victims |-> Dependents(e), todo |-> Dependents(e), held |-> {}]
    BY <1>1, <1>2, <1>5, BeginsAlone DEF Update
  <2>2. Dependents(e)' = Dependents(e)
    BY <2>1 DEF Dependents, Reach, Closed
  <2>3. \A q \in Procs : job'[q].at # "delete" /\ (Updating(q)' => q = p)
    BY <1>3, <2>1 DEF Updating
  <2>4. /\ job'[p].target = {e}
        /\ job'[p].victims = Dependents(e)'
        /\ job'[p].todo \subseteq Dependents(e)'
    BY <2>1, <2>2
  <2>5. UpdatesAlone'
    BY <2>1, <2>3, <2>4 DEF UpdatesAlone
  <2>6. QED
    BY <1>2, <1>3, <2>3, <2>5 DEF Doomed
<1>6. CASE Dispose(p)
  <2>1. /\ \A q \in Procs \ {p} : job'[q] = NoJob
        /\ job'[p].at \in {"idle", "dispose"}
    BY <1>1, <1>2, <1>6 DEF Dispose, NoJob
  <2>2. \A q \in Procs : ~Updating(q)' /\ job'[q].at # "delete"
    BY <1>3, <2>1 DEF Updating
  <2>3. QED
    BY <1>2, <1>3, <2>2 DEF UpdatesAlone, Doomed
<1>7. QED
  BY <1>4, <1>5, <1>6 DEF Call, Get, FlowDependency, Release, Reload

(* The one Update there is goes on as j. *)
LEMMA UpdateGoesOn ==
    ASSUME AloneInv, NEW p \in Procs, Updating(p), NEW j \in Jobs,
           job' = [job EXCEPT ![p] = j], UNCHANGED <<edges, stack>>,
           j.at \in {"self", "dependents", "delete"} =>
               /\ j.target = job[p].target
               /\ j.victims = job[p].victims
               /\ j.todo \subseteq job[p].todo \union job[p].victims
    PROVE  /\ \A q \in Procs : stack[q] = <<>>
           /\ UpdatesAlone'
           /\ Doomed = IF job[p].at = "delete" THEN job[p].todo ELSE {}
           /\ Doomed' = IF j.at = "delete" THEN j.todo ELSE {}
<1>1. job \in [Procs -> Jobs]
  BY DEF AloneInv, IInv, JobsSound
<1>2. \A q \in Procs : stack[q] = <<>> /\ (q # p => job[q] = NoJob)
  BY DEF AloneInv, UpdatesAlone
<1>3. /\ job'[p] = j
      /\ \A q \in Procs : q # p => job'[q] = NoJob
  BY <1>1, <1>2
<1>4. NoJob.at = "idle"
  BY DEF NoJob
<1>5. /\ Doomed = IF job[p].at = "delete" THEN job[p].todo ELSE {}
      /\ Doomed' = IF j.at = "delete" THEN j.todo ELSE {}
  <2>1. \A q \in Procs : job[q].at = "delete" => q = p
    BY <1>2, <1>4
  <2>2. \A q \in Procs : job'[q].at = "delete" => q = p
    BY <1>3, <1>4
  <2>3. /\ { q \in Procs : job[q].at = "delete" } = IF job[p].at = "delete" THEN {p} ELSE {}
        /\ { q \in Procs : job'[q].at = "delete" } = IF j.at = "delete" THEN {p} ELSE {}
    BY <1>3, <2>1, <2>2
  <2>4. QED
    BY <1>3, <2>3 DEF Doomed
<1>6. UpdatesAlone'
  <2>1. PICK e \in Updatable \intersect Execs :
            /\ job[p].target = {e}
            /\ job[p].victims = Dependents(e)
            /\ job[p].todo \subseteq Dependents(e)
    BY DEF AloneInv, UpdatesAlone
  <2>2. Dependents(e)' = Dependents(e)
    BY DEF Dependents, Reach, Closed
  <2>3. Updating(p)' => /\ job'[p].target = {e}
                        /\ job'[p].victims = Dependents(e)'
                        /\ job'[p].todo \subseteq Dependents(e)'
    BY <1>3, <2>1, <2>2 DEF Updating
  <2>4. \A q \in Procs : Updating(q)' => q = p
    BY <1>3, <1>4 DEF Updating
  <2>5. \A q \in Procs : stack'[q] = <<>>
    BY <1>2
  <2>6. QED
    BY <1>3, <2>3, <2>4, <2>5 DEF UpdatesAlone
<1>7. QED
  BY <1>2, <1>5, <1>6

(* The cleanups. *)
LEMMA CleanupAlone ==
    ASSUME AloneInv, NEW p \in Procs, NEW e \in Execs,
           UpdateSelf(p, e) \/ UpdateDependent(p, e)
    PROVE  /\ \A q \in Procs : stack[q] = <<>>
           /\ UpdatesAlone' /\ Doomed = {} /\ Doomed' = {}
<1> DEFINE j == IF job[p].at = "self" THEN [job[p] EXCEPT !.at = "dependents"]
                ELSE [job[p] EXCEPT !.todo = @ \ {e}]
<1>1. /\ UNCHANGED <<edges, stack>>
      /\ job[p].at \in {"self", "dependents"}
      /\ job' = [job EXCEPT ![p] = j]
  BY DEF UpdateSelf, UpdateDependent
<1>2. job[p] \in Jobs
  BY DEF AloneInv, IInv, JobsSound
<1>3. /\ j \in Jobs /\ j.at = "dependents"
      /\ j.target = job[p].target /\ j.victims = job[p].victims /\ j.todo \subseteq job[p].todo
  BY <1>1, <1>2 DEF Jobs
<1> HIDE DEF j
<1>4. QED
  BY <1>1, <1>3, UpdateGoesOn DEF Updating

LEMMA CancelAlone ==
    ASSUME AloneInv, NEW p \in Procs, UpdateCancelled(p)
    PROVE  /\ \A q \in Procs : stack[q] = <<>>
           /\ UpdatesAlone' /\ Doomed = {} /\ Doomed' = {}
<1>1. NoJob \in Jobs /\ NoJob.at = "idle"
  BY DEF NoJob, Jobs
<1>2. QED
  BY <1>1, UpdateGoesOn DEF UpdateCancelled, Updating

(* The new value is stored, and what depends on it is doomed. *)
LEMMA UpdateStored ==
    ASSUME AloneInv, NEW p \in Procs, NEW e \in Execs, UpdateStore(p, e)
    PROVE  /\ e \in Updatable
           /\ cache' = [cache EXCEPT ![e] = Value("update", 0, {<<e, job[p].version>>})]
           /\ \A q \in Procs : stack[q] = <<>>
           /\ UpdatesAlone'
           /\ job[p].victims = Dependents(e)
           /\ Doomed = {}
           /\ Doomed' = Dependents(e)
<1>1. PICK x \in Updatable \intersect Execs :
          job[p].target = {x} /\ job[p].victims = Dependents(x)
  BY DEF AloneInv, UpdatesAlone, UpdateStore, Updating
<1>2. x = e /\ e \in Updatable /\ job[p].victims = Dependents(e)
  BY <1>1 DEF UpdateStore
<1>3. job[p] \in Jobs
  BY DEF AloneInv, IInv, JobsSound
<1> DEFINE j == IF job[p].victims = {} THEN NoJob
                ELSE [job[p] EXCEPT !.at = "delete", !.todo = job[p].victims]
<1>4. /\ j \in Jobs
      /\ j.at \in {"self", "dependents", "delete"} =>
             /\ j.target = job[p].target
             /\ j.victims = job[p].victims
             /\ j.todo \subseteq job[p].todo \union job[p].victims
      /\ (IF j.at = "delete" THEN j.todo ELSE {}) = Dependents(e)
  BY <1>2, <1>3 DEF Jobs, NoJob
<1>5. /\ job' = [job EXCEPT ![p] = j] /\ UNCHANGED <<edges, stack>>
      /\ job[p].at = "dependents" /\ Updating(p)
  BY DEF UpdateStore, Updating
<1> HIDE DEF j
<1>6. /\ \A q \in Procs : stack[q] = <<>>
      /\ UpdatesAlone'
      /\ Doomed = IF job[p].at = "delete" THEN job[p].todo ELSE {}
      /\ Doomed' = IF j.at = "delete" THEN j.todo ELSE {}
  BY <1>4, <1>5, UpdateGoesOn
<1>7. QED
  BY <1>2, <1>4, <1>5, <1>6 DEF UpdateStore

LEMMA DeleteAlone ==
    ASSUME AloneInv, NEW p \in Procs, NEW d \in Execs, UpdateDelete(p, d)
    PROVE  /\ \A q \in Procs : stack[q] = <<>>
           /\ UpdatesAlone'
           /\ Doomed' = Doomed \ {d}
           /\ d \in Doomed
<1>1. job[p] \in Jobs
  BY DEF AloneInv, IInv, JobsSound
<1> DEFINE j == IF job[p].todo = {d} THEN NoJob ELSE [job[p] EXCEPT !.todo = @ \ {d}]
<1>2. /\ job[p].at = "delete" /\ d \in job[p].todo
      /\ job' = [job EXCEPT ![p] = j]
      /\ UNCHANGED <<edges, stack>>
  BY DEF UpdateDelete
<1>3. /\ j \in Jobs
      /\ j.at \in {"self", "dependents", "delete"} =>
             /\ j.target = job[p].target
             /\ j.victims = job[p].victims
             /\ j.todo \subseteq job[p].todo \union job[p].victims
      /\ (IF j.at = "delete" THEN j.todo ELSE {}) = job[p].todo \ {d}
  BY <1>1, <1>2 DEF Jobs, NoJob
<1> HIDE DEF j
<1>4. QED
  BY <1>2, <1>3, UpdateGoesOn DEF Updating

LEMMA DisposeAlone ==
    ASSUME AloneInv, NEW p \in Procs, NEW r, DisposeRun(p, r)
    PROVE  UpdatesAlone' /\ Doomed = {} /\ Doomed' = {}
<1>1. job \in [Procs -> Jobs]
  BY DEF AloneInv, IInv, JobsSound
<1>2. job[p].at = "dispose" /\ UNCHANGED <<cache, edges, stack>>
  BY DEF DisposeRun
<1>3. \A q \in Procs : ~Updating(q)
  BY <1>2 DEF AloneInv, UpdatesAlone, Updating, NoJob
<1>4. \A q \in Procs : ~Updating(q)'
  <2>1. \A q \in Procs \ {p} : job'[q] = job[q]
    BY <1>1 DEF DisposeRun
  <2>2. job'[p].at \in {"idle", "dispose"}
    BY <1>1, <1>2 DEF DisposeRun, NoJob, Jobs
  <2>3. QED
    BY <1>3, <2>1, <2>2 DEF Updating
<1>5. Doomed = {} /\ Doomed' = {}
  BY <1>3, <1>4 DEF Updating, Doomed
<1>6. QED
  BY <1>4, <1>5 DEF UpdatesAlone

LEMMA AloneStart == Init => AloneInv
<1>1. Init => UpdatesAlone
  BY DEF Init, UpdatesAlone, Updating, NoJob
<1>2. QED
  BY <1>1, InitSound DEF AloneInv

LEMMA AloneStep == Apart /\ AloneInv /\ [Next]_vars => AloneInv'
<1> SUFFICES ASSUME Apart, AloneInv, [Next]_vars PROVE UpdatesAlone'
  BY NextSound DEF AloneInv
<1>1. CASE UNCHANGED vars
  <2>1. \A e \in Execs : Dependents(e)' = Dependents(e)
    BY <1>1 DEF vars, Dependents, Reach, Closed
  <2>2. QED
    BY <1>1, <2>1 DEF vars, AloneInv, UpdatesAlone, Updating
<1>2. ASSUME NEW p \in Procs, Call(p) PROVE UpdatesAlone'
  BY <1>2, CallAlone
<1>3. ASSUME NEW p \in Procs, Step(p) PROVE UpdatesAlone'
  <2>1. ASSUME \/ Load(p) \/ Link(p) \/ PreResolve(p) \/ StoreValue(p) \/ FactoryGet(p)
               \/ FactoryFail(p) \/ FactoryDone(p)
        PROVE  stack[p] # <<>> /\ UNCHANGED job
    BY <2>1 DEF Load, Link, PreResolve, StoreValue, FactoryGet, FactoryFail, FactoryDone, At
  <2>2. QED
    BY <1>3, <2>1, StackKeepsAlone, CleanupAlone, CancelAlone, UpdateStored, DeleteAlone,
       DisposeAlone DEF Step, AloneInv
<1>4. QED
  BY <1>1, <1>2, <1>3 DEF Next, AllReturned

-----------------------------------------------------------------------------
(* Freshness.  With updates apart, a value that has been read stays as it  *)
(* is while anybody is inside a Resolve, so that two goroutines that make  *)
(* the same value make it from the same inputs.                            *)

(* Updates are apart, and the callers leave the cache to them. *)
Exclusive == Apart /\ Calls \intersect {"Release", "Reload"} = {}

Cached(e) == cache[e].kind # "none"

(* What the factory run for e reads is there, and what it makes of it. *)
Inputs(e) == ToSet(Reads[Maker(e)])

Ready(e) == e \in ValuePresets \/ \A d \in Inputs(e) : Cached(d)

Makes(e) ==
    IF e \in ValuePresets THEN {<<e, PresetVersion>>}
    ELSE {<<Maker(e), 0>>} \union UNION { cache[d].data : d \in Inputs(e) }

(* If somebody else was faster, it has stored what this call will store. *)
Settled(e) == Cached(e) => Ready(e) /\ cache[e].data = Makes(e)

(* The factory of e has read its first n inputs, and data is what it read. *)
HasRead(e, n, data) ==
    /\ n \in 0..Len(Reads[e])
    /\ \A k \in 1..n : Cached(Reads[e][k])
    /\ data = UNION { cache[Reads[e][k]].data : k \in 1..n }

FreshWaiting ==
    { f \in Frames :
        /\ f.at \in {"link", "deps", "store"} => Settled(f.exec)
        /\ f.at = "deps" => f.exec \notin Presets
        /\ f.at = "gets" => \/ f.i = 0 /\ f.data = {}
                            \/ /\ f.i \in 1..Len(Reads[f.exec])
                               /\ HasRead(f.exec, f.i - 1, f.data) }

(* What comes back to the Resolve of e. *)
Given(e) == IF e \in ValuePresets THEN "preset" ELSE "factory"

FreshTop ==
    { f \in FreshWaiting :
        /\ f.at = "gets" => \/ f.got.kind = "error"
                            \/ HasRead(f.exec, f.i, f.data \union f.got.data)
        /\ f.at = "store" => \/ f.got.kind = "error"
                             \/ /\ f.got.kind = Given(f.exec)
                                /\ Ready(f.exec)
                                /\ f.got.data = Makes(f.exec) }

(* A value that is not doomed has its reactive dependencies, in it. *)
CacheFresh ==
    \A e \in Execs :
        (cache[e].kind = "factory" /\ e \notin Doomed /\ e \notin DOMAIN Replacement) =>
            \A d \in Reactive[e] :
                d \notin Doomed /\ Cached(d) /\ cache[d].data \subseteq cache[e].data

FreshInv == AloneInv /\ Held(FreshWaiting, FreshTop) /\ CacheFresh

(* What is on top of a stack, whatever is known of the frames. *)
LEMMA TopHeld ==
    ASSUME NEW W, NEW T, Held(W, T), NEW p \in Procs, stack[p] # <<>>
    PROVE  /\ Top(p) \in T
           /\ Top(p) \in Frames
           /\ Top(p).exec \in Execs
           /\ Top(p).i \in Nat
           /\ Top(p).data \in SUBSET Versions
           /\ Top(p).got \in Values
           /\ Top(p).got.data \in SUBSET Versions
<1>1. Top(p) \in T /\ Top(p) \in Frames
  BY TopOfStack DEF Held, Top
<1>2. QED
  BY <1>1 DEF Frames, Values

-----------------------------------------------------------------------------
(* The cache only grows, by values made of what it holds. *)
Grows ==
    \A e \in Execs :
        /\ Cached(e) => Cached(e)' /\ cache'[e].data = cache[e].data
        /\ ~Cached(e) /\ Cached(e)' => Ready(e) /\ cache'[e].data = Makes(e)

LEMMA InputsTyped ==
    ASSUME NEW e \in Execs
    PROVE  /\ Maker(e) \in Execs
           /\ Reads[Maker(e)] \in Seq(Execs)
           /\ Inputs(e) \subseteq Execs
<1>1. Maker(e) \in Execs
  BY ScopeAssumption DEF Maker
<1>2. Reads[Maker(e)] \in Seq(Execs)
  BY <1>1, ExecutorsAssumption
<1>3. QED
  BY <1>1, <1>2 DEF Inputs, ToSet

LEMMA ReadyKept ==
    ASSUME Grows, NEW e \in Execs, Ready(e)
    PROVE  Ready(e)' /\ Makes(e)' = Makes(e)
<1>1. Ready(e)'
  BY InputsTyped DEF Grows, Ready, Inputs, Maker
<1>2. CASE e \in ValuePresets
  BY <1>1, <1>2 DEF Makes, PresetVersion
<1>3. CASE e \notin ValuePresets
  <2>1. \A d \in Inputs(e) : cache'[d].data = cache[d].data
    BY <1>3, InputsTyped DEF Grows, Ready
  <2>2. { cache'[d].data : d \in Inputs(e) } = { cache[d].data : d \in Inputs(e) }
    BY <2>1
  <2>3. QED
    BY <1>1, <1>3, <2>2 DEF Makes, Maker, Inputs, PresetVersion
<1>4. QED
  BY <1>1, <1>2, <1>3

LEMMA SettledKept ==
    ASSUME Grows, NEW e \in Execs, Settled(e)
    PROVE  Settled(e)'
<1>1. CASE Cached(e)
  <2>1. Ready(e) /\ cache[e].data = Makes(e)
    BY <1>1 DEF Settled
  <2>2. cache'[e].data = cache[e].data
    BY <1>1 DEF Grows
  <2>3. QED
    BY <2>1, <2>2, ReadyKept DEF Settled
<1>2. CASE ~Cached(e)
  <2>1. CASE Cached(e)'
    <3>1. Ready(e) /\ cache'[e].data = Makes(e)
      BY <1>2, <2>1 DEF Grows
    <3>2. QED
      BY <3>1, ReadyKept DEF Settled
  <2>2. QED
    BY <2>1 DEF Settled
<1>3. QED
  BY <1>1, <1>2

LEMMA HasReadKept ==
    ASSUME Grows, NEW e \in Execs, NEW n, NEW data, HasRead(e, n, data)
    PROVE  HasRead(e, n, data)'
<1>1. n \in 0..Len(Reads[e]) /\ Reads[e] \in Seq(Execs)
  BY ExecutorsAssumption DEF HasRead
<1>2. \A k \in 1..n : Reads[e][k] \in Execs
  BY <1>1
<1>3. \A k \in 1..n : Cached(Reads[e][k])' /\ cache'[Reads[e][k]].data = cache[Reads[e][k]].data
  BY <1>2 DEF Grows, HasRead
<1>4. { cache'[Reads[e][k]].data : k \in 1..n } = { cache[Reads[e][k]].data : k \in 1..n }
  BY <1>3
<1>5. QED
  BY <1>1, <1>3, <1>4 DEF HasRead

(* So what is known of the frames stays known. *)
LEMMA FramesKept ==
    ASSUME Grows
    PROVE  FreshWaiting \subseteq FreshWaiting' /\ FreshTop \subseteq FreshTop'
<1>1. ASSUME NEW f \in FreshWaiting PROVE f \in FreshWaiting'
  <2>1. f \in Frames /\ f.exec \in Execs
    BY DEF FreshWaiting, Frames
  <2>2. f.at \in {"link", "deps", "store"} => Settled(f.exec)'
    BY <2>1, SettledKept DEF FreshWaiting
  <2>3. f.at = "gets" => \/ f.i = 0 /\ f.data = {}
                         \/ /\ f.i \in 1..Len(Reads[f.exec])
                            /\ HasRead(f.exec, f.i - 1, f.data)'
    BY <2>1, HasReadKept DEF FreshWaiting
  <2>4. QED
    BY <2>1, <2>2, <2>3 DEF FreshWaiting
<1>2. ASSUME NEW f \in FreshTop PROVE f \in FreshTop'
  <2>1. f \in FreshWaiting' /\ f.exec \in Execs
    BY <1>1 DEF FreshTop, FreshWaiting, Frames
  <2>2. f.at = "gets" => \/ f.got.kind = "error"
                         \/ HasRead(f.exec, f.i, f.data \union f.got.data)'
    BY <2>1, HasReadKept DEF FreshTop
  <2>3. f.at = "store" => \/ f.got.kind = "error"
                          \/ Ready(f.exec)' /\ f.got.data = Makes(f.exec)'
    BY <2>1, ReadyKept DEF FreshTop
  <2>4. QED
    BY <2>1, <2>2, <2>3 DEF FreshTop
<1>3. QED
  BY <1>1, <1>2

LEMMA CacheKept == ASSUME UNCHANGED cache PROVE Grows
BY DEF Grows, Cached

(* A step of a goroutine on its stack: with the cache as it was, or grown. *)
LEMMA FreshGrown ==
    ASSUME AloneInv', CacheFresh', stack' \in [Procs -> Stacks(FreshWaiting', FreshTop')]
    PROVE  FreshInv'
BY DEF FreshInv, Held

LEMMA FreshMoved ==
    ASSUME FreshInv, AloneInv', UNCHANGED <<cache, job>>,
           stack' \in [Procs -> Stacks(FreshWaiting, FreshTop)]
    PROVE  FreshInv'
<1>1. stack' \in [Procs -> Stacks(FreshWaiting', FreshTop')]
  BY CacheKept, FramesKept, StacksGrow
<1>2. CacheFresh'
  BY DEF FreshInv, CacheFresh, Doomed, Cached
<1>3. QED
  BY <1>1, <1>2, FreshGrown

LEMMA NewFramesFresh ==
    /\ NoValue \in Values /\ NoValue.kind = "none" /\ NoValue.data = {}
    /\ Failure \in Values /\ Failure.kind = "error"
    /\ \A e \in Execs : /\ Resolve(e) \in FreshTop /\ Resolve(e) \in Frames
                        /\ ResolveAny(e) \in FreshTop /\ ResolveAny(e) \in Frames
<1>1. /\ NoValue \in Values /\ NoValue.kind = "none" /\ NoValue.data = {}
      /\ Failure \in Values /\ Failure.kind = "error"
  BY DEF NoValue, Failure, Value, Values, Kinds
<1>2. ASSUME NEW e \in Execs, NEW at \in {"load", "gets"}
      PROVE  Frame(e, at) \in FreshTop /\ Frame(e, at) \in Frames
  <2> DEFINE f == Frame(e, at)
  <2>1. f \in Frames
    BY <1>1 DEF Frame, Frames
  <2>2. f.data = {} /\ f.got = NoValue /\ f.at = at /\ f.exec = e /\ f.i = 0
    BY DEF Frame
  <2> HIDE DEF f
  <2>3. HasRead(e, 0, {})
    <3>1. Len(Reads[e]) \in Nat
      BY ExecutorsAssumption
    <3>2. QED
      BY <3>1 DEF HasRead
  <2>4. f \in FreshWaiting
    BY <2>1, <2>2 DEF FreshWaiting
  <2>5. HasRead(f.exec, f.i, f.data \union f.got.data)
    BY <1>1, <2>2, <2>3
  <2>6. f \in FreshTop
    BY <2>2, <2>4, <2>5 DEF FreshTop
  <2>7. QED
    BY <2>1, <2>6 DEF f
<1>3. QED
  BY <1>1, <1>2 DEF Resolve, ResolveAny

(* A frame that waits at "gets" for the value of an input is given it.     *)
LEMMA InputGiven ==
    ASSUME Grows, NEW f \in FreshWaiting, f.at = "gets", NEW g, Awaits(f, g), NEW v \in Values,
           v.kind = "error" \/ (Cached(g.exec)' /\ v.data = cache'[g.exec].data)
    PROVE  [f EXCEPT !.got = v] \in FreshTop'
<1> DEFINE h == [f EXCEPT !.got = v]
<1>1. /\ f \in Frames /\ f.exec \in Execs
      /\ f.i \in 1..Len(Reads[f.exec])
      /\ g.exec = Reads[f.exec][f.i]
      /\ f \in FreshWaiting'
  BY FramesKept DEF Awaits, FreshWaiting, Frames
<1>2. Len(Reads[f.exec]) \in Nat
  BY <1>1, ExecutorsAssumption
<1>3. HasRead(f.exec, f.i - 1, f.data)'
  BY <1>1 DEF FreshWaiting
<1>4. /\ h \in Frames /\ h.at = "gets" /\ h.exec = f.exec /\ h.i = f.i
      /\ h.data = f.data /\ h.got = v
  BY <1>1 DEF Frames
<1> HIDE DEF h
<1>5. h \in FreshWaiting'
  BY <1>1, <1>3, <1>4 DEF FreshWaiting
<1>6. ASSUME Cached(g.exec)', v.data = cache'[g.exec].data
      PROVE  HasRead(f.exec, f.i, f.data \union v.data)'
  <2>1. f.i \in 0..Len(Reads[f.exec])
    BY <1>1, <1>2
  <2>2. \A k \in 1..f.i : k = f.i \/ k \in 1..(f.i - 1)
    BY <1>1, <1>2
  <2>3. \A k \in 1..f.i : Cached(Reads[f.exec][k])'
    BY <1>1, <1>3, <1>6, <2>2 DEF HasRead
  <2>4. /\ f.i \in 1..f.i
        /\ \A k \in 1..(f.i - 1) : k \in 1..f.i
    BY <1>1, <1>2
  <2>5. f.data \union v.data = UNION { cache'[Reads[f.exec][k]].data : k \in 1..f.i }
    BY <1>1, <1>3, <1>6, <2>2, <2>4, ZenonT(30) DEF HasRead
  <2>6. QED
    BY <2>1, <2>3, <2>5 DEF HasRead
<1>7. QED
  BY <1>4, <1>5, <1>6 DEF FreshTop, h

(* Nothing but the top of a stack has changed. *)
LEMMA CacheFreshKept ==
    ASSUME FreshInv, UNCHANGED <<cache, job>> PROVE CacheFresh'
BY DEF FreshInv, CacheFresh, Doomed, Cached

LEMMA LoadKeepsFresh ==
    ASSUME FreshInv, AloneInv', NEW p \in Procs, Load(p) PROVE FreshInv'
<1>1. stack[p] # <<>> /\ Top(p).at = "load" /\ UNCHANGED <<cache, job>>
  BY DEF Load, At
<1>2. PICK f \in Frames : f = Top(p) /\ f \in FreshWaiting /\ f.exec \in Execs
  BY <1>1, TopHeld DEF FreshInv, FreshTop
<1>3. CASE Cached(f.exec) /\ Return(p, cache[f.exec])
  <2>1. PICK v \in Values : v = cache[f.exec]
    BY <1>2 DEF FreshInv, AloneInv, IInv, Shape
  <2>2. ASSUME NEW h \in FreshWaiting \intersect Frames, Awaits(h, Top(p))
        PROVE  [h EXCEPT !.got = v] \in FreshTop'
    <3>1. h.at = "gets" /\ Cached(f.exec)' /\ v.data = cache'[f.exec].data
      BY <1>1, <1>3, <2>1, <2>2 DEF Awaits, Cached
    <3>2. QED
      BY <1>1, <1>2, <2>2, <3>1, InputGiven, CacheKept
  <2>3. stack' \in [Procs -> Stacks(FreshWaiting', FreshTop')]
    BY <1>1, <1>3, <2>1, <2>2, ReturnHeld, CacheKept, FramesKept DEF FreshInv
  <2>4. QED
    BY <1>1, <2>3, FreshGrown, CacheFreshKept
<1>4. CASE ~Cached(f.exec) /\ Goto(p, [f EXCEPT !.at = "link"])
  <2> DEFINE g == [f EXCEPT !.at = "link"]
  <2>1. g \in FreshTop /\ g \in Frames /\ SameCall(Top(p), g)
    BY <1>1, <1>2, <1>4 DEF FreshTop, FreshWaiting, Frames, SameCall, Settled
  <2> HIDE DEF g
  <2>2. stack' \in [Procs -> Stacks(FreshWaiting, FreshTop)]
    BY <1>1, <1>4, <2>1, GotoHeld DEF FreshInv, g
  <2>3. QED
    BY <1>1, <2>2, FreshMoved
<1>5. QED
  BY <1>2, <1>3, <1>4 DEF Load, Cached

LEMMA LinkKeepsFresh ==
    ASSUME FreshInv, AloneInv', NEW p \in Procs, Link(p) PROVE FreshInv'
<1>1. stack[p] # <<>> /\ Top(p).at = "link" /\ UNCHANGED <<cache, job>>
  BY DEF Link, At
<1>2. PICK f \in Frames : f = Top(p) /\ f \in FreshWaiting /\ f.exec \in Execs
  BY <1>1, TopHeld DEF FreshInv, FreshTop
<1> DEFINE e == f.exec
           got == Value("preset", 0, {<<e, PresetVersion>>})
<1>3. CASE e \in ValuePresets /\ Goto(p, [f EXCEPT !.at = "store", !.got = got])
  <2> DEFINE g == [f EXCEPT !.at = "store", !.got = got]
  <2>1. got \in Values /\ got.kind = "preset" /\ got.data = Makes(e) /\ Ready(e)
    BY <1>2, <1>3, ScopeAssumption
       DEF Value, Values, Kinds, Versions, PresetVersion, Makes, Ready
  <2> HIDE DEF got
  <2>2. /\ g \in Frames /\ SameCall(Top(p), g) /\ g.at = "store" /\ g.exec = e /\ g.got = got
    BY <1>1, <1>2, <2>1 DEF Frames, SameCall
  <2> HIDE DEF g
  <2>3. Settled(e)
    BY <1>1, <1>2 DEF FreshWaiting
  <2>4. g \in FreshTop
    BY <1>3, <2>1, <2>2, <2>3 DEF FreshTop, FreshWaiting, Given
  <2>5. stack' \in [Procs -> Stacks(FreshWaiting, FreshTop)]
    BY <1>1, <1>3, <2>2, <2>4, GotoHeld DEF FreshInv, g
  <2>6. QED
    BY <1>1, <2>5, FreshMoved
<1>4. CASE /\ e \in DOMAIN Replacement
           /\ Invoke(p, [f EXCEPT !.at = "store"], ResolveAny(Replacement[e]))
  <2> DEFINE g == [f EXCEPT !.at = "store"]
             h == ResolveAny(Replacement[e])
  <2>1. g \in FreshWaiting /\ g \in Frames /\ SameCall(Top(p), g) /\ g.at = "store" /\ g.exec = e
    BY <1>1, <1>2 DEF FreshWaiting, Frames, SameCall
  <2>2. h \in FreshTop /\ h \in Frames
    BY <1>4, ScopeAssumption, NewFramesFresh
  <2>3. Awaits(g, h)
    BY <1>4, <2>1, ScopeAssumption DEF Awaits, Maker, ResolveAny, Frame
  <2> HIDE DEF g, h
  <2>4. stack' \in [Procs -> Stacks(FreshWaiting, FreshTop)]
    BY <1>1, <1>4, <2>1, <2>2, <2>3, InvokeHeld DEF FreshInv, g, h
  <2>5. QED
    BY <1>1, <2>4, FreshMoved
<1>5. CASE e \notin Presets /\ Goto(p, [f EXCEPT !.at = "deps"])
  <2> DEFINE g == [f EXCEPT !.at = "deps"]
  <2>1. g \in FreshTop /\ g \in Frames /\ SameCall(Top(p), g)
    BY <1>1, <1>2, <1>5 DEF FreshTop, FreshWaiting, Frames, SameCall
  <2> HIDE DEF g
  <2>2. stack' \in [Procs -> Stacks(FreshWaiting, FreshTop)]
    BY <1>1, <1>5, <2>1, GotoHeld DEF FreshInv, g
  <2>3. QED
    BY <1>1, <2>2, FreshMoved
<1>6. QED
  BY <1>2, <1>3, <1>4, <1>5 DEF Link, Presets

LEMMA PreResolveKeepsFresh ==
    ASSUME FreshInv, AloneInv', NEW p \in Procs, PreResolve(p) PROVE FreshInv'
<1>1. stack[p] # <<>> /\ Top(p).at = "deps" /\ UNCHANGED <<cache, job>>
  BY DEF PreResolve, At
<1>2. PICK f \in Frames : f = Top(p) /\ f \in FreshWaiting /\ f.exec \in Execs /\ f.i \in Nat
  BY <1>1, TopHeld DEF FreshInv, FreshTop
<1> DEFINE e == f.exec
<1>3. CASE Return(p, Failure)
  <2>1. ASSUME NEW h \in FreshWaiting \intersect Frames, Awaits(h, Top(p))
        PROVE  [h EXCEPT !.got = Failure] \in FreshTop'
    <3>1. h.at = "gets"
      BY <1>1, <2>1 DEF Awaits
    <3>2. QED
      BY <1>1, <2>1, <3>1, InputGiven, CacheKept, NewFramesFresh
  <2>2. stack' \in [Procs -> Stacks(FreshWaiting', FreshTop')]
    BY <1>1, <1>3, <2>1, ReturnHeld, NewFramesFresh, CacheKept, FramesKept DEF FreshInv
  <2>3. QED
    BY <1>1, <2>2, FreshGrown, CacheFreshKept
<1>4. ASSUME NEW g, NEW d \in Execs, g \in FreshWaiting, SameCall(f, g), Awaits(g, ResolveAny(d)),
             Invoke(p, g, ResolveAny(d))
      PROVE  FreshInv'
  <2>1. g \in Frames /\ ResolveAny(d) \in FreshTop /\ ResolveAny(d) \in Frames
    BY <1>4, NewFramesFresh DEF FreshWaiting
  <2>2. stack' \in [Procs -> Stacks(FreshWaiting, FreshTop)]
    BY <1>1, <1>2, <1>4, <2>1, InvokeHeld DEF FreshInv
  <2>3. QED
    BY <1>1, <2>2, FreshMoved
<1>5. CASE /\ f.i < Len(Eager[e])
           /\ Invoke(p, [f EXCEPT !.i = @ + 1, !.got = NoValue], ResolveAny(Eager[e][f.i + 1]))
  <2> DEFINE n == f.i + 1
             g == [f EXCEPT !.i = n, !.got = NoValue]
             d == Eager[e][n]
  <2>1. n \in Nat /\ n \in 1..Len(Eager[e]) /\ Eager[e] \in Seq(Execs)
    BY <1>2, <1>5, ExecutorsAssumption
  <2> HIDE DEF n
  <2>2. d \in Execs /\ d \in ToSet(Eager[e])
    BY <2>1 DEF ToSet
  <2> HIDE DEF d
  <2>3. g \in FreshWaiting /\ SameCall(f, g) /\ g.at = "deps" /\ g.exec = e
    BY <1>1, <1>2, <2>1, NewFramesFresh DEF FreshWaiting, Frames, SameCall
  <2>4. Awaits(g, ResolveAny(d))
    BY <2>2, <2>3 DEF Awaits, ResolveAny, Frame
  <2> HIDE DEF g
  <2>5. Invoke(p, g, ResolveAny(d))
    BY <1>5 DEF g, d, n
  <2>6. QED
    BY <1>4, <2>2, <2>3, <2>4, <2>5
<1>6. CASE Invoke(p, [f EXCEPT !.at = "store", !.got = NoValue], ResolveAny(e))
  <2> DEFINE g == [f EXCEPT !.at = "store", !.got = NoValue]
  <2>1. g \in FreshWaiting /\ SameCall(f, g) /\ g.at = "store" /\ g.exec = e /\ e \notin Presets
    BY <1>1, <1>2, NewFramesFresh DEF FreshWaiting, Frames, SameCall
  <2>2. Awaits(g, ResolveAny(e))
    BY <2>1 DEF Awaits, ResolveAny, Frame, Maker, Presets
  <2> HIDE DEF g
  <2>3. QED
    BY <1>2, <1>4, <1>6, <2>1, <2>2 DEF g
<1>7. QED
  BY <1>2, <1>3, <1>5, <1>6 DEF PreResolve

LEMMA FactoryGetKeepsFresh ==
    ASSUME FreshInv, AloneInv', NEW p \in Procs, FactoryGet(p) PROVE FreshInv'
<1>1. stack[p] # <<>> /\ Top(p).at = "gets" /\ UNCHANGED <<cache, job>>
  BY DEF FactoryGet, At
<1>2. PICK f \in Frames : /\ f = Top(p)
                          /\ f \in FreshTop
                          /\ f.exec \in Execs
                          /\ f.i \in Nat
                          /\ f.data \union f.got.data \in SUBSET Versions
  BY <1>1, TopHeld DEF FreshInv
<1> DEFINE n == f.i + 1
           data == f.data \union f.got.data
           g == [f EXCEPT !.i = n, !.got = NoValue, !.data = data]
           d == Reads[f.exec][n]
<1>3. f.got.kind # "error" /\ f.i < Len(Reads[f.exec]) /\ Invoke(p, g, Resolve(d))
  BY <1>2 DEF FactoryGet, Gather
<1>4. n \in Nat /\ n \in 1..Len(Reads[f.exec]) /\ d \in Execs
  BY <1>2, <1>3, ExecutorsAssumption
<1>5. n - 1 = f.i
  BY <1>2
<1>6. HasRead(f.exec, n - 1, data)
  BY <1>1, <1>2, <1>3, <1>5 DEF FreshTop
<1> HIDE DEF n, data
<1>7. /\ g \in Frames /\ SameCall(Top(p), g)
      /\ g.at = "gets" /\ g.exec = f.exec /\ g.i = n /\ g.data = data
  BY <1>1, <1>2, <1>4, NewFramesFresh DEF Frames, SameCall, data
<1> HIDE DEF g
<1>8. g \in FreshWaiting
  BY <1>4, <1>6, <1>7 DEF FreshWaiting
<1>9. Resolve(d) \in FreshTop /\ Resolve(d) \in Frames /\ Awaits(g, Resolve(d))
  BY <1>4, <1>7, NewFramesFresh DEF Awaits, Resolve, Frame
<1> HIDE DEF d
<1>10. stack' \in [Procs -> Stacks(FreshWaiting, FreshTop)]
  BY <1>1, <1>3, <1>7, <1>8, <1>9, InvokeHeld DEF FreshInv
<1>11. QED
  BY <1>1, <1>10, FreshMoved

LEMMA FactoryFailKeepsFresh ==
    ASSUME FreshInv, AloneInv', NEW p \in Procs, FactoryFail(p) PROVE FreshInv'
<1>1. stack[p] # <<>> /\ Top(p).at = "gets" /\ Return(p, Failure) /\ UNCHANGED <<cache, job>>
  BY DEF FactoryFail, At
<1>2. ASSUME NEW h \in FreshWaiting \intersect Frames, Awaits(h, Top(p))
      PROVE  [h EXCEPT !.got = Failure] \in FreshTop
  <2>1. h.at \in {"deps", "store"}
    BY <1>1, <1>2 DEF Awaits
  <2>2. QED
    BY <2>1, NewFramesFresh DEF FreshTop, FreshWaiting, Frames
<1>3. stack' \in [Procs -> Stacks(FreshWaiting, FreshTop)]
  BY <1>1, <1>2, ReturnHeld, NewFramesFresh DEF FreshInv
<1>4. QED
  BY <1>1, <1>3, FreshMoved

(* A factory that has read all its inputs makes what a Resolve would.      *)
LEMMA FactoryMakes ==
    ASSUME NEW e \in Execs, e \notin ValuePresets, NEW data, NEW n,
           n = Len(Reads[Maker(e)]), HasRead(Maker(e), n, data)
    PROVE  /\ Ready(e)
           /\ Makes(e) = {<<Maker(e), 0>>} \union data
<1>1. Reads[Maker(e)] \in Seq(Execs) /\ n \in Nat
  BY InputsTyped
<1>2. Inputs(e) = { Reads[Maker(e)][k] : k \in 1..n }
  BY <1>1 DEF Inputs, ToSet
<1>3. Ready(e)
  BY <1>2 DEF Ready, HasRead
<1>4. data = UNION { cache[d].data : d \in Inputs(e) }
  BY <1>2, ZenonT(30) DEF HasRead
<1>5. QED
  BY <1>3, <1>4 DEF Makes

LEMMA FactoryDoneKeepsFresh ==
    ASSUME FreshInv, AloneInv', NEW p \in Procs, FactoryDone(p)
    PROVE  FreshInv'
<1>1. stack[p] # <<>> /\ Top(p).at = "gets" /\ UNCHANGED <<cache, job>>
  BY DEF FactoryDone, At
<1>2. PICK f \in Frames : /\ f = Top(p)
                         /\ f \in FreshTop
                         /\ f.exec \in Execs
                         /\ f.data \union f.got.data \in SUBSET Versions
  BY <1>1, TopHeld DEF FreshInv
<1> DEFINE e == f.exec
           run == IF e \in Closers THEN Len(runs) + 1 ELSE 0
           read == f.data \union f.got.data
           data == {<<e, 0>>} \union read
           v == Value("factory", run, data)
<1>3. Return(p, v) /\ f.got.kind # "error" /\ f.i = Len(Reads[e])
  BY <1>2 DEF FactoryDone, Gather
<1>4. v \in Values /\ v.data = data /\ v.kind = "factory"
  <2>1. run \in Nat
    BY DEF FreshInv, AloneInv, IInv, Shape
  <2>2. data \in SUBSET Versions
    BY <1>2, ScopeAssumption DEF Versions, PresetVersion
  <2> HIDE DEF run, data
  <2>3. QED
    BY <2>1, <2>2 DEF Value, Values, Kinds
<1>5. HasRead(e, Len(Reads[e]), read)
  BY <1>1, <1>2, <1>3 DEF FreshTop
<1> HIDE DEF v
<1>6. ASSUME NEW h \in FreshWaiting \intersect Frames, Awaits(h, Top(p))
      PROVE  [h EXCEPT !.got = v] \in FreshTop
  <2>1. CASE h.at = "deps"
    BY <1>4, <2>1 DEF FreshTop, FreshWaiting, Frames
  <2>2. CASE h.at # "deps"
    <3>1. h.at = "store" /\ h.exec \in Execs /\ h.exec \notin ValuePresets /\ e = Maker(h.exec)
      BY <1>1, <1>2, <1>6, <2>2 DEF Awaits, Frames
    <3>2. Ready(h.exec) /\ v.data = Makes(h.exec)
      <4>1. PICK x, n, made : x = h.exec /\ n = Len(Reads[e]) /\ made = read
        OBVIOUS
      <4>2. /\ x \in Execs /\ x \notin ValuePresets
            /\ n = Len(Reads[Maker(x)]) /\ HasRead(Maker(x), n, made)
        BY <1>5, <3>1, <4>1
      <4>3. /\ Ready(x)
            /\ Makes(x) = {<<Maker(x), 0>>} \union made
        BY <4>2, FactoryMakes
      <4>4. QED
        BY <1>4, <3>1, <4>1, <4>3
    <3> HIDE DEF data
    <3>3. QED
      BY <1>4, <3>1, <3>2 DEF FreshTop, FreshWaiting, Frames, Given
  <2>3. QED
    BY <2>1, <2>2
<1>7. stack' \in [Procs -> Stacks(FreshWaiting, FreshTop)]
  BY <1>1, <1>3, <1>4, <1>6, ReturnHeld DEF FreshInv
<1>8. QED
  BY <1>1, <1>7, FreshMoved

(* What a Resolve stores is what is there already, or new and made of what *)
(* is there.                                                               *)
LEMMA StoreValueGrows ==
    ASSUME FreshInv, NEW p \in Procs, StoreValue(p), NEW f, f = Top(p), f.got.kind # "error"
    PROVE  /\ f.exec \in Execs
           /\ cache' = [cache EXCEPT ![f.exec] = f.got]
           /\ Return(p, f.got)
           /\ UNCHANGED <<edges, job>>
           /\ f.got \in Values
           /\ f.got.kind = Given(f.exec)
           /\ f.got.data = Makes(f.exec) /\ Ready(f.exec)
           /\ Cached(f.exec) => cache[f.exec].data = f.got.data
           /\ Grows
<1>1. stack[p] # <<>> /\ f.at = "store" /\ UNCHANGED <<edges, job>>
  BY DEF StoreValue, At
<1>2. f \in FreshTop /\ f \in Frames /\ f.exec \in Execs /\ f.got \in Values
  BY <1>1, TopHeld DEF FreshInv
<1>3. cache' = [cache EXCEPT ![f.exec] = f.got] /\ Return(p, f.got)
  BY DEF StoreValue
<1>4. /\ f.got.kind = Given(f.exec)
      /\ Ready(f.exec) /\ f.got.data = Makes(f.exec) /\ Settled(f.exec)
  BY <1>1, <1>2 DEF FreshTop, FreshWaiting
<1>5. Cached(f.exec) => cache[f.exec].data = f.got.data
  BY <1>4 DEF Settled
<1>6. cache \in [Execs -> Values]
  BY DEF FreshInv, AloneInv, IInv, Shape
<1>7. Grows
  BY <1>2, <1>3, <1>4, <1>5, <1>6 DEF Grows, Cached, Given
<1>8. QED
  BY <1>1, <1>2, <1>3, <1>4, <1>5, <1>7

LEMMA StoreValueKeepsFresh ==
    ASSUME FreshInv, AloneInv', NEW p \in Procs, StoreValue(p) PROVE FreshInv'
<1>1. stack[p] # <<>> /\ Top(p).at = "store" /\ UNCHANGED job
  BY DEF StoreValue, At
<1>2. PICK f \in Frames : f = Top(p) /\ f \in FreshTop /\ f.exec \in Execs /\ f.got \in Values
  BY <1>1, TopHeld DEF FreshInv
<1> DEFINE e == f.exec
           v == f.got
<1>3. CASE v.kind = "error"
  <2>1. Return(p, v) /\ UNCHANGED cache
    BY <1>2, <1>3 DEF StoreValue
  <2>2. ASSUME NEW h \in FreshWaiting \intersect Frames, Awaits(h, Top(p))
        PROVE  [h EXCEPT !.got = v] \in FreshTop'
    <3>1. h.at = "gets"
      BY <1>1, <2>2 DEF Awaits
    <3>2. QED
      BY <1>2, <1>3, <2>1, <2>2, <3>1, InputGiven, CacheKept
  <2>3. stack' \in [Procs -> Stacks(FreshWaiting', FreshTop')]
    BY <1>1, <1>2, <2>1, <2>2, ReturnHeld, CacheKept, FramesKept DEF FreshInv
  <2>4. QED
    BY <1>1, <2>1, <2>3, FreshGrown, CacheFreshKept
<1>4. CASE v.kind # "error"
  <2> DEFINE stored == v
  <2>1. /\ cache' = [cache EXCEPT ![e] = stored]
        /\ Return(p, stored)
        /\ stored \in Values
        /\ stored.kind = Given(e)
        /\ stored.data = Makes(e) /\ Ready(e)
        /\ Grows
    BY <1>2, <1>4, StoreValueGrows
  <2> HIDE DEF stored
  <2>2. cache'[e] = stored /\ \A x \in Execs \ {e} : cache'[x] = cache[x]
    BY <1>2, <2>1 DEF FreshInv, AloneInv, IInv, Shape
  <2>3. ASSUME NEW h \in FreshWaiting \intersect Frames, Awaits(h, Top(p))
        PROVE  [h EXCEPT !.got = stored] \in FreshTop'
    <3>1. h.at = "gets"
      BY <1>1, <2>3 DEF Awaits
    <3>2. Cached(e)' /\ stored.data = cache'[e].data
      BY <2>1, <2>2 DEF Cached, Given
    <3>3. QED
      BY <1>2, <2>1, <2>3, <3>1, <3>2, InputGiven
  <2>4. stack' \in [Procs -> Stacks(FreshWaiting', FreshTop')]
    BY <1>1, <2>1, <2>3, ReturnHeld, FramesKept DEF FreshInv
  <2>5. ASSUME NEW x \in Execs, cache'[x].kind = "factory", x \notin DOMAIN Replacement,
               NEW d \in Reactive[x]
        PROVE  d \notin Doomed' /\ Cached(d)' /\ cache'[d].data \subseteq cache'[x].data
    <3>1. Doomed = {} /\ Doomed' = {}
      BY <1>1, StackKeepsAlone DEF FreshInv, AloneInv
    <3>2. d \in Execs /\ d \in ToSet(Reads[x])
      BY ExecutorsAssumption, ReadsAssumption
    <3>3. Cached(d) => Cached(d)' /\ cache'[d].data = cache[d].data
      BY <2>1, <3>2 DEF Grows
    <3>4. CASE x # e
      BY <2>2, <2>5, <3>1, <3>3, <3>4 DEF FreshInv, CacheFresh
    <3>5. CASE x = e
      <4>1. Maker(e) = e /\ e \notin ValuePresets
        BY <2>1, <2>2, <2>5, <3>5 DEF Maker, Given
      <4>2. d \in Inputs(e)
        BY <3>2, <3>5, <4>1 DEF Inputs
      <4>3. Cached(d) /\ cache[d].data \subseteq Makes(e)
        BY <2>1, <4>1, <4>2 DEF Ready, Makes
      <4>4. QED
        BY <2>1, <2>2, <3>1, <3>3, <3>5, <4>3
    <3>6. QED
      BY <3>4, <3>5
  <2>6. CacheFresh'
    BY <2>5 DEF CacheFresh
  <2>7. QED
    BY <1>1, <2>4, <2>6, FreshGrown
<1>5. QED
  BY <1>3, <1>4

-----------------------------------------------------------------------------
(* Calls and Updates. *)

LEMMA CallKeepsFresh ==
    ASSUME Exclusive, FreshInv, AloneInv', NEW p \in Procs, Call(p) PROVE FreshInv'
<1>1. ~(\E e \in Execs : Release(p, e) \/ Reload(p, e))
  BY DEF Release, Reload, Begin, Exclusive
<1>2. UNCHANGED cache
  BY <1>1 DEF Call, Get, FlowDependency, Update, Dispose
<1>3. FreshWaiting \subseteq FreshWaiting' /\ FreshTop \subseteq FreshTop'
  BY <1>2, CacheKept, FramesKept
<1>4. CacheFresh'
  BY <1>2, CallAlone DEF FreshInv, CacheFresh, Cached, Exclusive
<1>5. CASE UNCHANGED stack
  <2>1. stack' \in [Procs -> Stacks(FreshWaiting', FreshTop')]
    BY <1>3, <1>5, StacksGrow DEF FreshInv, Held
  <2>2. QED
    BY <1>4, <2>1, FreshGrown
<1>6. ASSUME NEW e \in Execs, Get(p, e) \/ FlowDependency(p, e) PROVE FreshInv'
  <2>1. Bottom(Resolve(e)) /\ (e \in FlowDeps => Bottom(ResolveAny(e)))
    BY DEF Bottom, Resolve, ResolveAny, Frame
  <2>2. stack' \in [Procs -> Stacks(FreshWaiting, FreshTop)]
    BY <1>6, <2>1, StartHeld, NewFramesFresh DEF FreshInv, Get, FlowDependency
  <2>3. stack' \in [Procs -> Stacks(FreshWaiting', FreshTop')]
    BY <1>3, <2>2, StacksGrow
  <2>4. QED
    BY <1>4, <2>3, FreshGrown
<1>7. QED
  BY <1>1, <1>5, <1>6 DEF Call, Update, Dispose

(* With nobody inside a Resolve there are no frames to say anything of. *)
LEMMA NoFrames ==
    ASSUME NEW W, NEW T, Held(W, T), \A q \in Procs : stack[q] = <<>>, UNCHANGED stack,
           NEW V, NEW U
    PROVE  stack' \in [Procs -> Stacks(V, U)]
<1>1. stack' \in [Procs -> {<<>>}]
  BY DEF Held
<1>2. <<>> \in Stacks(V, U)
  BY DEF Stacks
<1>3. QED
  BY <1>1, <1>2

(* The cleanups, and an Update that gives up. *)
LEMMA CleanupKeepsFresh ==
    ASSUME FreshInv, AloneInv', NEW p \in Procs,
           \/ \E e \in Execs : UpdateSelf(p, e) \/ UpdateDependent(p, e)
           \/ UpdateCancelled(p)
    PROVE  FreshInv'
<1>1. /\ \A q \in Procs : stack[q] = <<>>
      /\ Doomed = {} /\ Doomed' = {}
  BY CleanupAlone, CancelAlone DEF FreshInv
<1>2. UNCHANGED <<cache, stack>>
  BY DEF UpdateSelf, UpdateDependent, UpdateCancelled
<1>3. CacheFresh'
  BY <1>1, <1>2 DEF FreshInv, CacheFresh, Cached
<1>4. QED
  BY <1>1, <1>2, <1>3, NoFrames, FreshGrown DEF FreshInv

LEMMA UpdateStoreKeepsFresh ==
    ASSUME FreshInv, AloneInv', NEW p \in Procs, NEW e \in Execs, UpdateStore(p, e)
    PROVE  FreshInv'
<1> DEFINE v == Value("update", 0, {<<e, job[p].version>>})
<1>1. /\ \A q \in Procs : stack[q] = <<>>
      /\ Doomed = {} /\ Doomed' = Dependents(e)
      /\ cache' = [cache EXCEPT ![e] = v]
      /\ UNCHANGED stack
  BY UpdateStored DEF FreshInv, UpdateStore
<1>2. cache'[e] = v /\ v.kind = "update" /\ \A x \in Execs \ {e} : cache'[x] = cache[x]
  BY <1>1 DEF FreshInv, AloneInv, IInv, Shape, Value
<1> HIDE DEF v
<1>3. ASSUME NEW x \in Execs, cache'[x].kind = "factory", x \notin Doomed',
             x \notin DOMAIN Replacement, NEW d \in Reactive[x]
      PROVE  d \notin Doomed' /\ Cached(d)' /\ cache'[d].data \subseteq cache'[x].data
  <2>1. x # e /\ cache'[x] = cache[x]
    BY <1>2, <1>3
  <2>2. d \in Execs /\ <<d, x>> \in edges
    BY <1>3, <2>1, ExecutorsAssumption DEF FreshInv, AloneInv, IInv, Linked, IsLinked
  <2>3. d \notin Reach(edges, Execs, e)
    <3>1. x \notin Reach(edges, Execs, e)
      BY <1>1, <1>3, <2>1 DEF Dependents
    <3>2. edges \in SUBSET (Execs \X Execs)
      BY DEF FreshInv, AloneInv, IInv, Shape
    <3>3. QED
      BY <2>2, <3>1, <3>2, ReachStep
  <2>4. d # e /\ d \notin Doomed'
    BY <1>1, <2>3, ReachStart DEF Dependents
  <2>5. Cached(d) /\ cache[d].data \subseteq cache[x].data
    BY <1>1, <1>3, <2>1 DEF FreshInv, CacheFresh
  <2>6. QED
    BY <1>2, <2>1, <2>2, <2>4, <2>5 DEF Cached
<1>4. CacheFresh'
  BY <1>3 DEF CacheFresh
<1>5. QED
  BY <1>1, <1>4, NoFrames, FreshGrown DEF FreshInv

LEMMA DeleteKeepsFresh ==
    ASSUME FreshInv, AloneInv', NEW p \in Procs, NEW d \in Execs, UpdateDelete(p, d)
    PROVE  FreshInv'
<1>1. /\ \A q \in Procs : stack[q] = <<>>
      /\ Doomed' = Doomed \ {d}
      /\ cache' = [cache EXCEPT ![d] = NoValue]
      /\ UNCHANGED stack
  BY DeleteAlone DEF FreshInv, UpdateDelete
<1>2. cache'[d].kind = "none" /\ \A x \in Execs \ {d} : cache'[x] = cache[x]
  BY <1>1, NewFramesFresh DEF FreshInv, AloneInv, IInv, Shape
<1>3. ASSUME NEW x \in Execs, cache'[x].kind = "factory", x \notin Doomed',
             x \notin DOMAIN Replacement, NEW y \in Reactive[x]
      PROVE  y \notin Doomed' /\ Cached(y)' /\ cache'[y].data \subseteq cache'[x].data
  <2>1. x # d /\ x \notin Doomed /\ cache'[x] = cache[x]
    BY <1>1, <1>2, <1>3
  <2>2. y \in Execs /\ y \notin Doomed /\ Cached(y) /\ cache[y].data \subseteq cache[x].data
    BY <1>3, <2>1, ExecutorsAssumption DEF FreshInv, CacheFresh
  <2>3. cache'[y] = cache[y]
    BY <1>2, <2>2, DeleteAlone DEF FreshInv
  <2>4. QED
    BY <1>1, <2>1, <2>2, <2>3 DEF Cached
<1>4. CacheFresh'
  BY <1>3 DEF CacheFresh
<1>5. QED
  BY <1>1, <1>4, NoFrames, FreshGrown DEF FreshInv

LEMMA DisposeKeepsFresh ==
    ASSUME FreshInv, AloneInv', NEW p \in Procs, NEW r, DisposeRun(p, r)
    PROVE  FreshInv'
<1>1. UNCHANGED <<cache, stack>>
  BY DEF DisposeRun
<1>2. stack' \in [Procs -> Stacks(FreshWaiting', FreshTop')]
  BY <1>1, CacheKept, FramesKept, StacksGrow DEF FreshInv, Held
<1>3. CacheFresh'
  BY <1>1, DisposeAlone DEF FreshInv, CacheFresh, Cached
<1>4. QED
  BY <1>2, <1>3, FreshGrown

-----------------------------------------------------------------------------
LEMMA FreshStart == Init => FreshInv
<1> SUFFICES ASSUME Init PROVE FreshInv
  OBVIOUS
<1>1. Held(FreshWaiting, FreshTop)
  BY DEF Init, Held, Stacks
<1>2. CacheFresh
  BY NewFramesFresh DEF Init, CacheFresh
<1>3. QED
  BY <1>1, <1>2, AloneStart DEF FreshInv

LEMMA FreshStep == Exclusive /\ FreshInv /\ [Next]_vars => FreshInv'
<1> SUFFICES ASSUME Exclusive, FreshInv, [Next]_vars PROVE FreshInv'
  OBVIOUS
<1>1. AloneInv'
  BY AloneStep DEF FreshInv, Exclusive
<1>2. CASE UNCHANGED vars
  <2>1. stack' \in [Procs -> Stacks(FreshWaiting', FreshTop')]
    BY <1>2, CacheKept, FramesKept, StacksGrow DEF vars, FreshInv, Held
  <2>2. QED
    BY <1>1, <1>2, <2>1, CacheFreshKept, FreshGrown DEF vars
<1>3. ASSUME NEW p \in Procs, Call(p) PROVE FreshInv'
  BY <1>1, <1>3, CallKeepsFresh
<1>4. ASSUME NEW p \in Procs, Step(p) PROVE FreshInv'
  BY <1>1, <1>4, LoadKeepsFresh, LinkKeepsFresh, PreResolveKeepsFresh, StoreValueKeepsFresh,
     FactoryGetKeepsFresh, FactoryFailKeepsFresh, FactoryDoneKeepsFresh, CleanupKeepsFresh,
     UpdateStoreKeepsFresh, DeleteKeepsFresh, DisposeKeepsFresh DEF Step
<1>5. QED
  BY <1>2, <1>3, <1>4 DEF Next, AllReturned

(* When the callers keep updates apart, a cached value is never older than *)
(* what it was derived from once all calls have returned (scope.go         *)
(* 110-117, 239-264).                                                      *)
THEOREM FreshKept == ASSUME Exclusive PROVE Spec => []FreshWhenQuiet
<1>1. FreshInv => FreshWhenQuiet
  <2> SUFFICES ASSUME FreshInv, Quiet PROVE FreshWhenQuiet
    BY DEF FreshWhenQuiet
  <2>1. Doomed = {}
    BY DEF Quiet, Idle, Doomed, NoJob
  <2>2. QED
    BY <2>1 DEF FreshInv, CacheFresh, FreshWhenQuiet
<1>2. QED
  BY <1>1, FreshStart, FreshStep, PTL DEF Spec

-----------------------------------------------------------------------------
(* The scope as a ReactiveStore: nothing is preset, and what is updated is *)
(* a source.                                                               *)
NoPresets == ValuePresets = {} /\ DOMAIN Replacement = {}

SourceUpdates == Exclusive /\ NoPresets /\ Updatable \subseteq Sources

CacheStored ==
    \A e \in Execs :
        /\ cache[e].kind \in {"none", "factory", "update"}
        /\ cache[e].kind = "update" => e \in Sources
        /\ Cached(e) <=> cache[e].data # {}

StoreInv == PresetInv /\ FreshInv /\ CacheStored /\ edges \subseteq Declared

(* With nothing preset, an executor is made by its own factory. *)
LEMMA Unpreset ==
    ASSUME NoPresets, NEW e \in Execs
    PROVE  /\ Maker(e) = e /\ Given(e) = "factory"
           /\ Ready(e) <=> \A d \in ToSet(Reads[e]) : Cached(d)
           /\ Makes(e) = {<<e, 0>>} \union UNION { cache[d].data : d \in ToSet(Reads[e]) }
BY DEF NoPresets, Maker, Given, Ready, Inputs, Makes

(* A factory takes part in what it makes. *)
LEMMA MakesSomething ==
    ASSUME NoPresets, NEW e \in Execs PROVE Makes(e) # {}
BY Unpreset

(* The only step that adds edges adds what is declared. *)
LEMMA EdgesDeclared ==
    ASSUME StoreInv, [Next]_vars PROVE edges' \subseteq Declared
<1>1. ASSUME NEW p \in Procs, Link(p) PROVE edges' \subseteq Declared
  <2>1. PICK e \in Execs : edges' = edges \union (Reactive[e] \X {e})
    <3>1. stack[p] # <<>>
      BY <1>1 DEF Link, At
    <3>2. Top(p).exec \in Execs
      BY <3>1, TopHeld DEF StoreInv, FreshInv
    <3>3. QED
      BY <1>1, <3>2 DEF Link
  <2>2. Reactive[e] \X {e} \subseteq Declared
    BY ExecutorsAssumption DEF Declared
  <2>3. QED
    BY <2>1, <2>2 DEF StoreInv
<1>2. CASE UNCHANGED edges
  BY <1>2 DEF StoreInv
<1>3. ASSUME NEW p \in Procs, Call(p) PROVE UNCHANGED edges
  BY <1>3 DEF Call, Get, FlowDependency, Release, Reload, Update, Dispose
<1>4. ASSUME NEW p \in Procs, Step(p), ~Link(p) PROVE UNCHANGED edges
  BY <1>4 DEF Step, Load, PreResolve, StoreValue, FactoryGet, FactoryFail, FactoryDone,
              UpdateSelf, UpdateDependent, UpdateCancelled, UpdateStore, UpdateDelete, DisposeRun
<1>5. QED
  BY <1>1, <1>2, <1>3, <1>4 DEF Next, AllReturned, vars

-----------------------------------------------------------------------------
(* The steps that the store sees: a Resolve that stores what is new, and   *)
(* an Update.  The others change neither the cache nor what is doomed, or  *)
(* delete what is.                                                         *)
InStore == [e \in Execs |-> IF e \in Doomed THEN {} ELSE cache[e].data]

(* What a step does to the cache and to what is doomed. *)
Stutters ==
    /\ CacheStored'
    /\ InStore' = InStore

Fills(e) ==
    /\ CacheStored'
    /\ InStore[e] = {}
    /\ \A d \in ToSet(Reads[e]) : InStore[d] # {}
    /\ InStore' = [InStore EXCEPT ![e] =
            {<<e, 0>>} \union UNION { InStore[d] : d \in ToSet(Reads[e]) }]

Puts(e, stamp) ==
    /\ CacheStored'
    /\ e \in Sources
    /\ InStore' = [x \in Execs |->
            IF x = e THEN {<<e, stamp>>}
            ELSE IF x \in Reach(Declared, Execs, e) THEN {}
            ELSE InStore[x]]

LEMMA CacheAlone ==
    ASSUME StoreInv, UNCHANGED cache, Doomed' = Doomed PROVE Stutters
BY DEF StoreInv, CacheStored, Stutters, InStore, Cached

LEMMA StoreValueMaps ==
    ASSUME SourceUpdates, StoreInv, NEW p \in Procs, StoreValue(p)
    PROVE  Stutters \/ \E e \in Execs : Fills(e)
<1>1. PICK f : f = Top(p)
  OBVIOUS
<1>2. stack[p] # <<>> /\ Doomed = {} /\ Doomed' = {}
  <2>1. stack[p] # <<>> /\ UNCHANGED job
    BY DEF StoreValue, At
  <2>2. QED
    BY <2>1, StackKeepsAlone DEF StoreInv, FreshInv, AloneInv
<1>3. CASE f.got.kind = "error"
  BY <1>1, <1>2, <1>3, CacheAlone DEF StoreValue
<1>4. CASE f.got.kind # "error"
  <2> DEFINE e == f.exec
             v == f.got
  <2>1. /\ e \in Execs
        /\ cache' = [cache EXCEPT ![e] = v]
        /\ v.kind = "factory"
        /\ v.data = Makes(e) /\ Ready(e)
        /\ Cached(e) => cache[e].data = v.data
    BY <1>1, <1>4, StoreValueGrows, Unpreset DEF StoreInv, SourceUpdates, NoPresets
  <2> HIDE DEF v
  <2>2. cache'[e] = v /\ \A x \in Execs \ {e} : cache'[x] = cache[x]
    BY <2>1 DEF StoreInv, FreshInv, AloneInv, IInv, Shape
  <2>3. v.data # {}
    BY <2>1, MakesSomething DEF SourceUpdates
  <2>4. CacheStored'
    BY <2>1, <2>2, <2>3 DEF StoreInv, CacheStored, Cached
  <2>5. InStore' = [x \in Execs |-> cache'[x].data] /\ InStore = [x \in Execs |-> cache[x].data]
    BY <1>2 DEF InStore
  <2>6. CASE Cached(e)
    <3>1. \A x \in Execs : cache'[x].data = cache[x].data
      BY <2>1, <2>2, <2>6
    <3>2. QED
      BY <2>4, <2>5, <3>1 DEF Stutters
  <2>7. CASE ~Cached(e)
    <3>1. InStore[e] = {}
      BY <2>1, <2>5, <2>7 DEF StoreInv, CacheStored
    <3>2. \A d \in ToSet(Reads[e]) : d \in Execs /\ cache[d].data # {} /\ InStore[d] = cache[d].data
      <4>1. ToSet(Reads[e]) \subseteq Execs
        BY <2>1, ExecutorsAssumption DEF ToSet
      <4>2. \A d \in ToSet(Reads[e]) : Cached(d)
        BY <2>1, Unpreset DEF SourceUpdates
      <4>3. QED
        BY <2>5, <4>1, <4>2 DEF StoreInv, CacheStored
    <3>3. { InStore[d] : d \in ToSet(Reads[e]) } = { cache[d].data : d \in ToSet(Reads[e]) }
      BY <3>2
    <3>4. v.data = {<<e, 0>>} \union UNION { InStore[d] : d \in ToSet(Reads[e]) }
      BY <2>1, <3>3, Unpreset DEF SourceUpdates
    <3>5. InStore' = [InStore EXCEPT ![e] = v.data]
      BY <2>1, <2>2, <2>5
    <3>6. Fills(e)
      BY <2>4, <3>1, <3>2, <3>4, <3>5 DEF Fills
    <3>7. QED
      BY <2>1, <3>6
  <2>8. QED
    BY <2>6, <2>7
<1>5. QED
  BY <1>3, <1>4

(* What an Update empties at once, and what it leaves doomed, is what      *)
(* depends on the updated executor as declared: whatever of it is cached   *)
(* has its edges in the graph, up to the executor.                         *)
LEMMA DependentsDeclared ==
    ASSUME SourceUpdates, StoreInv, Doomed = {}, NEW e \in Execs, NEW x \in Execs, x # e
    PROVE  /\ x \in Dependents(e) => x \in Reach(Declared, Execs, e)
           /\ x \in Reach(Declared, Execs, e) => x \in Dependents(e) \/ ~Cached(x)
<1> DEFINE E == Reach(edges, Execs, e)
           D == Reach(Declared, Execs, e)
           C == { y \in Execs : y = e \/ ~Cached(y) \/ y \in E }
<1>1. Declared \in SUBSET (Execs \X Execs) /\ edges \in SUBSET (Execs \X Execs)
  BY DEF Declared, StoreInv
<1>2. E \subseteq D
  <2>1. D \in SUBSET Execs /\ e \in D
    BY ReachStart DEF Reach
  <2>2. Closed(edges, D)
    <3>1. ASSUME NEW edge \in edges, edge[1] \in D PROVE edge[2] \in D
      <4>1. edge \in Declared
        BY DEF StoreInv
      <4>2. PICK a \in Execs, b \in Execs : edge = <<a, b>>
        BY <1>1
      <4>3. a \in D /\ <<a, b>> \in Declared
        BY <3>1, <4>1, <4>2
      <4> HIDE DEF D
      <4>4. b \in D
        BY <1>1, <4>3, ReachStep DEF D
      <4>5. QED
        BY <4>2, <4>4
    <3>2. QED
      BY <3>1 DEF Closed
  <2> HIDE DEF D
  <2>3. QED
    BY <2>1, <2>2, ReachLeast
<1>3. D \subseteq C
  <2>1. ASSUME NEW edge \in Declared, edge[1] \in C PROVE edge[2] \in C
    <3>1. PICK a \in Execs, b \in Execs : edge = <<a, b>> /\ a \in Reactive[b]
      BY DEF Declared
    <3>2. a \in C
      BY <2>1, <3>1
    <3>3. CASE ~Cached(b)
      BY <3>1, <3>3
    <3>4. CASE Cached(b)
      <4>1. b \notin Sources
        BY <3>1, ReadsAssumption DEF Sources, ToSet
      <4>2. cache[b].kind = "factory"
        BY <3>4, <4>1 DEF StoreInv, CacheStored, Cached
      <4>3. Cached(a)
        BY <3>1, <4>2 DEF SourceUpdates, NoPresets, StoreInv, FreshInv, CacheFresh
      <4>4. <<a, b>> \in edges
        BY <3>1, <4>2 DEF StoreInv, FreshInv, AloneInv, IInv, Linked, IsLinked
      <4>5. a \in E
        BY <3>2, <4>3, ReachStart
      <4> HIDE DEF E
      <4>6. b \in E
        BY <1>1, <4>4, <4>5, ReachStep DEF E
      <4>7. QED
        BY <3>1, <4>6
    <3>5. QED
      BY <3>3, <3>4
  <2>2. C \in SUBSET Execs /\ e \in C
    OBVIOUS
  <2>3. Closed(Declared, C)
    BY <2>1 DEF Closed
  <2> HIDE DEF C
  <2>4. QED
    BY <2>2, <2>3, ReachLeast
<1>4. QED
  BY <1>2, <1>3 DEF Dependents

LEMMA UpdateStoreMaps ==
    ASSUME SourceUpdates, StoreInv, NEW p \in Procs, NEW e \in Execs, UpdateStore(p, e)
    PROVE  \E stamp \in 1..MaxCalls : Puts(e, stamp)
<1> DEFINE stamp == job[p].version
           v == Value("update", 0, {<<e, stamp>>})
<1>1. stamp \in 1..MaxCalls
  <2>1. job[p] \in Jobs /\ stamp <= calls /\ calls \in 0..MaxCalls
    BY DEF StoreInv, FreshInv, AloneInv, IInv, JobsSound, Shape
  <2>2. stamp \in Nat /\ stamp > 0
    BY <2>1 DEF Jobs, UpdateStore, StoreInv, PresetInv, VersionsGiven
  <2> HIDE DEF stamp
  <2>3. QED
    BY <2>1, <2>2, ScopeAssumption
<1> HIDE DEF stamp
<1>2. /\ e \in Sources /\ cache' = [cache EXCEPT ![e] = v]
      /\ Doomed = {} /\ Doomed' = Dependents(e)
  BY UpdateStored DEF StoreInv, FreshInv, SourceUpdates, stamp
<1>3. v.kind = "update" /\ v.data = {<<e, stamp>>}
  BY DEF Value
<1> HIDE DEF v
<1>4. cache'[e] = v /\ \A x \in Execs \ {e} : cache'[x] = cache[x]
  BY <1>2 DEF StoreInv, FreshInv, AloneInv, IInv, Shape
<1>5. CacheStored'
  BY <1>2, <1>3, <1>4 DEF StoreInv, CacheStored, Cached
<1>6. ASSUME NEW x \in Execs
      PROVE  (IF x \in Doomed' THEN {} ELSE cache'[x].data) =
                IF x = e THEN {<<e, stamp>>}
                ELSE IF x \in Reach(Declared, Execs, e) THEN {}
                ELSE InStore[x]
  <2>1. CASE x = e
    BY <1>2, <1>3, <1>4, <2>1 DEF Dependents
  <2>2. CASE x # e
    <3>1. /\ x \in Dependents(e) => x \in Reach(Declared, Execs, e)
          /\ x \in Reach(Declared, Execs, e) => x \in Dependents(e) \/ ~Cached(x)
      BY <1>2, <2>2, DependentsDeclared
    <3>2. InStore[x] = cache[x].data /\ cache'[x] = cache[x]
      BY <1>2, <1>4, <2>2 DEF InStore
    <3>3. ~Cached(x) => cache[x].data = {}
      BY DEF StoreInv, CacheStored
    <3>4. QED
      BY <1>2, <2>2, <3>1, <3>2, <3>3
  <2>3. QED
    BY <2>1, <2>2
<1>7. QED
  BY <1>1, <1>2, <1>5, <1>6 DEF Puts, InStore

LEMMA DeleteMaps ==
    ASSUME StoreInv, NEW p \in Procs, NEW d \in Execs, UpdateDelete(p, d)
    PROVE  Stutters
<1>1. cache' = [cache EXCEPT ![d] = NoValue] /\ Doomed' = Doomed \ {d} /\ d \in Doomed
  BY DeleteAlone DEF StoreInv, FreshInv, UpdateDelete
<1>2. cache'[d] = NoValue /\ \A x \in Execs \ {d} : cache'[x] = cache[x]
  BY <1>1 DEF StoreInv, FreshInv, AloneInv, IInv, Shape
<1>3. CacheStored'
  BY <1>2, NewFramesFresh DEF StoreInv, CacheStored, Cached
<1>4. \A x \in Execs : (IF x \in Doomed' THEN {} ELSE cache'[x].data) =
                       (IF x \in Doomed THEN {} ELSE cache[x].data)
  BY <1>1, <1>2, NewFramesFresh
<1>5. QED
  BY <1>3, <1>4 DEF Stutters, InStore

(* All other steps leave the cache alone and doom nothing. *)
LEMMA OthersMap ==
    ASSUME Exclusive, StoreInv, NEW p \in Procs,
           \/ Call(p)
           \/ Load(p) \/ Link(p) \/ PreResolve(p) \/ FactoryGet(p) \/ FactoryFail(p)
           \/ FactoryDone(p) \/ UpdateCancelled(p)
           \/ \E e \in Execs : UpdateSelf(p, e) \/ UpdateDependent(p, e)
           \/ \E r \in 1..Len(runs) : DisposeRun(p, r)
    PROVE  Stutters
<1>1. UNCHANGED cache
  <2>1. CASE Call(p)
    BY <2>1 DEF Exclusive, Begin, Call, Get, FlowDependency, Release, Reload, Update, Dispose
  <2>2. CASE ~Call(p)
    BY <2>2 DEF Load, Link, PreResolve, FactoryGet, FactoryFail, FactoryDone, UpdateCancelled,
                UpdateSelf, UpdateDependent, DisposeRun
  <2>3. QED
    BY <2>1, <2>2
<1>2. Doomed' = Doomed
  <2>1. ASSUME Call(p) PROVE Doomed = {} /\ Doomed' = {}
    BY <2>1, CallAlone DEF StoreInv, FreshInv, Exclusive
  <2>2. ASSUME \/ Load(p) \/ Link(p) \/ PreResolve(p) \/ FactoryGet(p) \/ FactoryFail(p)
               \/ FactoryDone(p)
        PROVE  UNCHANGED job
    BY <2>2 DEF Load, Link, PreResolve, FactoryGet, FactoryFail, FactoryDone
  <2>3. ASSUME \/ \E e \in Execs : UpdateSelf(p, e) \/ UpdateDependent(p, e)
               \/ UpdateCancelled(p)
               \/ \E r \in 1..Len(runs) : DisposeRun(p, r)
        PROVE  Doomed = {} /\ Doomed' = {}
    BY <2>3, CleanupAlone, CancelAlone, DisposeAlone DEF StoreInv, FreshInv
  <2>4. UNCHANGED job => Doomed' = Doomed
    BY DEF Doomed
  <2>5. QED
    BY <2>1, <2>2, <2>3, <2>4
<1>3. QED
  BY <1>1, <1>2, CacheAlone

(* Every step of the scope is one of the store, or none. *)
LEMMA StepMaps ==
    ASSUME SourceUpdates, StoreInv, [Next]_vars
    PROVE  \/ Stutters
           \/ \E e \in Execs : Fills(e)
           \/ \E e \in Execs, stamp \in 1..MaxCalls : Puts(e, stamp)
<1>1. CASE UNCHANGED vars
  BY <1>1, CacheAlone DEF vars, Doomed
<1>2. ASSUME NEW p \in Procs, Call(p) PROVE Stutters
  BY <1>2, OthersMap DEF SourceUpdates
<1>3. ASSUME NEW p \in Procs, StoreValue(p) PROVE Stutters \/ \E e \in Execs : Fills(e)
  BY <1>3, StoreValueMaps
<1>4. ASSUME NEW p \in Procs, NEW e \in Execs, UpdateStore(p, e)
      PROVE  \E x \in Execs, stamp \in 1..MaxCalls : Puts(x, stamp)
  BY <1>4, UpdateStoreMaps
<1>5. ASSUME NEW p \in Procs, NEW d \in Execs, UpdateDelete(p, d) PROVE Stutters
  BY <1>5, DeleteMaps
<1>6. ASSUME NEW p \in Procs, Step(p), ~StoreValue(p),
             ~(\E e \in Execs : UpdateStore(p, e) \/ UpdateDelete(p, e))
      PROVE  Stutters
  BY <1>6, OthersMap DEF Step, SourceUpdates
<1>7. QED
  BY <1>1, <1>2, <1>3, <1>4, <1>5, <1>6 DEF Next, AllReturned

LEMMA StoreStart == Init => StoreInv
<1> SUFFICES ASSUME Init PROVE StoreInv
  OBVIOUS
<1>1. CacheStored
  BY NewFramesFresh DEF Init, CacheStored, Cached
<1>2. QED
  BY <1>1, PresetStart, FreshStart DEF StoreInv, Init

LEMMA StoreStep == SourceUpdates /\ StoreInv /\ [Next]_vars => StoreInv'
<1> SUFFICES ASSUME SourceUpdates, StoreInv, [Next]_vars PROVE StoreInv'
  OBVIOUS
<1>1. PlainReplacements
  BY DEF SourceUpdates, NoPresets, PlainReplacements
<1>2. PresetInv' /\ FreshInv'
  BY <1>1, PresetStep, FreshStep DEF StoreInv, SourceUpdates
<1>3. CacheStored'
  BY StepMaps DEF Stutters, Fills, Puts
<1>4. QED
  BY <1>2, <1>3, EdgesDeclared DEF StoreInv

(* When the callers keep updates apart and update sources, and nothing is  *)
(* preset, the scope implements ReactiveStore: every step of it fills one  *)
(* entry, or updates one and empties all that depend on it, or is not      *)
(* seen (scope.go 119-205, 239-264).                                       *)
THEOREM StoreImplemented == ASSUME SourceUpdates PROVE Spec => ImplementsStore
<1>1. Init => Store!Init
  <2> SUFFICES ASSUME Init PROVE Store!Init
    OBVIOUS
  <2>1. \A e \in Execs : cache[e].data = {}
    BY NewFramesFresh DEF Init
  <2>2. QED
    BY <2>1 DEF Store!Init
<1>2. StoreInv /\ [Next]_vars => [Store!Next]_(InStore)
  <2> SUFFICES ASSUME StoreInv, [Next]_vars PROVE Store!Next \/ UNCHANGED InStore
    OBVIOUS
  <2>1. ASSUME Stutters PROVE UNCHANGED InStore
    BY <2>1 DEF Stutters
  <2>2. ASSUME NEW e \in Execs, Fills(e) PROVE Store!Next
    <3> DEFINE v == {<<e, 0>>} \union UNION { InStore[d] : d \in ToSet(Reads[e]) }
    <3>1. Store!Computed(e) = v
      BY DEF InStore, Store!Computed, Store!ToSet, ToSet
    <3>2. InStore' = [InStore EXCEPT ![e] = v]
      BY <2>2 DEF Fills
    <3> HIDE DEF v
    <3>3. Store!Fill(e)
      BY <2>2, <3>1, <3>2 DEF Fills, InStore, Store!Fill, Store!ToSet, ToSet
    <3>4. QED
      BY <3>3 DEF Store!Next
  <2>3. ASSUME NEW e \in Execs, NEW stamp \in 1..MaxCalls, Puts(e, stamp) PROVE Store!Next
    <3>1. Store!Put(e, stamp)
      BY <2>3 DEF Puts, InStore, Store!Put, Store!Sources, Sources, Store!Reach, Reach,
                  Store!Closed, Closed, Store!Declared, Declared
    <3>2. QED
      BY <3>1 DEF Store!Next
  <2>4. QED
    BY <2>1, <2>2, <2>3, StepMaps
<1>3. QED
  BY <1>1, <1>2, StoreStart, StoreStep, PTL DEF Spec, ImplementsStore, Store!Spec, InStore

(* The promise of ReactiveStore is kept for any program of executors: a    *)
(* filled value is computed from what is present, and an update empties    *)
(* all that is reachable from the source, so that nothing kept depends on  *)
(* what it emptied.                                                        *)
FreshIn(v) ==
    \A e \in Execs : v[e] # {} =>
        \A d \in Reactive[e] : v[d] # {} /\ v[d] \subseteq v[e]

LEMMA FillFresh ==
    ASSUME NEW F, NEW v \in [Execs -> F], FreshIn(v), NEW e \in Execs, v[e] = {},
           \A d \in ToSet(Reads[e]) : v[d] # {},
           NEW w, w = [v EXCEPT ![e] =
                           {<<e, 0>>} \union UNION { v[d] : d \in ToSet(Reads[e]) }]
    PROVE  FreshIn(w)
<1>1. SUFFICES ASSUME NEW x \in Execs, w[x] # {}, NEW d \in Reactive[x]
               PROVE  w[d] # {} /\ w[d] \subseteq w[x]
  BY DEF FreshIn
<1>2. d \in Execs /\ d \in ToSet(Reads[x])
  BY ExecutorsAssumption, ReadsAssumption
<1>3. CASE x = e
  <2>1. v[d] # {} /\ v[d] \subseteq w[e]
    BY <1>2, <1>3
  <2>2. d # e
    BY <2>1
  <2>3. QED
    BY <1>2, <1>3, <2>1, <2>2
<1>4. CASE x # e
  <2>1. w[x] = v[x]
    BY <1>4
  <2>2. v[d] # {} /\ v[d] \subseteq v[x]
    BY <1>1, <2>1 DEF FreshIn
  <2>3. d # e
    BY <2>2
  <2>4. QED
    BY <1>2, <2>1, <2>2, <2>3
<1>5. QED
  BY <1>3, <1>4

LEMMA PutFresh ==
    ASSUME NEW v, FreshIn(v), NEW e \in Sources, NEW made,
           NEW w, w = [x \in Execs |-> IF x = e THEN made
                                       ELSE IF x \in Reach(Declared, Execs, e) THEN {}
                                       ELSE v[x]]
    PROVE  FreshIn(w)
<1>1. SUFFICES ASSUME NEW x \in Execs, w[x] # {}, NEW d \in Reactive[x]
               PROVE  w[d] # {} /\ w[d] \subseteq w[x]
  BY DEF FreshIn
<1>2. d \in Execs /\ d \in ToSet(Reads[x]) /\ e \in Execs
  BY ExecutorsAssumption, ReadsAssumption DEF Sources
<1>3. x # e
  BY <1>2 DEF Sources, ToSet
<1>4. x \notin Reach(Declared, Execs, e)
  BY <1>1, <1>3
<1>5. d \notin Reach(Declared, Execs, e)
  <2>1. <<d, x>> \in Declared /\ Declared \in SUBSET (Execs \X Execs)
    BY <1>2 DEF Declared
  <2>2. QED
    BY <1>2, <1>4, <2>1, ReachStep
<1>6. e \in Reach(Declared, Execs, e)
  BY <1>2, ReachStart
<1>7. w[x] = v[x] /\ w[d] = v[d]
  BY <1>2, <1>3, <1>4, <1>5, <1>6
<1>8. QED
  BY <1>1, <1>7 DEF FreshIn

(* No value of a ReactiveStore is ever older than what it was derived from *)
(* (executor.go 52-53, scope.go 239-264), for any executors.               *)
THEOREM StoreIsFresh == Store!Spec => []Store!Fresh
<1> DEFINE Inv == FreshIn(InStore)
<1>1. Store!Init => Inv
  BY DEF Store!Init, InStore, FreshIn
<1>2. Inv /\ [Store!Next]_(InStore) => Inv'
  <2> SUFFICES ASSUME Inv, [Store!Next]_(InStore) PROVE Inv'
    OBVIOUS
  <2>1. PICK v, w : v = InStore /\ w = InStore'
    OBVIOUS
  <2>2. FreshIn(v) /\ v \in [Execs -> { v[x] : x \in Execs }]
    BY <2>1 DEF InStore
  <2>3. ASSUME NEW e \in Execs, Store!Fill(e) PROVE FreshIn(w)
    <3>1. /\ v[e] = {} /\ \A d \in ToSet(Reads[e]) : v[d] # {}
          /\ w = [v EXCEPT ![e] = Store!Computed(e)]
      BY <2>1, <2>3 DEF Store!Fill, InStore, Store!ToSet, ToSet
    <3>2. Store!Computed(e) = {<<e, 0>>} \union UNION { v[d] : d \in ToSet(Reads[e]) }
      BY <2>1 DEF InStore, Store!Computed, Store!ToSet, ToSet
    <3>3. QED
      BY <2>2, <3>1, <3>2, FillFresh
  <2>4. ASSUME NEW e \in Execs, NEW stamp \in 1..MaxCalls, Store!Put(e, stamp)
        PROVE  FreshIn(w)
    <3>1. e \in Sources
      BY <2>4 DEF Store!Put, Store!Sources, Sources
    <3>2. w = [x \in Execs |-> IF x = e THEN {<<e, stamp>>}
                               ELSE IF x \in Reach(Declared, Execs, e) THEN {}
                               ELSE v[x]]
      BY <2>1, <2>4 DEF Store!Put, InStore, Store!Reach, Reach, Store!Closed, Closed,
                        Store!Declared, Declared
    <3>3. QED
      BY <2>2, <3>1, <3>2, PutFresh
  <2>5. FreshIn(w)
    BY <2>1, <2>2, <2>3, <2>4 DEF Store!Next
  <2>6. QED
    BY <2>1, <2>5
<1>3. Inv => Store!Fresh
  BY DEF FreshIn, InStore, Store!Fresh
<1>4. QED
  BY <1>1, <1>2, <1>3, PTL DEF Store!Spec, InStore

(* So the scope, seen as a ReactiveStore, is fresh too, even between the   *)
(* steps of an Update.                                                     *)
THEOREM StoreKeptFresh == ASSUME SourceUpdates PROVE Spec => []StoreFresh
BY StoreImplemented, StoreIsFresh, PTL DEF ImplementsStore, StoreFresh

-----------------------------------------------------------------------------
(* Resources.  What a value stands on is what its factory opened: nothing  *)
(* is replaced, for a replacement's resource is opened by another factory; *)
(* updates are apart and run to their end, for one that gives up leaves    *)
(* what it has closed in the cache.                                        *)
Uncut == Apart /\ ~Cancellable /\ DOMAIN Replacement = {}

(* What the Update under way has closed or will close, and has not deleted *)
(* or replaced yet.                                                        *)
Affected(e) ==
    \E p \in Procs :
        \/ job[p].at \in {"self", "dependents"} /\ e \in job[p].target \union job[p].victims
        \/ job[p].at = "delete" /\ e \in job[p].todo

(* Only what is not preset has its dependencies run. *)
PlainFrames == { f \in Frames : f.at = "deps" => f.exec \notin ValuePresets }

(* The frames that have nothing to store, or what no factory made. *)
Bare == { f \in PlainFrames : f.at = "store" => f.got.run = 0 }

(* Moves that give no Resolve a value of a factory to store. *)
MovesBare(p) ==
    \/ \E f \in Bare : Goto(p, f) /\ SameCall(Top(p), f)
    \/ \E f \in PlainFrames, g \in Bare :
          Invoke(p, f, g) /\ SameCall(Top(p), f) /\ Awaits(f, g)
    \/ \E v \in Values : Return(p, v) /\ (Top(p).at = "gets" => v.run = 0)

LEMMA NewFramesBare ==
    /\ NoValue \in Values
    /\ Failure \in Values /\ Failure.run = 0
    /\ \A e \in Execs : /\ Resolve(e) \in Bare /\ Resolve(e).at = "load"
                        /\ Resolve(e).exec = e
                        /\ ResolveAny(e) \in Bare /\ ResolveAny(e).at = "gets"
                        /\ ResolveAny(e).exec = e
<1>1. NoValue \in Values /\ Failure \in Values /\ Failure.run = 0
  BY DEF NoValue, Failure, Value, Values, Kinds
<1>2. ASSUME NEW e \in Execs, NEW at \in {"load", "gets"}
      PROVE  Frame(e, at) \in Bare /\ Frame(e, at).at = at /\ Frame(e, at).exec = e
  BY <1>1, <1>2 DEF Frame, Frames, PlainFrames, Bare
<1>3. QED
  BY <1>1, <1>2 DEF Resolve, ResolveAny

LEMMA LoadBare ==
    ASSUME IInv, NEW T, Held(PlainFrames, T), NEW p \in Procs, Load(p)
    PROVE  MovesBare(p)
<1>1. stack[p] # <<>> /\ Top(p).at = "load"
  BY DEF Load, At
<1>2. PICK f \in Frames : f = Top(p) /\ f.exec \in Execs
  BY <1>1, TopHeld
<1> DEFINE g == [f EXCEPT !.at = "link"]
<1>3. Return(p, cache[f.exec]) \/ Goto(p, g)
  BY <1>2 DEF Load
<1>4. cache[f.exec] \in Values
  BY <1>2 DEF IInv, Shape
<1>5. g \in Bare /\ SameCall(Top(p), g)
  BY <1>1, <1>2 DEF Frames, PlainFrames, Bare, SameCall
<1> HIDE DEF g
<1>6. QED
  BY <1>1, <1>3, <1>4, <1>5 DEF MovesBare

LEMMA LinkBare ==
    ASSUME Uncut, NEW T, Held(PlainFrames, T), NEW p \in Procs, Link(p)
    PROVE  MovesBare(p)
<1>1. stack[p] # <<>> /\ Top(p).at = "link"
  BY DEF Link, At
<1>2. PICK f \in Frames : f = Top(p) /\ f.exec \in Execs
  BY <1>1, TopHeld
<1> DEFINE got == Value("preset", 0, {<<f.exec, PresetVersion>>})
           g == [f EXCEPT !.at = "store", !.got = got]
           d == [f EXCEPT !.at = "deps"]
<1>3. got \in Values /\ got.run = 0
  BY <1>2, ScopeAssumption DEF Value, Values, Kinds, Versions, PresetVersion
<1>4. Goto(p, g) \/ (f.exec \notin ValuePresets /\ Goto(p, d))
  BY <1>2 DEF Link, Uncut
<1> HIDE DEF got
<1>5. g \in Bare /\ SameCall(Top(p), g)
  BY <1>1, <1>2, <1>3 DEF Frames, PlainFrames, Bare, SameCall
<1>6. f.exec \notin ValuePresets => d \in Bare /\ SameCall(Top(p), d)
  BY <1>1, <1>2 DEF Frames, PlainFrames, Bare, SameCall
<1> HIDE DEF g, d
<1>7. QED
  BY <1>4, <1>5, <1>6 DEF MovesBare

LEMMA PreResolveBare ==
    ASSUME Uncut, NEW T \in SUBSET PlainFrames, Held(PlainFrames, T),
           NEW p \in Procs, PreResolve(p)
    PROVE  MovesBare(p)
<1>1. stack[p] # <<>> /\ Top(p).at = "deps"
  BY DEF PreResolve, At
<1>2. PICK f \in Frames : /\ f = Top(p) /\ f.exec \in Execs /\ f.i \in Nat
                         /\ f.exec \notin ValuePresets
  BY <1>1, TopHeld DEF PlainFrames
<1> DEFINE e == f.exec
           n == f.i + 1
           g == [f EXCEPT !.i = n, !.got = NoValue]
           h == [f EXCEPT !.at = "store", !.got = NoValue]
           x == Eager[e][n]
<1>3. \/ Return(p, Failure)
      \/ f.i < Len(Eager[e]) /\ Invoke(p, g, ResolveAny(x))
      \/ Invoke(p, h, ResolveAny(e))
  BY <1>2 DEF PreResolve
<1>4. CASE Return(p, Failure)
  BY <1>4, NewFramesBare DEF MovesBare
<1>5. CASE f.i < Len(Eager[e]) /\ Invoke(p, g, ResolveAny(x))
  <2>1. n \in Nat /\ n \in 1..Len(Eager[e]) /\ Eager[e] \in Seq(Execs)
    BY <1>2, <1>5, ExecutorsAssumption
  <2> HIDE DEF n
  <2>2. x \in Execs /\ x \in ToSet(Eager[e])
    BY <2>1 DEF ToSet
  <2> HIDE DEF x
  <2>3. g \in PlainFrames /\ SameCall(Top(p), g) /\ g.at = "deps" /\ g.exec = e
    BY <1>1, <1>2, <2>1, NewFramesBare DEF Frames, PlainFrames, SameCall
  <2> HIDE DEF g
  <2>4. Awaits(g, ResolveAny(x))
    BY <2>2, <2>3, NewFramesBare DEF Awaits
  <2>5. QED
    BY <1>5, <2>2, <2>3, <2>4, NewFramesBare DEF MovesBare
<1>6. CASE Invoke(p, h, ResolveAny(e))
  <2>1. h \in PlainFrames /\ SameCall(Top(p), h) /\ h.at = "store" /\ h.exec = e
    BY <1>1, <1>2, NewFramesBare DEF Frames, PlainFrames, SameCall
  <2> HIDE DEF h
  <2>2. Awaits(h, ResolveAny(e))
    BY <1>2, <2>1, NewFramesBare DEF Awaits, Maker, Uncut
  <2>3. QED
    BY <1>2, <1>6, <2>1, <2>2, NewFramesBare DEF MovesBare
<1>7. QED
  BY <1>3, <1>4, <1>5, <1>6

LEMMA FactoryGetBare ==
    ASSUME NEW T, Held(PlainFrames, T), NEW p \in Procs, FactoryGet(p)
    PROVE  MovesBare(p)
<1>1. stack[p] # <<>> /\ Top(p).at = "gets"
  BY DEF FactoryGet, At
<1>2. PICK f \in Frames : /\ f = Top(p)
                          /\ f.exec \in Execs
                          /\ f.i \in Nat
                          /\ f.data \union f.got.data \in SUBSET Versions
  BY <1>1, TopHeld
<1> DEFINE n == f.i + 1
           data == f.data \union f.got.data
           g == [f EXCEPT !.i = n, !.got = NoValue, !.data = data]
           d == Reads[f.exec][n]
<1>3. f.i < Len(Reads[f.exec]) /\ Invoke(p, g, Resolve(d))
  BY <1>2 DEF FactoryGet, Gather
<1>4. n \in Nat /\ n \in 1..Len(Reads[f.exec]) /\ d \in Execs
  BY <1>2, <1>3, ExecutorsAssumption
<1> HIDE DEF n, data
<1>5. /\ g \in PlainFrames /\ SameCall(Top(p), g)
      /\ g.at = "gets" /\ g.exec = f.exec /\ g.i = n
  BY <1>1, <1>2, <1>4, NewFramesBare DEF Frames, PlainFrames, SameCall, data
<1> HIDE DEF g
<1>6. Resolve(d) \in Bare /\ Awaits(g, Resolve(d))
  BY <1>4, <1>5, NewFramesBare DEF Awaits
<1>7. QED
  BY <1>3, <1>5, <1>6 DEF MovesBare

(* All moves of a goroutine but the two ends of a factory and of a Resolve *)
(* that stores.                                                            *)
Moves(p) == Load(p) \/ Link(p) \/ PreResolve(p) \/ FactoryGet(p) \/ FactoryFail(p)

(* Such a move leaves everything but the stack and the graph alone, and    *)
(* tops a stack with nothing that a factory opened.                        *)
LEMMA MoveHeld ==
    ASSUME Uncut, IInv, NEW T \in SUBSET PlainFrames, Held(PlainFrames, T),
           Bare \subseteq T, NEW p \in Procs, Moves(p)
    PROVE  /\ stack[p] # <<>> /\ Top(p).at # "store"
           /\ UNCHANGED <<cache, registry, runs, job>>
           /\ stack' \in [Procs -> Stacks(PlainFrames, T)]
<1>1. /\ stack[p] # <<>> /\ Top(p).at # "store"
      /\ UNCHANGED <<cache, registry, runs, job>>
  BY DEF Moves, Load, Link, PreResolve, FactoryGet, FactoryFail, At
<1>2. FactoryFail(p) => MovesBare(p)
  BY NewFramesBare DEF FactoryFail, MovesBare
<1>3. MovesBare(p)
  BY <1>2, LoadBare, LinkBare, PreResolveBare, FactoryGetBare DEF Moves
<1>4. ASSUME NEW f \in Bare, Goto(p, f), SameCall(Top(p), f)
      PROVE  stack' \in [Procs -> Stacks(PlainFrames, T)]
  BY <1>1, <1>4, GotoHeld DEF Bare, PlainFrames
<1>5. ASSUME NEW f \in PlainFrames, NEW g \in Bare,
             Invoke(p, f, g), SameCall(Top(p), f), Awaits(f, g)
      PROVE  stack' \in [Procs -> Stacks(PlainFrames, T)]
  <2>1. f \in Frames /\ g \in Frames /\ g \in T
    BY DEF Bare, PlainFrames
  <2>2. QED
    BY <1>1, <1>5, <2>1, InvokeHeld
<1>6. ASSUME NEW v \in Values, Return(p, v), Top(p).at = "gets" => v.run = 0
      PROVE  stack' \in [Procs -> Stacks(PlainFrames, T)]
  <2>1. ASSUME NEW f \in PlainFrames \intersect Frames, Awaits(f, Top(p))
        PROVE  [f EXCEPT !.got = v] \in T
    <3>1. f.at = "store" => v.run = 0
      BY <1>6, <2>1 DEF Awaits
    <3>2. [f EXCEPT !.got = v] \in Bare
      BY <3>1 DEF Bare, PlainFrames, Frames
    <3>3. QED
      BY <3>2
  <2>2. QED
    BY <1>1, <1>6, <2>1, ReturnHeld
<1>7. QED
  BY <1>1, <1>3, <1>4, <1>5, <1>6 DEF MovesBare

(* A factory returns a value on top of a run of its own, or of none.       *)
LEMMA FactoryEnds ==
    ASSUME IInv, NEW T, Held(PlainFrames, T), NEW p \in Procs, FactoryDone(p)
    PROVE  /\ stack[p] # <<>> /\ Top(p).at = "gets" /\ Top(p).exec \in Execs
           /\ UNCHANGED <<cache, job>>
           /\ \E v \in Values :
                 /\ Return(p, v)
                 /\ v.kind # "error"
                 /\ \/ v.run = 0 /\ UNCHANGED <<runs, registry>>
                    \/ /\ Len(runs) \in Nat /\ v.run = Len(runs) + 1 /\ Len(runs') = v.run
                       /\ \A r \in 1..Len(runs) : runs'[r] = runs[r]
                       /\ runs'[v.run] = [exec |-> Top(p).exec, closed |-> 0]
                       /\ \A x \in Execs :
                             registry'[x] = IF x = Top(p).exec THEN v.run ELSE registry[x]
<1>1. stack[p] # <<>> /\ Top(p).at = "gets" /\ UNCHANGED <<cache, job>>
  BY DEF FactoryDone, At
<1>2. PICK f \in Frames : /\ f = Top(p)
                         /\ f.exec \in Execs
                         /\ f.data \union f.got.data \in SUBSET Versions
  BY <1>1, TopHeld
<1> DEFINE e == f.exec
           run == IF e \in Closers THEN Len(runs) + 1 ELSE 0
           data == {<<e, 0>>} \union f.data \union f.got.data
           v == Value("factory", run, data)
           r == [exec |-> e, closed |-> 0]
<1>3. /\ Return(p, v)
      /\ \/ run = 0 /\ UNCHANGED <<runs, registry>>
         \/ /\ run = Len(runs) + 1
            /\ runs' = Append(runs, r)
            /\ registry' = [registry EXCEPT ![e] = run]
  BY <1>2 DEF FactoryDone, Gather
<1>4. v \in Values /\ v.run = run /\ v.kind # "error"
  <2>1. run \in Nat
    BY DEF IInv, Shape
  <2>2. data \in SUBSET Versions
    BY <1>2, ScopeAssumption DEF Versions, PresetVersion
  <2> HIDE DEF run, data
  <2>3. QED
    BY <2>1, <2>2 DEF Value, Values, Kinds
<1> HIDE DEF v, run
<1>5. ASSUME run = Len(runs) + 1, runs' = Append(runs, r)
      PROVE  /\ Len(runs) \in Nat /\ Len(runs') = run /\ runs'[run] = r
             /\ \A k \in 1..Len(runs) : runs'[k] = runs[k]
  BY <1>5 DEF IInv, Shape
<1>6. registry \in [Execs -> 0..Len(runs)]
  BY DEF IInv, Shape
<1>7. QED
  BY <1>1, <1>2, <1>3, <1>4, <1>5, <1>6

(* A Resolve caches what it was given, and the caller goes on with it.     *)
LEMMA ResolveEnds ==
    ASSUME Uncut, IInv, NEW T, Held(PlainFrames, T), Bare \subseteq T,
           NEW p \in Procs, StoreValue(p)
    PROVE  /\ stack[p] # <<>> /\ Top(p).at = "store" /\ Top(p) \in T /\ Top(p).exec \in Execs
           /\ UNCHANGED <<registry, runs, job>>
           /\ stack' \in [Procs -> Stacks(PlainFrames, T)]
           /\ \/ Top(p).got.kind = "error" /\ UNCHANGED cache
              \/ Top(p).got.kind # "error" /\ cache' = [cache EXCEPT ![Top(p).exec] = Top(p).got]
<1>1. /\ stack[p] # <<>> /\ Top(p).at = "store" /\ UNCHANGED <<registry, runs, job>>
      /\ Top(p) \in T /\ Top(p).exec \in Execs /\ Top(p).got \in Values
  BY TopHeld DEF StoreValue, At
<1>2. PICK v \in Values :
          /\ Return(p, v)
          /\ \/ Top(p).got.kind = "error" /\ UNCHANGED cache
             \/ Top(p).got.kind # "error" /\ cache' = [cache EXCEPT ![Top(p).exec] = Top(p).got]
  BY <1>1, NewFramesBare DEF StoreValue, Uncut
<1>3. ASSUME NEW f \in PlainFrames \intersect Frames, Awaits(f, Top(p))
      PROVE  [f EXCEPT !.got = v] \in T
  <2>1. f.at = "gets"
    BY <1>1, <1>3 DEF Awaits
  <2>2. [f EXCEPT !.got = v] \in Bare
    BY <2>1 DEF Bare, PlainFrames, Frames
  <2>3. QED
    BY <2>2
<1>4. stack' \in [Procs -> Stacks(PlainFrames, T)]
  BY <1>1, <1>2, <1>3, ReturnHeld
<1>5. QED
  BY <1>1, <1>2, <1>4

(* Only the one Update under way affects anything. *)
LEMMA NoneAffected ==
    ASSUME \A q \in Procs : ~Updating(q) PROVE \A x : ~Affected(x)
BY DEF Affected, Updating

(* A call finds nothing affected, and at most empties an entry. *)
LEMMA CallBegins ==
    ASSUME Uncut, AloneInv, NEW T, Held(PlainFrames, T), Bare \subseteq T,
           NEW p \in Procs, Call(p)
    PROVE  /\ stack[p] = <<>>
           /\ \A q \in Procs : job[q] = NoJob
           /\ \A x : ~Affected(x)
           /\ UNCHANGED <<registry, runs>>
           /\ stack' \in [Procs -> Stacks(PlainFrames, T)]
           /\ \A x \in Execs : cache'[x] = cache[x] \/ cache'[x].run = 0
<1>1. stack[p] = <<>> /\ \A q \in Procs : job[q] = NoJob
  BY BeginsAlone DEF Call, Get, FlowDependency, Release, Reload, Update, Dispose, Begin, Idle, Uncut
<1>2. \A x : ~Affected(x)
  BY <1>1, NoneAffected DEF NoJob, Updating
<1>3. NoValue.run = 0
  BY DEF NoValue, Value
<1>4. \A x \in Execs : cache'[x] = cache[x] \/ cache'[x].run = 0
  BY <1>3 DEF Call, Get, FlowDependency, Release, Reload, Update, Dispose, AloneInv, IInv, Shape
<1>5. UNCHANGED <<registry, runs>>
  BY DEF Call, Get, FlowDependency, Release, Reload, Update, Dispose
<1>6. ASSUME UNCHANGED stack PROVE stack' \in [Procs -> Stacks(PlainFrames, T)]
  BY <1>6 DEF Held
<1>7. ASSUME NEW e \in Execs, Get(p, e) \/ Reload(p, e) \/ FlowDependency(p, e)
      PROVE  stack' \in [Procs -> Stacks(PlainFrames, T)]
  <2>1. Bottom(Resolve(e)) /\ (e \in FlowDeps => Bottom(ResolveAny(e)))
    BY DEF Bottom, Resolve, ResolveAny, Frame
  <2>2. /\ Resolve(e) \in T /\ Resolve(e) \in Frames
        /\ ResolveAny(e) \in T /\ ResolveAny(e) \in Frames
    BY NewFramesBare DEF Bare, PlainFrames
  <2>3. QED
    BY <1>7, <2>1, <2>2, StartHeld DEF Get, Reload, FlowDependency
<1>8. stack' \in [Procs -> Stacks(PlainFrames, T)]
  BY <1>6, <1>7 DEF Call, Release, Update, Dispose
<1>9. QED
  BY <1>1, <1>2, <1>4, <1>5, <1>8

(* The steps of an Update: a cleanup of what is affected, or a store or a  *)
(* delete, after which one executor is affected no more.                   *)
LEMMA UpdateAffects ==
    ASSUME Uncut, AloneInv, NEW p \in Procs, NEW e \in Execs,
           UpdateSelf(p, e) \/ UpdateDependent(p, e) \/ UpdateStore(p, e) \/ UpdateDelete(p, e)
    PROVE  /\ \A q \in Procs : stack[q] = <<>>
           /\ UNCHANGED stack
           /\ \A x \in Execs \ {e} : Affected(x) => Affected(x)'
           /\ \A x \in Execs \ {e} : cache'[x] = cache[x]
           /\ \/ Cleanup(e) /\ UNCHANGED cache /\ Affected(e)'
              \/ UNCHANGED <<registry, runs>> /\ cache'[e].run = 0
<1>1. /\ Updating(p)
      /\ UNCHANGED stack
      /\ job \in [Procs -> Jobs]
      /\ cache \in [Execs -> Values]
  BY DEF UpdateSelf, UpdateDependent, UpdateStore, UpdateDelete, Updating, AloneInv, IInv, Shape,
         JobsSound
<1>2. /\ \A q \in Procs : stack[q] = <<>> /\ (q # p => job[q] = NoJob)
      /\ job[p].todo \subseteq job[p].victims
  BY <1>1 DEF AloneInv, UpdatesAlone
<1>3. NoJob.at = "idle" /\ NoValue.run = 0
  BY DEF NoJob, NoValue, Value
<1>4. \A x : Affected(x) <=>
          \/ job[p].at \in {"self", "dependents"} /\ x \in job[p].target \union job[p].victims
          \/ job[p].at = "delete" /\ x \in job[p].todo
  BY <1>2, <1>3 DEF Affected
<1>5. CASE UpdateSelf(p, e) \/ UpdateDependent(p, e)
  <2>1. /\ job'[p].at = "dependents"
        /\ job'[p].target = job[p].target
        /\ job'[p].victims = job[p].victims
    BY <1>1, <1>5 DEF UpdateSelf, UpdateDependent, Jobs
  <2>2. job[p].at \in {"self", "dependents"} /\ e \in job[p].target \union job[p].victims
    BY <1>2, <1>5 DEF UpdateSelf, UpdateDependent
  <2>3. \A x : Affected(x) => Affected(x)'
    BY <1>4, <2>1, <2>2 DEF Affected
  <2>4. Affected(e)'
    BY <2>1, <2>2 DEF Affected
  <2>5. Cleanup(e) /\ UNCHANGED cache
    BY <1>5 DEF UpdateSelf, UpdateDependent
  <2>6. QED
    BY <1>1, <1>2, <2>3, <2>4, <2>5
<1>6. CASE UpdateStore(p, e)
  <2>1. /\ job[p].target = {e} /\ job[p].at = "dependents"
        /\ job[p].victims = {} \/ (job'[p].at = "delete" /\ job'[p].todo = job[p].victims)
        /\ cache' = [cache EXCEPT ![e] = Value("update", 0, {<<e, job[p].version>>})]
        /\ UNCHANGED <<registry, runs>>
    BY <1>1, <1>6 DEF UpdateStore, Jobs
  <2>2. \A x \in Execs \ {e} : Affected(x) => Affected(x)'
    BY <1>4, <2>1 DEF Affected
  <2>3. cache'[e].run = 0 /\ \A x \in Execs \ {e} : cache'[x] = cache[x]
    BY <1>1, <2>1 DEF Value
  <2>4. QED
    BY <1>1, <1>2, <2>1, <2>2, <2>3
<1>7. CASE UpdateDelete(p, e)
  <2>1. /\ job[p].at = "delete"
        /\ job[p].todo = {e} \/ (job'[p].at = "delete" /\ job'[p].todo = job[p].todo \ {e})
        /\ cache' = [cache EXCEPT ![e] = NoValue]
        /\ UNCHANGED <<registry, runs>>
    BY <1>1, <1>7 DEF UpdateDelete, Jobs
  <2>2. \A x \in Execs \ {e} : Affected(x) => Affected(x)'
    BY <1>4, <2>1 DEF Affected
  <2>3. cache'[e].run = 0 /\ \A x \in Execs \ {e} : cache'[x] = cache[x]
    BY <1>1, <1>3, <2>1
  <2>4. QED
    BY <1>1, <1>2, <2>1, <2>2, <2>3
<1>8. QED
  BY <1>5, <1>6, <1>7

-----------------------------------------------------------------------------
(* No cached value stands on a resource that is closed: the only closings  *)
(* are those of an Update, of what it is about to delete or replace.       *)
NeverDisposed == \A p \in Procs : job[p].at # "dispose"

(* The run r of the factory of e, and whether what it opened is open.      *)
Opened(r, e) == r \in 1..Len(runs) /\ runs[r].exec = e

Open(r, e) == Opened(r, e) /\ runs[r].closed = 0

OpenTop == { f \in PlainFrames : (f.at = "store" /\ f.got.run # 0) => Open(f.got.run, f.exec) }

CacheOpen ==
    \A e \in Execs : cache[e].run # 0 =>
        Opened(cache[e].run, e) /\ (~Affected(e) => Open(cache[e].run, e))

UsableInv == CleanInv /\ AloneInv /\ NeverDisposed /\ Held(PlainFrames, OpenTop) /\ CacheOpen

Lasting == Uncut /\ "Dispose" \notin Calls

LEMMA StaysUndisposed ==
    ASSUME Lasting, UsableInv, NEW p \in Procs, Call(p) \/ Step(p)
    PROVE  NeverDisposed'
<1>1. job \in [Procs -> Jobs] /\ NoJob.at = "idle"
  BY DEF UsableInv, AloneInv, IInv, JobsSound, NoJob
<1>2. ~Dispose(p) /\ \A r : ~DisposeRun(p, r)
  BY DEF Dispose, Begin, Lasting, DisposeRun, UsableInv, NeverDisposed
<1>3. CASE UNCHANGED job
  BY <1>3 DEF UsableInv, NeverDisposed
<1>4. ASSUME NEW e \in Execs,
             \/ Update(p, e) \/ UpdateSelf(p, e) \/ UpdateDependent(p, e)
             \/ UpdateStore(p, e) \/ UpdateDelete(p, e)
      PROVE  NeverDisposed'
  <2>1. PICK j : job' = [job EXCEPT ![p] = j] /\ j.at # "dispose"
    <3>1. CASE Update(p, e)
      <4> DEFINE j == [at |-> "self", target |-> {e}, version |-> calls + 1,
                       victims |-> Dependents(e), todo |-> Dependents(e), held |-> {}]
      <4>1. job' = [job EXCEPT ![p] = j] /\ j.at # "dispose"
        BY <3>1 DEF Update
      <4>2. QED
        BY <4>1
    <3>2. CASE UpdateSelf(p, e) \/ UpdateDependent(p, e)
      <4>1. \/ job' = [job EXCEPT ![p] = [job[p] EXCEPT !.at = "dependents"]]
            \/ job' = [job EXCEPT ![p] = [job[p] EXCEPT !.todo = @ \ {e}]]
        BY <3>2 DEF UpdateSelf, UpdateDependent
      <4>2. /\ [job[p] EXCEPT !.at = "dependents"].at # "dispose"
            /\ [job[p] EXCEPT !.todo = @ \ {e}].at # "dispose"
        BY <1>1 DEF Jobs, UsableInv, NeverDisposed
      <4>3. QED
        BY <4>1, <4>2
    <3>3. CASE UpdateStore(p, e) \/ UpdateDelete(p, e)
      <4>1. \/ job' = [job EXCEPT ![p] = NoJob]
            \/ job' = [job EXCEPT ![p] = [job[p] EXCEPT !.at = "delete", !.todo = job[p].victims]]
            \/ job' = [job EXCEPT ![p] = [job[p] EXCEPT !.todo = @ \ {e}]]
        BY <3>3 DEF UpdateStore, UpdateDelete
      <4>2. /\ [job[p] EXCEPT !.at = "delete", !.todo = job[p].victims].at # "dispose"
            /\ [job[p] EXCEPT !.todo = @ \ {e}].at # "dispose"
        BY <1>1 DEF Jobs, UsableInv, NeverDisposed
      <4>3. QED
        BY <1>1, <4>1, <4>2
    <3>4. QED
      BY <1>4, <3>1, <3>2, <3>3
  <2>2. QED
    BY <1>1, <2>1 DEF UsableInv, NeverDisposed
<1>5. QED
  BY <1>2, <1>3, <1>4
     DEF Call, Step, Get, FlowDependency, Release, Reload, Load, Link, PreResolve, StoreValue,
         FactoryGet, FactoryFail, FactoryDone, UpdateCancelled, Lasting, Uncut

(* Bare frames hold no run. *)
LEMMA BareIsOpen == OpenTop \in SUBSET PlainFrames /\ Bare \subseteq OpenTop
BY DEF OpenTop, Bare

LEMMA MoveKeepsOpen ==
    ASSUME Lasting, UsableInv, NEW p \in Procs, Moves(p)
    PROVE  stack' \in [Procs -> Stacks(PlainFrames, OpenTop')] /\ CacheOpen'
<1>1. /\ UNCHANGED <<cache, runs, job>>
      /\ stack' \in [Procs -> Stacks(PlainFrames, OpenTop)]
  BY BareIsOpen, MoveHeld DEF Lasting, UsableInv, AloneInv
<1>2. OpenTop' = OpenTop /\ \A x : Affected(x)' <=> Affected(x)
  BY <1>1 DEF OpenTop, Open, Opened, Affected
<1>3. CacheOpen'
  BY <1>1, <1>2 DEF UsableInv, CacheOpen, Open, Opened
<1>4. QED
  BY <1>1, <1>2, <1>3

LEMMA FactoryKeepsOpen ==
    ASSUME Lasting, UsableInv, NEW p \in Procs, FactoryDone(p)
    PROVE  stack' \in [Procs -> Stacks(PlainFrames, OpenTop')] /\ CacheOpen'
<1>1. PICK v \in Values, e \in Execs :
          /\ stack[p] # <<>> /\ Top(p).at = "gets" /\ Top(p).exec = e /\ UNCHANGED <<cache, job>>
          /\ Return(p, v)
          /\ \/ v.run = 0 /\ UNCHANGED <<runs, registry>>
             \/ /\ Len(runs) \in Nat /\ v.run = Len(runs) + 1 /\ Len(runs') = v.run
                /\ \A r \in 1..Len(runs) : runs'[r] = runs[r]
                /\ runs'[v.run] = [exec |-> e, closed |-> 0]
  BY FactoryEnds DEF UsableInv, AloneInv
<1>2. \A r, x : (Opened(r, x) => Opened(r, x)') /\ (Open(r, x) => Open(r, x)')
  BY <1>1 DEF Open, Opened
<1>3. v.run # 0 => Open(v.run, e)'
  <2>1. v.run \in Nat
    BY DEF Values
  <2>2. QED
    BY <1>1, <2>1 DEF Open, Opened
<1>4. OpenTop \subseteq OpenTop'
  BY <1>2 DEF OpenTop
<1>5. ASSUME NEW h \in PlainFrames \intersect Frames, Awaits(h, Top(p))
      PROVE  [h EXCEPT !.got = v] \in OpenTop'
  <2>1. h.at = "store" => h.exec = e
    BY <1>1, <1>5 DEF Awaits, Maker, Lasting, Uncut
  <2> DEFINE k == [h EXCEPT !.got = v]
  <2>2. k \in PlainFrames /\ k.at = h.at /\ k.exec = h.exec /\ k.got = v
    BY DEF PlainFrames, Frames
  <2> HIDE DEF k
  <2>3. k \in OpenTop'
    BY <1>3, <2>1, <2>2 DEF OpenTop
  <2>4. QED
    BY <2>3 DEF k
<1>6. stack' \in [Procs -> Stacks(PlainFrames, OpenTop')]
  BY <1>1, <1>4, <1>5, ReturnHeld DEF UsableInv
<1>7. \A x : Affected(x)' <=> Affected(x)
  BY <1>1 DEF Affected
<1>8. CacheOpen'
  BY <1>1, <1>2, <1>7 DEF UsableInv, CacheOpen
<1>9. QED
  BY <1>6, <1>8

LEMMA StoreKeepsOpen ==
    ASSUME Lasting, UsableInv, NEW p \in Procs, StoreValue(p)
    PROVE  stack' \in [Procs -> Stacks(PlainFrames, OpenTop')] /\ CacheOpen'
<1>1. /\ stack[p] # <<>> /\ Top(p).at = "store" /\ Top(p) \in OpenTop /\ Top(p).exec \in Execs
      /\ UNCHANGED <<runs, job>>
      /\ stack' \in [Procs -> Stacks(PlainFrames, OpenTop)]
      /\ \/ UNCHANGED cache
         \/ cache' = [cache EXCEPT ![Top(p).exec] = Top(p).got]
  BY BareIsOpen, ResolveEnds DEF Lasting, UsableInv, AloneInv
<1>2. OpenTop' = OpenTop /\ \A x : Affected(x)' <=> Affected(x)
  BY <1>1 DEF OpenTop, Open, Opened, Affected
<1>3. Top(p).got.run # 0 => Open(Top(p).got.run, Top(p).exec)
  BY <1>1 DEF OpenTop
<1>4. \A r, x : (Opened(r, x)' <=> Opened(r, x)) /\ (Open(r, x)' <=> Open(r, x))
  BY <1>1 DEF Open, Opened
<1>5. cache \in [Execs -> Values]
  BY DEF UsableInv, AloneInv, IInv, Shape
<1>6. ASSUME NEW x \in Execs, cache'[x].run # 0
      PROVE  Opened(cache'[x].run, x) /\ (~Affected(x) => Open(cache'[x].run, x))
  <2>1. CASE cache'[x] = cache[x]
    BY <1>6, <2>1 DEF UsableInv, CacheOpen
  <2>2. CASE x = Top(p).exec /\ cache'[x] = Top(p).got
    BY <1>3, <1>6, <2>2 DEF Open
  <2>3. QED
    BY <1>1, <1>5, <2>1, <2>2
<1>7. CacheOpen'
  BY <1>2, <1>4, <1>6 DEF CacheOpen
<1>8. QED
  BY <1>1, <1>2, <1>7

LEMMA CallKeepsOpen ==
    ASSUME Lasting, UsableInv, NEW p \in Procs, Call(p)
    PROVE  stack' \in [Procs -> Stacks(PlainFrames, OpenTop')] /\ CacheOpen'
<1>1. /\ \A x : ~Affected(x)
      /\ UNCHANGED runs
      /\ stack' \in [Procs -> Stacks(PlainFrames, OpenTop)]
      /\ \A x \in Execs : cache'[x] = cache[x] \/ cache'[x].run = 0
  BY BareIsOpen, CallBegins DEF Lasting, UsableInv
<1>2. OpenTop' = OpenTop
  BY <1>1 DEF OpenTop, Open, Opened
<1>3. \A r, x : (Opened(r, x)' <=> Opened(r, x)) /\ (Open(r, x)' <=> Open(r, x))
  BY <1>1 DEF Open, Opened
<1>4. CacheOpen'
  BY <1>1, <1>3 DEF UsableInv, CacheOpen, Open
<1>5. QED
  BY <1>1, <1>2, <1>4

(* A cleanup closes a run of the executor itself, which is affected.       *)
LEMMA UpdateKeepsOpen ==
    ASSUME Lasting, UsableInv, NEW p \in Procs, NEW e \in Execs,
           UpdateSelf(p, e) \/ UpdateDependent(p, e) \/ UpdateStore(p, e) \/ UpdateDelete(p, e)
    PROVE  stack' \in [Procs -> Stacks(PlainFrames, OpenTop')] /\ CacheOpen'
<1>1. /\ \A q \in Procs : stack[q] = <<>>
      /\ UNCHANGED stack
      /\ \A x \in Execs \ {e} : Affected(x) => Affected(x)'
      /\ \A x \in Execs \ {e} : cache'[x] = cache[x]
      /\ \/ Cleanup(e) /\ UNCHANGED cache /\ Affected(e)'
         \/ UNCHANGED runs /\ cache'[e].run = 0
  BY UpdateAffects DEF Lasting, UsableInv
<1>2. stack' \in [Procs -> Stacks(PlainFrames, OpenTop')]
  BY <1>1, NoFrames DEF UsableInv
<1>3. /\ Len(runs') = Len(runs)
      /\ \A r \in 1..Len(runs) :
            /\ runs'[r].exec = runs[r].exec
            /\ runs[r].exec # e => runs'[r].closed = runs[r].closed
  <2>1. CASE UNCHANGED runs
    BY <2>1
  <2>2. CASE Cleanup(e) /\ runs' # runs
    <3>1. registry[e] \in 1..Len(runs) /\ runs[registry[e]].exec = e /\ Close(registry[e])
      BY <2>2, RunFields DEF Cleanup, UsableInv, CleanInv, RegistryOwns, IInv
    <3>2. QED
      BY <3>1, OneClosed DEF UsableInv, AloneInv, IInv
  <2>3. QED
    BY <1>1, <2>1, <2>2
<1>4. CacheOpen'
  <2>1. ASSUME NEW x \in Execs, x # e, cache'[x].run # 0
        PROVE  (Opened(cache[x].run, x) /\ (~Affected(x) => Open(cache[x].run, x)))'
    <3>1. PICK r : r = cache[x].run /\ r = cache'[x].run
      BY <1>1, <2>1
    <3>2. Opened(r, x) /\ (~Affected(x) => Open(r, x))
      BY <2>1, <3>1 DEF UsableInv, CacheOpen
    <3>3. Opened(r, x)' /\ (~Affected(x)' => Open(r, x)')
      BY <1>1, <1>3, <2>1, <3>2 DEF Open, Opened
    <3>4. QED
      BY <3>1, <3>3 DEF Open, Opened
  <2>2. ASSUME cache'[e].run # 0
        PROVE  (Opened(cache[e].run, e) /\ Affected(e))'
    <3>1. UNCHANGED cache /\ Affected(e)'
      BY <1>1, <2>2
    <3>2. PICK r : r = cache[e].run /\ r = cache'[e].run
      BY <3>1
    <3>3. Opened(r, e)
      BY <2>2, <3>2 DEF UsableInv, CacheOpen
    <3>4. Opened(r, e)'
      BY <1>3, <3>3 DEF Opened
    <3>5. QED
      BY <3>1, <3>2, <3>4 DEF Opened
  <2>3. QED
    BY <2>1, <2>2 DEF CacheOpen
<1>5. QED
  BY <1>2, <1>4

LEMMA UsableStart == Init => UsableInv
<1> SUFFICES ASSUME Init PROVE UsableInv
  OBVIOUS
<1>1. Held(PlainFrames, OpenTop)
  BY DEF Init, Held, Stacks
<1>2. CacheOpen /\ NeverDisposed
  BY DEF Init, CacheOpen, NeverDisposed, NoValue, Value, NoJob
<1>3. QED
  BY <1>1, <1>2, CleanStart, AloneStart DEF UsableInv

LEMMA UsableStep == Lasting /\ UsableInv /\ [Next]_vars => UsableInv'
<1> SUFFICES ASSUME Lasting, UsableInv, [Next]_vars PROVE UsableInv'
  OBVIOUS
<1>1. CleanInv' /\ AloneInv'
  BY CleanStep, AloneStep DEF UsableInv, Lasting, Uncut
<1> DEFINE Rest == stack' \in [Procs -> Stacks(PlainFrames, OpenTop')] /\ CacheOpen'
<1>2. CASE UNCHANGED vars
  <2>1. OpenTop' = OpenTop /\ \A x : Affected(x)' <=> Affected(x)
    BY <1>2 DEF vars, OpenTop, Open, Opened, Affected
  <2>2. Held(PlainFrames, OpenTop)' /\ CacheOpen' /\ NeverDisposed'
    BY <1>2, <2>1 DEF vars, UsableInv, Held, CacheOpen, Open, Opened, NeverDisposed
  <2>3. QED
    BY <1>1, <2>2 DEF UsableInv
<1>3. ASSUME NEW p \in Procs, Call(p) PROVE Rest
  BY <1>3, CallKeepsOpen
<1>4. ASSUME NEW p \in Procs, Step(p) PROVE Rest
  <2>1. ~UpdateCancelled(p) /\ \A r : ~DisposeRun(p, r)
    BY DEF UpdateCancelled, DisposeRun, Lasting, Uncut, UsableInv, NeverDisposed
  <2>2. QED
    BY <1>4, <2>1, MoveKeepsOpen, FactoryKeepsOpen, StoreKeepsOpen, UpdateKeepsOpen DEF Step, Moves
<1>5. ASSUME NEW p \in Procs, Call(p) \/ Step(p) PROVE UsableInv'
  BY <1>1, <1>3, <1>4, <1>5, StaysUndisposed DEF UsableInv, Held
<1>6. QED
  BY <1>2, <1>5 DEF Next, AllReturned

(* When updates are apart and run to their end and nobody disposes, no     *)
(* cached value stands on a resource whose cleanup has run, once all calls *)
(* have returned (scope.go 239-264).                                       *)
THEOREM UsableKept == ASSUME Lasting PROVE Spec => []UsableWhenQuiet
<1>1. UsableInv => UsableWhenQuiet
  <2> SUFFICES ASSUME UsableInv, Quiet PROVE UsableWhenQuiet
    BY DEF UsableWhenQuiet
  <2>1. \A x : ~Affected(x)
    BY DEF Quiet, Idle, Affected, NoJob
  <2>2. QED
    BY <2>1 DEF UsableInv, CacheOpen, Open, UsableWhenQuiet
<1>2. QED
  BY <1>1, UsableStart, UsableStep, PTL DEF Spec

-----------------------------------------------------------------------------
(* What is registered.  The factory of an executor that nobody else runs   *)
(* registers what its own Resolve stores next; only then do the cache and  *)
(* the registry agree, so the invariant allows for a Resolve that is about *)
(* to store.  Of two goroutines that resolve at once the one that is       *)
(* slower to store may have been faster to register, hence one goroutine.  *)
Single == (\E p \in Procs : Procs = {p}) /\ ~Cancellable /\ DOMAIN Replacement = {}

RootTop ==
    { f \in PlainFrames :
        (f.at = "store" /\ f.exec \in Roots /\ f.got.kind # "error" /\ f.got.run # 0) =>
            f.got.run = registry[f.exec] }

(* A Resolve of e is about to store what is registered. *)
Storing(e) ==
    \E p \in Procs :
        /\ stack[p] # <<>> /\ Top(p).at = "store" /\ Top(p).exec = e
        /\ Top(p).got.kind # "error" /\ Top(p).got.run = registry[e]

Rooted(e) == registry[e] = cache[e].run \/ Affected(e)

CacheRooted == \A e \in Roots : cache[e].run # 0 => Rooted(e) \/ Storing(e)

RootInv == AloneInv /\ Held(PlainFrames, RootTop) /\ CacheRooted

LEMMA SingleIsUncut == Single => Uncut
BY DEF Single, Uncut, Apart

LEMMA RootsAreExecs == Roots \subseteq Execs
BY DEF Roots

(* The one goroutine, when it is not about to store. *)
LEMMA NotStoring ==
    ASSUME Single, NEW p \in Procs,
           \/ stack[p] = <<>>
           \/ Top(p).at # "store"
           \/ Top(p).got.kind = "error"
    PROVE  \A x : ~Storing(x)
BY DEF Single, Storing

LEMMA BareIsRooted == RootTop \in SUBSET PlainFrames /\ Bare \subseteq RootTop
BY DEF RootTop, Bare

LEMMA MoveKeepsRoots ==
    ASSUME Single, RootInv, NEW p \in Procs, Moves(p)
    PROVE  stack' \in [Procs -> Stacks(PlainFrames, RootTop')] /\ CacheRooted'
<1>1. /\ stack[p] # <<>> /\ Top(p).at # "store"
      /\ UNCHANGED <<cache, registry, job>>
      /\ stack' \in [Procs -> Stacks(PlainFrames, RootTop)]
  BY BareIsRooted, MoveHeld, SingleIsUncut DEF RootInv, AloneInv
<1>2. RootTop' = RootTop
  BY <1>1 DEF RootTop, Roots
<1>3. \A x \in Roots : cache[x].run # 0 => Rooted(x)
  BY <1>1, NotStoring DEF RootInv, CacheRooted
<1>4. CacheRooted'
  BY <1>1, <1>3 DEF CacheRooted, Rooted, Affected, Roots
<1>5. QED
  BY <1>1, <1>2, <1>4

(* The goroutine returns from the factory of a root into its own Resolve.  *)
LEMMA RootReturns ==
    ASSUME Uncut, NEW T, Held(PlainFrames, T), NEW p \in Procs, stack[p] # <<>>,
           Top(p).at = "gets", Top(p).exec \in Roots, NEW v \in Values, Return(p, v)
    PROVE  /\ stack'[p] # <<>>
           /\ Top(p)'.at = "store" /\ Top(p)'.exec = Top(p).exec /\ Top(p)'.got = v
<1> DEFINE s == stack[p]
           f == Last(Front(s))
           g == [f EXCEPT !.got = v]
<1>1. s \in Stacks(PlainFrames, T)
  BY DEF Held
<1>2. s \in Seq(Frames) /\ (Len(s) = 1 => Bottom(Top(p)))
  BY <1>1, TopOfStack DEF Top
<1>3. Len(s) # 1
  BY <1>2 DEF Bottom, Roots
<1>4. /\ Front(s) # <<>> /\ Front(s) \in Seq(Frames)
      /\ f \in Frames /\ Awaits(f, Top(p))
  BY <1>1, <1>2, <1>3, TopOfStack, FrontPlaces DEF Top
<1>5. f.exec \in Execs /\ f.at = "store" /\ f.exec = Top(p).exec
  <2>1. f.exec \in Execs
    BY <1>4 DEF Frames
  <2>2. Top(p).exec \notin ToSet(Eager[f.exec])
    BY <2>1 DEF Roots
  <2>3. QED
    BY <1>4, <2>1, <2>2 DEF Awaits, Maker, Uncut
<1>6. g \in Frames /\ g.at = "store" /\ g.exec = Top(p).exec /\ g.got = v
  BY <1>4, <1>5 DEF Frames
<1>7. Front(Front(s)) \in Seq(Frames)
  BY <1>4, FrontPlaces
<1>8. stack'[p] = Append(Front(Front(s)), g)
  BY <1>3 DEF Return, Held
<1> HIDE DEF g
<1>9. stack'[p] # <<>> /\ Last(stack'[p]) = g
  <2>1. Append(Front(Front(s)), g) \in Seq(Frames) /\ Append(Front(Front(s)), g) # <<>>
    BY <1>6, <1>7
  <2>2. Last(Append(Front(Front(s)), g)) = g
    BY <1>6, <1>7 DEF Last
  <2>3. QED
    BY <1>8, <2>1, <2>2
<1>10. QED
  BY <1>6, <1>9 DEF Top

LEMMA FactoryKeepsRoots ==
    ASSUME Single, RootInv, NEW p \in Procs, FactoryDone(p)
    PROVE  stack' \in [Procs -> Stacks(PlainFrames, RootTop')] /\ CacheRooted'
<1> DEFINE Others == { f \in PlainFrames : f.at # "store" }
<1>1. PICK v \in Values, e \in Execs :
          /\ stack[p] # <<>> /\ Top(p).at = "gets" /\ Top(p).exec = e /\ UNCHANGED <<cache, job>>
          /\ Return(p, v)
          /\ v.kind # "error"
          /\ \/ v.run = 0 /\ UNCHANGED registry
             \/ \A x \in Execs : registry'[x] = IF x = e THEN v.run ELSE registry[x]
  BY FactoryEnds DEF RootInv, AloneInv
<1>2. Held(PlainFrames, Others)
  <2>1. \A q \in Procs : q = p
    BY DEF Single
  <2>2. stack \in [Procs -> Stacks(PlainFrames, RootTop)]
    BY DEF RootInv, Held
  <2>3. stack[p] \in Seq(Frames) /\ Last(stack[p]) = stack[p][Len(stack[p])]
    BY DEF Stacks, Last, Held, RootInv
  <2>4. Last(stack[p]) \in Others
    BY <1>1, <2>2, TopOfStack, BareIsRooted DEF Top
  <2> HIDE DEF Others
  <2>5. stack[p] \in Stacks(PlainFrames, Others)
    BY <2>2, <2>3, <2>4 DEF Stacks
  <2>6. QED
    BY <2>1, <2>2, <2>5 DEF Held
<1>3. Others \subseteq RootTop'
  BY DEF RootTop
<1>4. ASSUME NEW h \in PlainFrames \intersect Frames, Awaits(h, Top(p))
      PROVE  [h EXCEPT !.got = v] \in RootTop'
  <2>1. h.at = "store" => h.exec = e
    BY <1>1, <1>4, SingleIsUncut DEF Awaits, Maker, Uncut
  <2> DEFINE k == [h EXCEPT !.got = v]
  <2>2. k \in PlainFrames /\ k.at = h.at /\ k.exec = h.exec /\ k.got = v
    BY DEF PlainFrames, Frames
  <2> HIDE DEF k
  <2>3. k \in RootTop'
    BY <1>1, <2>1, <2>2 DEF RootTop
  <2>4. QED
    BY <2>3 DEF k
<1> HIDE DEF Others
<1>5. stack' \in [Procs -> Stacks(PlainFrames, RootTop')]
  BY <1>1, <1>2, <1>3, <1>4, ReturnHeld
<1>6. ASSUME NEW x \in Roots, cache[x].run # 0 PROVE Rooted(x)' \/ Storing(x)'
  <2>1. Rooted(x)
    BY <1>1, <1>6, NotStoring DEF RootInv, CacheRooted
  <2>2. CASE registry'[x] = registry[x]
    BY <1>1, <2>1, <2>2 DEF Rooted, Affected
  <2>3. CASE x = e /\ registry'[x] = v.run
    <3>1. /\ stack'[p] # <<>>
          /\ Top(p)'.at = "store" /\ Top(p)'.exec = x /\ Top(p)'.got = v
      BY <1>1, <2>3, RootReturns, SingleIsUncut DEF RootInv
    <3>2. QED
      BY <1>1, <2>3, <3>1 DEF Storing
  <2>4. QED
    BY <1>1, <2>2, <2>3, RootsAreExecs
<1>7. CacheRooted'
  BY <1>1, <1>6 DEF CacheRooted, Roots
<1>8. QED
  BY <1>5, <1>7

LEMMA StoreKeepsRoots ==
    ASSUME Single, RootInv, NEW p \in Procs, StoreValue(p)
    PROVE  stack' \in [Procs -> Stacks(PlainFrames, RootTop')] /\ CacheRooted'
<1>1. /\ stack[p] # <<>> /\ Top(p).at = "store" /\ Top(p) \in RootTop /\ Top(p).exec \in Execs
      /\ UNCHANGED <<registry, job>>
      /\ stack' \in [Procs -> Stacks(PlainFrames, RootTop)]
      /\ \/ Top(p).got.kind = "error" /\ UNCHANGED cache
         \/ Top(p).got.kind # "error" /\ cache' = [cache EXCEPT ![Top(p).exec] = Top(p).got]
  BY BareIsRooted, ResolveEnds, SingleIsUncut DEF RootInv, AloneInv
<1>2. RootTop' = RootTop
  BY <1>1 DEF RootTop, Roots
<1>3. cache \in [Execs -> Values]
  BY DEF RootInv, AloneInv, IInv, Shape
<1>4. ASSUME NEW x \in Roots, cache'[x].run # 0 PROVE Rooted(x)'
  <2>1. CASE x = Top(p).exec /\ Top(p).got.kind # "error"
    <3>1. cache'[x] = Top(p).got
      BY <1>1, <1>3, <2>1
    <3>2. Top(p).got.run = registry[x]
      BY <1>1, <1>4, <2>1, <3>1 DEF RootTop
    <3>3. QED
      BY <1>1, <3>1, <3>2 DEF Rooted
  <2>2. CASE ~(x = Top(p).exec /\ Top(p).got.kind # "error")
    <3>1. cache'[x] = cache[x]
      BY <1>1, <1>3, <2>2, RootsAreExecs
    <3>2. ~Storing(x)
      BY <2>2 DEF Storing, Single
    <3>3. Rooted(x)
      BY <1>4, <3>1, <3>2 DEF RootInv, CacheRooted
    <3>4. QED
      BY <1>1, <3>1, <3>3 DEF Rooted, Affected
  <2>3. QED
    BY <2>1, <2>2
<1>5. CacheRooted'
  BY <1>4 DEF CacheRooted, Roots
<1>6. QED
  BY <1>1, <1>2, <1>5

LEMMA CallKeepsRoots ==
    ASSUME Single, RootInv, NEW p \in Procs, Call(p)
    PROVE  stack' \in [Procs -> Stacks(PlainFrames, RootTop')] /\ CacheRooted'
<1>1. /\ stack[p] = <<>>
      /\ \A x : ~Affected(x)
      /\ UNCHANGED registry
      /\ stack' \in [Procs -> Stacks(PlainFrames, RootTop)]
      /\ \A x \in Execs : cache'[x] = cache[x] \/ cache'[x].run = 0
  BY BareIsRooted, CallBegins, SingleIsUncut DEF RootInv
<1>2. RootTop' = RootTop
  BY <1>1 DEF RootTop, Roots
<1>3. \A x \in Roots : cache[x].run # 0 => registry[x] = cache[x].run
  BY <1>1, NotStoring DEF RootInv, CacheRooted, Rooted
<1>4. CacheRooted'
  BY <1>1, <1>3, RootsAreExecs DEF CacheRooted, Rooted, Roots
<1>5. QED
  BY <1>1, <1>2, <1>4

LEMMA UpdateKeepsRoots ==
    ASSUME Single, RootInv, NEW p \in Procs, NEW e \in Execs,
           UpdateSelf(p, e) \/ UpdateDependent(p, e) \/ UpdateStore(p, e) \/ UpdateDelete(p, e)
    PROVE  stack' \in [Procs -> Stacks(PlainFrames, RootTop')] /\ CacheRooted'
<1>1. /\ \A q \in Procs : stack[q] = <<>>
      /\ UNCHANGED stack
      /\ \A x \in Execs \ {e} : Affected(x) => Affected(x)'
      /\ \A x \in Execs \ {e} : cache'[x] = cache[x]
      /\ \/ Cleanup(e) /\ UNCHANGED cache /\ Affected(e)'
         \/ UNCHANGED registry /\ cache'[e].run = 0
  BY UpdateAffects, SingleIsUncut DEF RootInv
<1>2. stack' \in [Procs -> Stacks(PlainFrames, RootTop')]
  BY <1>1, NoFrames DEF RootInv
<1>3. \A x \in Execs \ {e} : registry'[x] = registry[x]
  BY <1>1 DEF Cleanup, RootInv, AloneInv, IInv, Shape
<1>4. ASSUME NEW x \in Roots, cache'[x].run # 0 PROVE Rooted(x)'
  <2>1. CASE x = e
    BY <1>1, <1>4, <2>1 DEF Rooted
  <2>2. CASE x # e
    <3>1. Rooted(x)
      BY <1>1, <1>4, <2>2, NotStoring, RootsAreExecs DEF RootInv, CacheRooted
    <3>2. QED
      BY <1>1, <1>3, <2>2, <3>1, RootsAreExecs DEF Rooted
  <2>3. QED
    BY <2>1, <2>2
<1>5. CacheRooted'
  BY <1>4 DEF CacheRooted, Roots
<1>6. QED
  BY <1>2, <1>5

(* A Dispose leaves the registry as it is. *)
LEMMA DisposeKeepsRoots ==
    ASSUME Single, RootInv, NEW p \in Procs, NEW r, DisposeRun(p, r)
    PROVE  stack' \in [Procs -> Stacks(PlainFrames, RootTop')] /\ CacheRooted'
<1>1. UNCHANGED <<cache, registry, stack>> /\ job[p].at = "dispose"
  BY DEF DisposeRun
<1>2. \A x : ~Affected(x)
  BY <1>1 DEF Affected, Single
<1>3. RootTop' = RootTop
  BY <1>1 DEF RootTop, Roots
<1>4. stack' \in [Procs -> Stacks(PlainFrames, RootTop')]
  BY <1>1, <1>3 DEF RootInv, Held
<1>5. \A x \in Roots : cache[x].run # 0 => registry[x] = cache[x].run \/ Storing(x)
  BY <1>2 DEF RootInv, CacheRooted, Rooted
<1>6. CacheRooted'
  BY <1>1, <1>5 DEF CacheRooted, Rooted, Storing, Roots, Top
<1>7. QED
  BY <1>4, <1>6

LEMMA RootStart == Init => RootInv
<1> SUFFICES ASSUME Init PROVE RootInv
  OBVIOUS
<1>1. Held(PlainFrames, RootTop)
  BY DEF Init, Held, Stacks
<1>2. CacheRooted
  BY RootsAreExecs DEF Init, CacheRooted, NoValue, Value
<1>3. QED
  BY <1>1, <1>2, AloneStart DEF RootInv

LEMMA RootStep == Single /\ RootInv /\ [Next]_vars => RootInv'
<1> SUFFICES ASSUME Single, RootInv, [Next]_vars PROVE RootInv'
  OBVIOUS
<1>1. AloneInv'
  BY AloneStep, SingleIsUncut DEF RootInv, Uncut
<1> DEFINE Rest == stack' \in [Procs -> Stacks(PlainFrames, RootTop')] /\ CacheRooted'
<1>2. CASE UNCHANGED vars
  <2>1. RootTop' = RootTop
    BY <1>2 DEF vars, RootTop, Roots
  <2>2. Held(PlainFrames, RootTop)' /\ CacheRooted'
    BY <1>2, <2>1 DEF vars, RootInv, Held, CacheRooted, Rooted, Affected, Storing, Roots, Top
  <2>3. QED
    BY <1>1, <2>2 DEF RootInv
<1>3. ASSUME NEW p \in Procs, Call(p) PROVE Rest
  BY <1>3, CallKeepsRoots
<1>4. ASSUME NEW p \in Procs, Step(p) PROVE Rest
  <2>1. ~UpdateCancelled(p)
    BY DEF UpdateCancelled, Single
  <2>2. QED
    BY <1>4, <2>1, MoveKeepsRoots, FactoryKeepsRoots, StoreKeepsRoots, UpdateKeepsRoots,
       DisposeKeepsRoots DEF Step, Moves
<1>5. ASSUME NEW p \in Procs, Call(p) \/ Step(p) PROVE RootInv'
  BY <1>1, <1>3, <1>4, <1>5 DEF RootInv, Held
<1>6. QED
  BY <1>2, <1>5 DEF Next, AllReturned

(* With one goroutine, the resource of a cached value is the one that its  *)
(* executor has registered once all calls have returned, whatever is       *)
(* updated, released or disposed, unless others run its factory as a       *)
(* dependency (scope.go 205, 306).                                         *)
THEOREM RootsKept == ASSUME Single PROVE Spec => []RootsRegistered
<1>1. RootInv => RootsRegistered
  <2> SUFFICES ASSUME RootInv, Quiet PROVE RootsRegistered
    BY DEF RootsRegistered
  <2>1. \A x : ~Affected(x) /\ ~Storing(x)
    BY DEF Quiet, Idle, Affected, NoJob, Storing
  <2>2. QED
    BY <2>1 DEF RootInv, CacheRooted, Rooted, RootsRegistered
<1>2. QED
  BY <1>1, RootStart, RootStep, PTL DEF Spec
=============================================================================
