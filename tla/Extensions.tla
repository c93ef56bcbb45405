----------------------------- MODULE Extensions ------------------------------
(***************************************************************************)
(* The extensions of a scope: scope.go UseExtension, and the calls that    *)
(* run hooks (Resolve and Update, Exec, Dispose).                          *)
(*                                                                         *)
(* s.extensions is a Go slice: an array and a length.  UseExtension        *)
(* appends to it, in the same array while there is room, and sorts it in   *)
(* place, with s.mu locked.  Exec and Dispose copy the elements with s.mu  *)
(* read-locked.  Resolve and Update only take the slice then, and read its *)
(* elements later, one after the other, without a lock.                    *)
(***************************************************************************)
EXTENDS Integers, Sequences, SequencesExt

CONSTANTS
    Exts,      \* extensions
    Order,     \* Order[e]: what e.Order() returns
    Procs,     \* goroutines, each of which makes one call
    MaxFirst,  \* how many extensions NewScope may be given, up to twelve
    NoProc, NoExt,
    Torn       \* an interface value that is half one extension, half another

ASSUME ExtensionsAssumption ==
    /\ Order \in [Exts -> Nat]
    /\ MaxFirst \in 0..12
    /\ NoProc \notin Procs
    /\ {NoExt, Torn} \intersect Exts = {}

VARIABLES
    arrays,      \* the arrays there have been; the last one is in use
    length,      \* the length of s.extensions
    mu,          \* who has s.mu locked for writing
    cursor,      \* where the sort is in the last array
    registered,  \* the extensions UseExtension has appended
    initialized, \* those whose Init has been called
    at,          \* at[p]: what p does next
    ext,         \* ext[p]: the extension p registers
    slice,       \* slice[p]: the slice p has taken, an array and a length
    seen,        \* seen[p]: those p has wrapped the operation in, or whose
                 \* OnFlowStart or Dispose it has called
    ended,       \* ended[p]: those whose OnFlowEnd, or OnError, p has called
    copy,        \* copy[p]: the elements of the slice when p took it, which
                 \* only Exec and Dispose keep
    before,      \* before[p]: the extensions that were initialized then
    moved        \* the goroutines that sort has moved elements under since

vars == <<arrays, length, mu, cursor, registered, initialized, at, ext, slice,
          seen, ended, copy, before, moved>>

-----------------------------------------------------------------------------
Array == arrays[Len(arrays)]
Elements == SubSeq(Array, 1, length)

(* append: 0, 1, 2, 4, 8, ... places.  An empty place is NoExt.            *)
Grown(array) ==
    IF array = <<>> THEN <<NoExt>>
    ELSE array \o [i \in DOMAIN array |-> NoExt]

HasRoom == length < Len(Array)

Sorted(q) == \A i, j \in 1..Len(q) : i < j => Order[q[i]] <= Order[q[j]]

(* NewScope with WithExtension options, one after the other. *)
Init ==
    /\ \E n \in 0..MaxFirst :
          \E q \in [1..n -> Exts] :
             /\ IsInjective(q)
             /\ Sorted(q)
             /\ length = n
             /\ registered = ToSet(q)
             /\ LET size == CHOOSE k \in {0, 1, 2, 4, 8, 16} :
                        k >= n /\ \A j \in {0, 1, 2, 4, 8, 16} : j >= n => k <= j
                IN arrays = <<[ i \in 1..size |-> IF i <= n THEN q[i] ELSE NoExt ]>>
    /\ mu = NoProc
    /\ cursor = 0
    /\ initialized = registered
    /\ at = [p \in Procs |-> "idle"]
    /\ ext = [p \in Procs |-> NoExt]
    /\ slice = [p \in Procs |-> [array |-> 0, length |-> 0]]
    /\ seen = [p \in Procs |-> <<>>]
    /\ ended = [p \in Procs |-> <<>>]
    /\ copy = [p \in Procs |-> <<>>]
    /\ before = [p \in Procs |-> {}]
    /\ moved = {}

Go(p, to) == at' = [at EXCEPT ![p] = to]

-----------------------------------------------------------------------------
(* UseExtension: append *)
Use(p) ==
    /\ at[p] = "idle"
    /\ mu = NoProc
    /\ \E e \in Exts \ registered :
          /\ ext' = [ext EXCEPT ![p] = e]
          /\ registered' = registered \union {e}
          /\ arrays' = IF HasRoom
                       THEN [arrays EXCEPT ![Len(arrays)][length + 1] = e]
                       ELSE Append(arrays,
                                [Grown(Array) EXCEPT ![length + 1] = e])
    /\ length' = length + 1
    /\ cursor' = length + 1
    /\ mu' = p
    /\ moved' = IF HasRoom THEN moved \union
                    { q \in Procs : at[q] \in {"read", "notify"}
                                    /\ slice[q].array = Len(arrays) }
                ELSE moved
    /\ Go(p, "sort")
    /\ UNCHANGED <<initialized, slice, seen, ended, copy, before>>

(* sort.Slice: an insertion sort, for up to twelve, that has only the last *)
(* one to insert.  A swap is two writes.                                   *)
OutOfOrder == cursor > 1 /\ Order[Array[cursor]] < Order[Array[cursor - 1]]

SwapLeft(p) ==
    /\ at[p] = "sort"
    /\ OutOfOrder
    /\ arrays' = [arrays EXCEPT ![Len(arrays)][cursor] = Array[cursor - 1]]
    /\ Go(p, "swap")
    /\ UNCHANGED <<length, mu, cursor, registered, initialized, ext, slice,
                   seen, ended, copy, before, moved>>

SwapRight(p) ==
    /\ at[p] = "swap"
    /\ arrays' = [arrays EXCEPT ![Len(arrays)][cursor - 1] = ext[p]]
    /\ cursor' = cursor - 1
    /\ Go(p, "sort")
    /\ UNCHANGED <<length, mu, registered, initialized, ext, slice, seen,
                   ended, copy, before, moved>>

Unlock(p) ==
    /\ at[p] = "sort"
    /\ ~OutOfOrder
    /\ mu' = NoProc
    /\ cursor' = 0
    /\ Go(p, "init")
    /\ UNCHANGED <<arrays, length, registered, initialized, ext, slice, seen,
                   ended, copy, before, moved>>

(* Init is called last; should it fail, the extension stays registered.    *)
InitExtension(p) ==
    /\ at[p] = "init"
    /\ initialized' = initialized \union {ext[p]}
    /\ Go(p, "done")
    /\ UNCHANGED <<arrays, length, mu, cursor, registered, ext, slice, seen,
                   ended, copy, before, moved>>

-----------------------------------------------------------------------------
(* A bug: the slice is taken without s.mu. *)
ReadLockForgotten == TRUE

ReadLock == mu = NoProc

TakeSlice(p) ==
    /\ at[p] = "idle"
    /\ ReadLock
    /\ slice' = [slice EXCEPT ![p] = [array |-> Len(arrays), length |-> length]]
    /\ copy' = [copy EXCEPT ![p] = Elements]
    /\ before' = [before EXCEPT ![p] = initialized]
    /\ UNCHANGED <<arrays, length, mu, cursor, registered, initialized, ext,
                   seen, ended, moved>>

(* What reading place k of the slice p has taken may give: nothing keeps   *)
(* the sort from swapping it meanwhile, and an element is two words.       *)
Reads(p, k) ==
    {arrays[slice[p].array][k]} \union
        IF /\ slice[p].array = Len(arrays)
           /\ \E q \in Procs : at[q] = "swap"
           /\ k \in {cursor - 1, cursor}
        THEN {Torn} ELSE {}

(* Resolve and Update: take the slice, ...                                 *)
Take(p) == TakeSlice(p) /\ Go(p, "read")

(* ... read it from its end, and wrap each around those read before, ...   *)
ReadOne(p) ==
    /\ at[p] = "read"
    /\ LET k == slice[p].length - Len(seen[p])
       IN \/ /\ k > 0
             /\ \E e \in Reads(p, k) : seen' = [seen EXCEPT ![p] = Append(@, e)]
             /\ UNCHANGED at
          \/ /\ k = 0
             /\ Go(p, "wrapped") \/ Go(p, "notify")
             /\ UNCHANGED seen
    /\ UNCHANGED <<arrays, length, mu, cursor, registered, initialized, ext,
                   slice, ended, copy, before, moved>>

(* ... and, when Resolve fails, read it again for OnError.                 *)
Notify(p) ==
    /\ at[p] = "notify"
    /\ LET k == Len(ended[p]) + 1
       IN \/ /\ k <= slice[p].length
             /\ \E e \in Reads(p, k) : ended' = [ended EXCEPT ![p] = Append(@, e)]
             /\ UNCHANGED at
          \/ /\ k > slice[p].length
             /\ Go(p, "notified")
             /\ UNCHANGED ended
    /\ UNCHANGED <<arrays, length, mu, cursor, registered, initialized, ext,
                   slice, seen, copy, before, moved>>

(* Exec and Dispose: copy the elements. *)
Copy(p) == TakeSlice(p) /\ (Go(p, "start") \/ Go(p, "dispose"))

(* A bug: the slice is taken, not its elements. *)
CopiedLate(p) == SubSeq(arrays[slice[p].array], 1, slice[p].length)

Copied(p) == copy[p]

(* OnFlowStart of each; the first error ends Exec, as does a context that  *)
(* is cancelled by then, and nobody's OnFlowEnd is called.                 *)
FlowStart(p) ==
    /\ at[p] = "start"
    /\ LET k == Len(seen[p]) + 1
       IN \/ /\ k <= Len(Copied(p))
             /\ seen' = [seen EXCEPT ![p] = Append(@, Copied(p)[k])]
             /\ UNCHANGED at
          \/ /\ k <= Len(Copied(p))
             /\ Go(p, "failed") /\ UNCHANGED seen
          \/ /\ k > Len(Copied(p))
             /\ Go(p, "end") \/ Go(p, "failed")
             /\ UNCHANGED seen
    /\ UNCHANGED <<arrays, length, mu, cursor, registered, initialized, ext,
                   slice, ended, copy, before, moved>>

(* OnFlowEnd of each, from the last, whatever they return. *)
FlowEnd(p) ==
    /\ at[p] = "end"
    /\ LET k == Len(Copied(p)) - Len(ended[p])
       IN IF k > 0
          THEN /\ ended' = [ended EXCEPT ![p] = Append(@, Copied(p)[k])]
               /\ UNCHANGED at
          ELSE Go(p, "flowed") /\ UNCHANGED ended
    /\ UNCHANGED <<arrays, length, mu, cursor, registered, initialized, ext,
                   slice, seen, copy, before, moved>>

(* Dispose of each; the first error ends it. *)
DisposeOne(p) ==
    /\ at[p] = "dispose"
    /\ LET k == Len(seen[p]) + 1
       IN IF k <= Len(Copied(p))
          THEN /\ seen' = [seen EXCEPT ![p] = Append(@, Copied(p)[k])]
               /\ UNCHANGED at \/ Go(p, "failed")
          ELSE Go(p, "disposed") /\ UNCHANGED seen
    /\ UNCHANGED <<arrays, length, mu, cursor, registered, initialized, ext,
                   slice, ended, copy, before, moved>>

Next == \E p \in Procs :
    \/ Use(p) \/ SwapLeft(p) \/ SwapRight(p) \/ Unlock(p) \/ InitExtension(p)
    \/ Take(p) \/ ReadOne(p) \/ Notify(p)
    \/ Copy(p) \/ FlowStart(p) \/ FlowEnd(p) \/ DisposeOne(p)

Spec == Init /\ [][Next]_vars

-----------------------------------------------------------------------------
Complete(p, q) == Sorted(q) /\ IsInjective(q) /\ before[p] \subseteq ToSet(q)

(* scope.go Exec and Dispose: whatever is registered meanwhile, a flow     *)
(* runs the hooks of every extension whose registration had returned, in   *)
(* order and once each, and ends them in reverse; so does Dispose, as long *)
(* as no extension fails.                                                  *)
HooksPaired == \A p \in Procs :
    /\ at[p] \in {"flowed", "disposed"} => Complete(p, seen[p])
    /\ at[p] = "flowed" => ended[p] = Reverse(seen[p])

(* scope.go Resolve and Update: they wrap the operation in every extension *)
(* whose registration had returned, in order and once each, and Resolve    *)
(* tells the same ones of an error, unless one is registered while they    *)
(* read and its place is in the array they read.                           *)
ReadsWhole == \A p \in Procs \ moved :
    /\ at[p] \in {"wrapped", "notify"} => Complete(p, Reverse(seen[p]))
    /\ at[p] = "notified" => ended[p] = Reverse(seen[p])
=============================================================================
