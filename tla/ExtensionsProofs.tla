-------------------------- MODULE ExtensionsProofs --------------------------
(***************************************************************************)
(* For any extensions, orders and goroutines: Exec and Dispose call the    *)
(* hooks of whole, sorted slices, in pairs, and so do Resolve and Update   *)
(* unless the array they read is written to meanwhile.                     *)
(***************************************************************************)
EXTENDS Extensions, TLAPS

-----------------------------------------------------------------------------
(* The first n places of array hold what is registered, once each; they    *)
(* are sorted but for place c, which may belong further to the left.       *)
InPlace(array, n, c) ==
    /\ \A i \in 1..n : array[i] \in registered
    /\ \A x \in registered : \E i \in 1..n : array[i] = x
    /\ \A i, j \in 1..n : array[i] = array[j] => i = j
    /\ \A i, j \in 1..n : i < j /\ j # c => Order[array[i]] <= Order[array[j]]

Phases == {"idle", "sort", "swap", "init", "done", "read", "wrapped", "notify", "notified",
           "start", "end", "flowed", "failed", "dispose", "disposed"}

Places == Seq(Exts \union {NoExt})
Read == Exts \union {NoExt, Torn}

Typed ==
    /\ arrays \in Seq(Places) /\ Len(arrays) >= 1
    /\ length \in Nat /\ length <= Len(Array)
    /\ cursor \in Nat
    /\ registered \subseteq Exts /\ initialized \subseteq registered
    /\ mu \in Procs \union {NoProc}
    /\ at \in [Procs -> Phases]
    /\ ext \in [Procs -> Exts \union {NoExt}]
    /\ slice \in [Procs -> [array : Nat, length : Nat]]
    /\ seen \in [Procs -> Seq(Read)] /\ ended \in [Procs -> Seq(Read)]
    /\ copy \in [Procs -> Places]
    /\ before \in [Procs -> SUBSET Exts]
    /\ moved \subseteq Procs

(* Who holds s.mu sorts.  Half way through a swap the array is the one     *)
(* that it will be once the swap is complete.                              *)
Sorting ==
    /\ mu = NoProc => cursor = 0 /\ InPlace(Array, length, 0)
    /\ \A p \in Procs : at[p] \in {"sort", "swap"} => mu = p
    /\ \A p \in Procs : at[p] \in {"sort", "swap", "init"} => ext[p] \in registered
    /\ \A p \in Procs : mu = p => at[p] \in {"sort", "swap"} /\ cursor \in 1..length
    /\ \A p \in Procs : at[p] = "sort" =>
           Array[cursor] = ext[p] /\ InPlace(Array, length, cursor)
    /\ \A p \in Procs : at[p] = "swap" =>
           /\ cursor > 1
           /\ InPlace([Array EXCEPT ![cursor - 1] = ext[p]], length, cursor - 1)

(* A slice is read as it was when it was taken: nobody sorts its array,    *)
(* unless the reader is one that elements are moved under.                 *)
Slices ==
    \A p \in Procs : at[p] \in {"read", "notify"} =>
        /\ slice[p].array \in 1..Len(arrays)
        /\ slice[p].length <= Len(arrays[slice[p].array])
        /\ p \notin moved =>
               /\ slice[p].array = Len(arrays) => mu = NoProc
               /\ Len(copy[p]) = slice[p].length
               /\ \A k \in 1..slice[p].length : copy[p][k] = arrays[slice[p].array][k]

FrontOf(s, q) == Len(s) <= Len(q) /\ \A j \in 1..Len(s) : s[j] = q[j]

BackOf(s, q) == Len(s) <= Len(q) /\ \A j \in 1..Len(s) : s[j] = q[Len(q) + 1 - j]

(* What has been read and called so far, of what there was when the slice  *)
(* was taken.                                                              *)
Reader(p) ==
    /\ Complete(p, copy[p])
    /\ BackOf(seen[p], copy[p])
    /\ at[p] # "read" => Len(seen[p]) = Len(copy[p]) /\ FrontOf(ended[p], copy[p])
    /\ at[p] = "notified" => Len(ended[p]) = Len(copy[p])

Copier(p) ==
    /\ Complete(p, copy[p])
    /\ FrontOf(seen[p], copy[p])
    /\ at[p] \in {"end", "flowed", "disposed"} => Len(seen[p]) = Len(copy[p])
    /\ at[p] \in {"end", "flowed"} => BackOf(ended[p], copy[p])
    /\ at[p] = "flowed" => Len(ended[p]) = Len(copy[p])

Local(p) ==
    /\ at[p] = "idle" => seen[p] = <<>>
    /\ at[p] \in {"idle", "read", "start"} => ended[p] = <<>>
    /\ at[p] \in {"read", "wrapped", "notify", "notified"} /\ p \notin moved => Reader(p)
    /\ at[p] \in {"start", "end", "flowed", "dispose", "disposed"} => Copier(p)

HookInv == Typed /\ Sorting /\ Slices /\ \A p \in Procs : Local(p)

-----------------------------------------------------------------------------
LEMMA SeqExcept ==
    ASSUME NEW S, NEW q \in Seq(S), NEW i \in DOMAIN q, NEW e \in S
    PROVE  [q EXCEPT ![i] = e] \in Seq(S) /\ Len([q EXCEPT ![i] = e]) = Len(q)
OBVIOUS

LEMMA LastArray ==
    ASSUME Typed
    PROVE  /\ Array \in Places /\ Len(arrays) \in Nat \ {0} /\ Len(arrays) \in DOMAIN arrays
           /\ DOMAIN Array = 1..Len(Array) /\ Len(Array) \in Nat
           /\ \A a \in 1..Len(arrays) : arrays[a] \in Places /\ Len(arrays[a]) \in Nat
<1>1. Len(arrays) \in Nat /\ DOMAIN arrays = 1..Len(arrays) /\ Len(arrays) >= 1
  BY DEF Typed
<1>2. \A a \in 1..Len(arrays) : arrays[a] \in Places /\ Len(arrays[a]) \in Nat
  BY <1>1 DEF Typed, Places
<1>3. Len(arrays) \in 1..Len(arrays)
  BY <1>1
<1>4. Array \in Places
  BY <1>2, <1>3 DEF Array
<1>5. QED
  BY <1>1, <1>2, <1>3, <1>4 DEF Places

(* A place of the last array is written. *)
LEMMA WriteLast ==
    ASSUME Typed, NEW i \in DOMAIN Array, NEW e \in Exts \union {NoExt},
           arrays' = [arrays EXCEPT ![Len(arrays)][i] = e]
    PROVE  /\ arrays' \in Seq(Places) /\ Len(arrays') = Len(arrays)
           /\ Array' = [Array EXCEPT ![i] = e] /\ Len(Array') = Len(Array)
           /\ \A a \in 1..Len(arrays) : Len(arrays'[a]) = Len(arrays[a])
           /\ \A a \in 1..Len(arrays) : a # Len(arrays) => arrays'[a] = arrays[a]
<1> DEFINE n == Len(arrays)
           b == [Array EXCEPT ![i] = e]
<1>1. /\ arrays \in Seq(Places) /\ n \in Nat /\ n \in DOMAIN arrays /\ Array \in Places
      /\ DOMAIN arrays = 1..n
  BY LastArray DEF Typed
<1>2. arrays' = [arrays EXCEPT ![n] = b]
  BY DEF Array
<1>3. b \in Places /\ Len(b) = Len(Array) /\ DOMAIN b = DOMAIN Array
  BY <1>1 DEF Places
<1> HIDE DEF b
<1>4. /\ arrays' \in Seq(Places) /\ Len(arrays') = n /\ arrays'[n] = b
      /\ \A a \in 1..n : a # n => arrays'[a] = arrays[a]
  <2>1. [arrays EXCEPT ![n] = b] \in Seq(Places) /\ Len([arrays EXCEPT ![n] = b]) = n
    BY <1>1, <1>3, SeqExcept
  <2>2. arrays'[n] = b
    BY <1>1, <1>2
  <2>3. \A a \in 1..n : a # n => arrays'[a] = arrays[a]
    BY <1>1, <1>2
  <2>4. QED
    BY <1>2, <2>1, <2>2, <2>3
<1>5. Array' = b
  BY <1>4 DEF Array
<1>6. \A a \in 1..n : Len(arrays'[a]) = Len(arrays[a])
  BY <1>3, <1>4 DEF Array
<1>7. QED
  BY <1>3, <1>4, <1>5, <1>6 DEF b

(* append, when there is no room. *)
LEMMA GrownArray ==
    ASSUME NEW q \in Places
    PROVE  /\ Grown(q) \in Places /\ Len(Grown(q)) > Len(q)
           /\ \A i \in 1..Len(q) : Grown(q)[i] = q[i]
<1>1. CASE q = <<>>
  BY <1>1 DEF Grown, Places
<1>2. CASE q # <<>>
  <2> DEFINE r == [i \in DOMAIN q |-> NoExt]
  <2>1. Len(q) \in Nat /\ Len(q) > 0 /\ DOMAIN q = 1..Len(q)
    BY <1>2 DEF Places
  <2>2. r \in Places /\ Len(r) = Len(q)
    BY <2>1 DEF Places
  <2>3. Grown(q) = q \o r
    BY <1>2 DEF Grown
  <2> HIDE DEF r
  <2>4. QED
    BY <2>1, <2>2, <2>3 DEF Places
<1>3. QED
  BY <1>1, <1>2

-----------------------------------------------------------------------------
(* A goroutine whose own history is left alone promises what it did. *)
LEMMA LocalKept ==
    ASSUME NEW p \in Procs, Local(p), at'[p] = at[p],
           seen'[p] = seen[p], ended'[p] = ended[p], copy'[p] = copy[p], before'[p] = before[p],
           moved \subseteq moved'
    PROVE  Local(p)'
BY DEF Local, Reader, Copier, Complete, Sorted, FrontOf, BackOf

LEMMA Silent ==
    ASSUME NEW p, at'[p] \in {"sort", "swap", "init", "done", "failed"} PROVE Local(p)'
BY DEF Local

(* UseExtension leaves the histories of all others alone. *)
LEMMA UseKeepsLocal ==
    ASSUME Typed, \A q \in Procs : Local(q), NEW p \in Procs, NEW to,
           to \in {"sort", "swap", "init", "done"}, Go(p, to),
           UNCHANGED <<seen, ended, copy, before>>, moved \subseteq moved'
    PROVE  \A q \in Procs : Local(q)'
<1> TAKE q \in Procs
<1>1. CASE q = p
  <2>1. at'[q] = to
    BY <1>1 DEF Go, Typed
  <2>2. QED
    BY <2>1, Silent
<1>2. CASE q # p
  <2>1. at'[q] = at[q]
    BY <1>2 DEF Go, Typed
  <2>2. QED
    BY <2>1, LocalKept
<1>3. QED
  BY <1>1, <1>2

(* Who reads, copies or calls hooks leaves the array alone. *)
LEMMA ReadKeepsSorting ==
    ASSUME Typed, Sorting, UNCHANGED <<arrays, length, mu, cursor, registered, ext>>,
           NEW p \in Procs, at[p] \notin {"sort", "swap", "init"},
           at'[p] \notin {"sort", "swap", "init"},
           \A q \in Procs : q # p => at'[q] = at[q]
    PROVE  Sorting'
<1>1. /\ Array' = Array
      /\ \A n, c : InPlace(Array, n, c)' = InPlace(Array, n, c)
  BY DEF Array, InPlace
<1>2. mu = NoProc => cursor = 0 /\ InPlace(Array, length, 0)'
  BY DEF Sorting, InPlace, Array
<1>3. \A q \in Procs : at'[q] \in {"sort", "swap", "init"} => q # p /\ at'[q] = at[q]
  OBVIOUS
<1>4. \A q \in Procs : at'[q] = "sort" =>
           Array'[cursor'] = ext'[q] /\ InPlace(Array, length, cursor)'
  BY <1>1, <1>3 DEF Sorting, InPlace, Array
<1>5. \A q \in Procs : at'[q] = "swap" =>
           /\ cursor' > 1
           /\ InPlace([Array EXCEPT ![cursor - 1] = ext[q]], length, cursor - 1)'
  BY <1>1, <1>3 DEF Sorting, InPlace, Array
<1>6. \A q \in Procs : mu' = q => at'[q] \in {"sort", "swap"} /\ cursor' \in 1..length'
  <2> TAKE q \in Procs
  <2>1. CASE q = p
    BY <2>1 DEF Sorting
  <2>2. CASE q # p
    BY <2>2 DEF Sorting
  <2>3. QED
    BY <2>1, <2>2
<1>7. QED
  BY <1>2, <1>3, <1>4, <1>5, <1>6 DEF Sorting

LEMMA ReadKeepsSlices ==
    ASSUME Slices, UNCHANGED <<arrays, mu, slice, copy, moved>>, NEW p \in Procs,
           at'[p] \in {"read", "notify"} => at[p] \in {"read", "notify"},
           \A q \in Procs : q # p => at'[q] = at[q]
    PROVE  Slices'
<1> SUFFICES ASSUME NEW q \in Procs, at'[q] \in {"read", "notify"}
             PROVE  /\ slice'[q].array \in 1..Len(arrays')
                    /\ slice'[q].length <= Len(arrays'[slice'[q].array])
                    /\ q \notin moved' =>
                           /\ slice'[q].array = Len(arrays') => mu' = NoProc
                           /\ Len(copy'[q]) = slice'[q].length
                           /\ \A k \in 1..slice'[q].length :
                                  copy'[q][k] = arrays'[slice'[q].array][k]
  BY DEF Slices
<1>1. at[q] \in {"read", "notify"}
  OBVIOUS
<1>2. QED
  BY <1>1 DEF Slices

-----------------------------------------------------------------------------
(* UseExtension *)
LEMMA UseInv == ASSUME HookInv, NEW p \in Procs, Use(p) PROVE HookInv'
<1>1. PICK e \in Exts \ registered :
          /\ ext' = [ext EXCEPT ![p] = e]
          /\ registered' = registered \union {e}
          /\ arrays' = IF HasRoom
                       THEN [arrays EXCEPT ![Len(arrays)][length + 1] = e]
                       ELSE Append(arrays, [Grown(Array) EXCEPT ![length + 1] = e])
  BY DEF Use
<1>2. Typed /\ Sorting /\ Slices /\ (\A q \in Procs : Local(q))
  BY DEF HookInv
<1>3. /\ at[p] = "idle" /\ mu = NoProc /\ length' = length + 1 /\ cursor' = length + 1
      /\ mu' = p /\ Go(p, "sort")
      /\ UNCHANGED <<initialized, slice, seen, ended, copy, before>>
      /\ moved' = IF HasRoom THEN moved \union
                       { q \in Procs : at[q] \in {"read", "notify"}
                                       /\ slice[q].array = Len(arrays) }
                   ELSE moved
  BY DEF Use
<1>4. /\ length \in Nat /\ length <= Len(Array) /\ Array \in Places
      /\ Len(arrays) \in Nat \ {0} /\ DOMAIN Array = 1..Len(Array) /\ Len(Array) \in Nat
      /\ \A a \in 1..Len(arrays) : arrays[a] \in Places /\ Len(arrays[a]) \in Nat
  BY <1>2, LastArray DEF Typed
<1>5. /\ arrays' \in Seq(Places) /\ Len(arrays') >= Len(arrays)
      /\ length + 1 <= Len(Array')
      /\ Array'[length + 1] = e /\ \A i \in 1..length : Array'[i] = Array[i]
      /\ \A a \in 1..Len(arrays) : Len(arrays'[a]) = Len(arrays[a])
      /\ \A a \in 1..Len(arrays) : arrays'[a] = arrays[a] \/ (HasRoom /\ a = Len(arrays))
      /\ ~HasRoom => Len(arrays') = Len(arrays) + 1
      /\ HasRoom => Len(arrays') = Len(arrays)
  <2>1. CASE HasRoom
    <3>1. length + 1 \in DOMAIN Array
      BY <1>4, <2>1 DEF HasRoom
    <3>2. arrays' = [arrays EXCEPT ![Len(arrays)][length + 1] = e]
      BY <1>1, <2>1
    <3>3. /\ arrays' \in Seq(Places) /\ Len(arrays') = Len(arrays)
          /\ Array' = [Array EXCEPT ![length + 1] = e] /\ Len(Array') = Len(Array)
          /\ \A a \in 1..Len(arrays) : Len(arrays'[a]) = Len(arrays[a])
          /\ \A a \in 1..Len(arrays) : a # Len(arrays) => arrays'[a] = arrays[a]
      BY <1>2, <3>1, <3>2, WriteLast
    <3>4. QED
      BY <1>4, <2>1, <3>1, <3>3
  <2>2. CASE ~HasRoom
    <3> DEFINE g == [Grown(Array) EXCEPT ![length + 1] = e]
    <3>1. /\ Grown(Array) \in Places /\ Len(Grown(Array)) > Len(Array)
          /\ \A i \in 1..Len(Array) : Grown(Array)[i] = Array[i]
      BY <1>4, GrownArray
    <3>2. length = Len(Array) /\ length + 1 \in DOMAIN Grown(Array)
      BY <1>4, <2>2, <3>1 DEF HasRoom, Places
    <3>3. /\ g \in Places /\ Len(g) = Len(Grown(Array)) /\ g[length + 1] = e
          /\ \A i \in 1..length : g[i] = Array[i]
      BY <1>4, <3>1, <3>2 DEF Places
    <3>4. arrays' = Append(arrays, g)
      BY <1>1, <2>2
    <3> HIDE DEF g
    <3>5. /\ arrays' \in Seq(Places) /\ Len(arrays') = Len(arrays) + 1
          /\ arrays'[Len(arrays) + 1] = g
          /\ \A a \in 1..Len(arrays) : arrays'[a] = arrays[a]
      BY <1>2, <3>3, <3>4 DEF Typed
    <3>6. Array' = g
      BY <3>5 DEF Array
    <3>7. length + 1 <= Len(g)
      BY <1>4, <3>1, <3>2, <3>3 DEF Places
    <3>8. QED
      BY <1>4, <2>2, <3>3, <3>5, <3>6, <3>7
  <2>3. QED
    BY <2>1, <2>2
<1>6. Typed'
  <2>1. at' \in [Procs -> Phases] /\ ext' \in [Procs -> Exts \union {NoExt}]
    BY <1>1, <1>2, <1>3 DEF Typed, Go, Phases
  <2>2. moved' \subseteq Procs
    BY <1>2, <1>3 DEF Typed
  <2>3. QED
    BY <1>1, <1>2, <1>3, <1>4, <1>5, <2>1, <2>2 DEF Typed
<1>7. at'[p] = "sort" /\ ext'[p] = e /\ \A q \in Procs : q # p => at'[q] = at[q] /\ ext'[q] = ext[q]
  BY <1>1, <1>2, <1>3 DEF Typed, Go
<1>8. InPlace(Array, length, cursor)'
  <2>1. InPlace(Array, length, 0)
    BY <1>2, <1>3 DEF Sorting
  <2>2. \A i \in 1..(length + 1) : i \in 1..length \/ i = length + 1
    BY <1>4
  <2>3. length + 1 \in 1..(length + 1) /\ \A i \in 1..length : i \in 1..(length + 1) /\ i # length + 1
    BY <1>4
  <2>4. \A i \in 1..(length + 1) : Array'[i] \in registered'
    BY <1>1, <1>5, <2>1, <2>2 DEF InPlace
  <2>5. \A x \in registered' : \E i \in 1..(length + 1) : Array'[i] = x
    BY <1>1, <1>5, <2>1, <2>3 DEF InPlace
  <2>6. \A i, j \in 1..(length + 1) : Array'[i] = Array'[j] => i = j
    BY <1>1, <1>5, <2>1, <2>2 DEF InPlace
  <2>7. \A i, j \in 1..(length + 1) : i < j /\ j # length + 1 => Order[Array'[i]] <= Order[Array'[j]]
    <3> SUFFICES ASSUME NEW i \in 1..(length + 1), NEW j \in 1..(length + 1), i < j, j # length + 1
                 PROVE  Order[Array'[i]] <= Order[Array'[j]]
      OBVIOUS
    <3>1. i \in 1..length /\ j \in 1..length /\ j # 0
      BY <1>4
    <3>2. QED
      BY <1>5, <2>1, <3>1 DEF InPlace
  <2>8. QED
    BY <1>3, <2>4, <2>5, <2>6, <2>7 DEF InPlace
<1>9. Sorting'
  <2>1. \A q \in Procs : at[q] \notin {"sort", "swap"}
    BY <1>2, <1>3, ExtensionsAssumption DEF Sorting
  <2>2. \A q \in Procs : at'[q] \in {"sort", "swap"} => q = p
    BY <1>7, <2>1
  <2>3. mu' # NoProc
    BY <1>3, ExtensionsAssumption
  <2>4. \A q \in Procs : at'[q] \in {"sort", "swap", "init"} => ext'[q] \in registered'
    BY <1>1, <1>2, <1>7 DEF Sorting
  <2>5. Array'[cursor'] = ext'[p] /\ cursor' \in 1..length'
    BY <1>3, <1>4, <1>5, <1>7
  <2>6. QED
    BY <1>3, <1>7, <1>8, <2>2, <2>3, <2>4, <2>5 DEF Sorting
<1>10. Slices'
  <2> SUFFICES ASSUME NEW q \in Procs, at'[q] \in {"read", "notify"}
               PROVE  /\ slice'[q].array \in 1..Len(arrays')
                      /\ slice'[q].length <= Len(arrays'[slice'[q].array])
                      /\ q \notin moved' =>
                             /\ slice'[q].array = Len(arrays') => mu' = NoProc
                             /\ Len(copy'[q]) = slice'[q].length
                             /\ \A k \in 1..slice'[q].length :
                                    copy'[q][k] = arrays'[slice'[q].array][k]
    BY DEF Slices
  <2>1. q # p /\ at[q] \in {"read", "notify"} /\ slice'[q] = slice[q] /\ copy'[q] = copy[q]
    BY <1>3, <1>7
  <2>2. /\ slice[q].array \in 1..Len(arrays)
        /\ slice[q].length <= Len(arrays[slice[q].array])
        /\ q \notin moved =>
               /\ slice[q].array = Len(arrays) => mu = NoProc
               /\ Len(copy[q]) = slice[q].length
               /\ \A k \in 1..slice[q].length : copy[q][k] = arrays[slice[q].array][k]
    BY <1>2, <2>1 DEF Slices
  <2>3. slice[q].array \in 1..Len(arrays')
    BY <1>4, <1>5, <2>2
  <2>4. slice[q].length <= Len(arrays'[slice[q].array])
    BY <1>5, <2>2
  <2>5. ASSUME q \notin moved'
        PROVE  q \notin moved /\ slice[q].array # Len(arrays') /\
                   arrays'[slice[q].array] = arrays[slice[q].array]
    <3>1. CASE HasRoom
      BY <1>3, <1>5, <2>1, <2>2, <2>5, <3>1
    <3>2. CASE ~HasRoom
      BY <1>3, <1>4, <1>5, <2>2, <2>5, <3>2
    <3>3. QED
      BY <3>1, <3>2
  <2>6. QED
    BY <2>1, <2>2, <2>3, <2>4, <2>5
<1>11. \A q \in Procs : Local(q)'
  <2>1. moved \subseteq moved'
    BY <1>3
  <2>2. QED
    BY <1>2, <1>3, <2>1, UseKeepsLocal
<1>12. QED
  BY <1>6, <1>9, <1>10, <1>11 DEF HookInv

-----------------------------------------------------------------------------
(* The sort *)

(* A swap brings the element that is out of place one place to the left.   *)
LEMMA Swapped ==
    ASSUME NEW a, NEW b, NEW n \in Nat, NEW c \in 2..n, registered \subseteq Exts,
           InPlace(a, n, c), Order[a[c]] < Order[a[c - 1]],
           b[c] = a[c - 1], b[c - 1] = a[c], \A i \in 1..n : i \notin {c - 1, c} => b[i] = a[i]
    PROVE  InPlace(b, n, c - 1)
<1>1. c - 1 \in 1..n /\ c \in 1..n /\ c - 1 # c
  OBVIOUS
<1>2. \A i \in 1..n : a[i] \in registered /\ Order[a[i]] \in Nat
  BY ExtensionsAssumption DEF InPlace
<1>3. \A i \in 1..n : b[i] \in registered
  BY <1>1, <1>2
<1>4. \A x \in registered : \E i \in 1..n : b[i] = x
  BY <1>1 DEF InPlace
<1>5. \A i, j \in 1..n : b[i] = b[j] => i = j
  BY <1>1 DEF InPlace
<1>6. \A i, j \in 1..n : i < j /\ j # c - 1 => Order[b[i]] <= Order[b[j]]
  <2> SUFFICES ASSUME NEW i \in 1..n, NEW j \in 1..n, i < j, j # c - 1
               PROVE  Order[b[i]] <= Order[b[j]]
    OBVIOUS
  <2>1. \A x, y \in 1..n : x < y /\ y # c => Order[a[x]] <= Order[a[y]]
    BY DEF InPlace
  <2>2. CASE j = c /\ i = c - 1
    BY <1>1, <1>2, <2>2
  <2>3. CASE j = c /\ i # c - 1
    <3>1. i < c - 1 /\ b[i] = a[i] /\ b[j] = a[c - 1]
      BY <2>3
    <3>2. QED
      BY <1>1, <2>1, <3>1
  <2>4. CASE j # c /\ i = c
    <3>1. c - 1 < j /\ b[i] = a[c - 1] /\ b[j] = a[j]
      BY <2>4
    <3>2. QED
      BY <1>1, <2>1, <2>4, <3>1
  <2>5. CASE j # c /\ i = c - 1
    <3>1. c < j /\ b[i] = a[c] /\ b[j] = a[j]
      BY <2>5
    <3>2. QED
      BY <1>1, <2>1, <2>5, <3>1
  <2>6. CASE j # c /\ i # c /\ i # c - 1
    <3>1. b[i] = a[i] /\ b[j] = a[j]
      BY <2>6
    <3>2. QED
      BY <2>1, <2>6, <3>1
  <2>7. QED
    BY <2>2, <2>3, <2>4, <2>5, <2>6
<1>7. QED
  BY <1>3, <1>4, <1>5, <1>6 DEF InPlace

(* When its left neighbour is no greater, all are in place. *)
LEMMA InOrder ==
    ASSUME NEW a, NEW n \in Nat, NEW c \in 1..n, registered \subseteq Exts,
           InPlace(a, n, c), c > 1 => ~(Order[a[c]] < Order[a[c - 1]])
    PROVE  InPlace(a, n, 0)
<1>1. \A i \in 1..n : a[i] \in registered /\ Order[a[i]] \in Nat
  BY ExtensionsAssumption DEF InPlace
<1>2. \A i, j \in 1..n : i < j /\ j # c => Order[a[i]] <= Order[a[j]]
  BY DEF InPlace
<1>3. \A i, j \in 1..n : i < j => Order[a[i]] <= Order[a[j]]
  <2> SUFFICES ASSUME NEW i \in 1..n, NEW j \in 1..n, i < j
               PROVE  Order[a[i]] <= Order[a[j]]
    OBVIOUS
  <2>1. CASE j # c
    BY <1>2, <2>1
  <2>2. CASE j = c
    <3>1. c > 1 /\ c - 1 \in 1..n
      BY <2>2
    <3>2. Order[a[c - 1]] <= Order[a[c]]
      BY <1>1, <3>1
    <3>3. i = c - 1 \/ (i < c - 1 /\ c - 1 # c)
      BY <2>2
    <3>4. Order[a[i]] <= Order[a[c - 1]]
      BY <1>1, <1>2, <3>1, <3>3
    <3>5. QED
      BY <1>1, <2>2, <3>1, <3>2, <3>4
  <2>3. QED
    BY <2>1, <2>2
<1>4. QED
  BY <1>3 DEF InPlace

(* Who sorts writes to the last array, which is read by nobody it has not  *)
(* moved elements under.                                                   *)
LEMMA WriteKeepsSlices ==
    ASSUME Slices, Typed, NEW p \in Procs, mu = p, mu' = mu, moved' = moved,
           slice' = slice, copy' = copy,
           \A q \in Procs : at'[q] \in {"read", "notify"} => at[q] \in {"read", "notify"},
           Len(arrays') = Len(arrays),
           \A a \in 1..Len(arrays) : Len(arrays'[a]) = Len(arrays[a]),
           \A a \in 1..Len(arrays) : a # Len(arrays) => arrays'[a] = arrays[a]
    PROVE  Slices'
<1> SUFFICES ASSUME NEW q \in Procs, at'[q] \in {"read", "notify"}
             PROVE  /\ slice'[q].array \in 1..Len(arrays')
                    /\ slice'[q].length <= Len(arrays'[slice'[q].array])
                    /\ q \notin moved' =>
                           /\ slice'[q].array = Len(arrays') => mu' = NoProc
                           /\ Len(copy'[q]) = slice'[q].length
                           /\ \A k \in 1..slice'[q].length :
                                  copy'[q][k] = arrays'[slice'[q].array][k]
  BY DEF Slices
<1>1. /\ slice[q].array \in 1..Len(arrays)
      /\ slice[q].length <= Len(arrays[slice[q].array])
      /\ q \notin moved =>
             /\ slice[q].array = Len(arrays) => mu = NoProc
             /\ Len(copy[q]) = slice[q].length
             /\ \A k \in 1..slice[q].length : copy[q][k] = arrays[slice[q].array][k]
  BY DEF Slices
<1>2. mu # NoProc
  BY ExtensionsAssumption
<1>3. QED
  BY <1>1, <1>2

LEMMA SwapLeftInv == ASSUME HookInv, NEW p \in Procs, SwapLeft(p) PROVE HookInv'
<1>1. Typed /\ Sorting /\ Slices /\ (\A q \in Procs : Local(q))
  BY DEF HookInv
<1>2. /\ at[p] = "sort" /\ OutOfOrder /\ Go(p, "swap")
      /\ arrays' = [arrays EXCEPT ![Len(arrays)][cursor] = Array[cursor - 1]]
      /\ UNCHANGED <<length, mu, cursor, registered, initialized, ext, slice,
                     seen, ended, copy, before, moved>>
  BY DEF SwapLeft
<1>3. /\ mu = p /\ cursor \in 1..length /\ ext[p] \in registered
      /\ Array[cursor] = ext[p] /\ InPlace(Array, length, cursor)
  BY <1>1, <1>2 DEF Sorting
<1>4. /\ length \in Nat /\ length <= Len(Array) /\ Array \in Places
      /\ DOMAIN Array = 1..Len(Array) /\ Len(Array) \in Nat /\ registered \subseteq Exts
  BY <1>1, LastArray DEF Typed
<1>5. /\ cursor \in 2..length /\ cursor \in DOMAIN Array /\ cursor - 1 \in DOMAIN Array
      /\ cursor - 1 \in 1..length /\ Order[Array[cursor]] < Order[Array[cursor - 1]]
  BY <1>2, <1>3, <1>4 DEF OutOfOrder
<1>6. Array[cursor - 1] \in Exts \union {NoExt}
  BY <1>4, <1>5 DEF Places
<1>7. /\ arrays' \in Seq(Places) /\ Len(arrays') = Len(arrays)
      /\ Array' = [Array EXCEPT ![cursor] = Array[cursor - 1]] /\ Len(Array') = Len(Array)
      /\ \A a \in 1..Len(arrays) : Len(arrays'[a]) = Len(arrays[a])
      /\ \A a \in 1..Len(arrays) : a # Len(arrays) => arrays'[a] = arrays[a]
  BY <1>1, <1>2, <1>5, <1>6, WriteLast
<1>8. at'[p] = "swap" /\ \A q \in Procs : q # p => at'[q] = at[q]
  BY <1>1, <1>2 DEF Typed, Go
<1>9. Typed'
  <2>1. at' \in [Procs -> Phases]
    BY <1>1, <1>2 DEF Typed, Go, Phases
  <2>2. QED
    BY <1>1, <1>2, <1>7, <2>1 DEF Typed
<1>10. InPlace([Array' EXCEPT ![cursor - 1] = ext[p]], length, cursor - 1)
  <2> DEFINE b == [Array' EXCEPT ![cursor - 1] = ext[p]]
  <2>1. b[cursor - 1] = Array[cursor] /\ b[cursor] = Array[cursor - 1]
    BY <1>3, <1>5, <1>7
  <2>2. \A i \in 1..length : i \notin {cursor - 1, cursor} => b[i] = Array[i]
    BY <1>4, <1>7
  <2> HIDE DEF b
  <2>3. InPlace(b, length, cursor - 1)
    BY <1>3, <1>4, <1>5, <2>1, <2>2, Swapped
  <2>4. QED
    BY <2>3 DEF b
<1>11. InPlace([Array EXCEPT ![cursor - 1] = ext[p]], length, cursor - 1)'
  BY <1>2, <1>10 DEF InPlace
<1>12. Sorting'
  <2>1. \A q \in Procs : at'[q] \in {"sort", "swap"} => q = p
    BY <1>1, <1>3, <1>8 DEF Sorting
  <2>2. \A q \in Procs : at'[q] \in {"sort", "swap", "init"} => ext'[q] \in registered'
    BY <1>1, <1>2, <1>3, <1>8 DEF Sorting
  <2>3. mu' = p /\ mu' # NoProc /\ cursor' \in 1..length' /\ cursor' > 1
    BY <1>2, <1>3, <1>5, ExtensionsAssumption
  <2>4. QED
    BY <1>8, <1>11, <2>1, <2>2, <2>3 DEF Sorting
<1>13. Slices'
  BY <1>1, <1>2, <1>3, <1>7, <1>8, WriteKeepsSlices
<1>14. \A q \in Procs : Local(q)'
  BY <1>1, <1>2, UseKeepsLocal
<1>15. QED
  BY <1>9, <1>12, <1>13, <1>14 DEF HookInv

LEMMA SwapRightInv == ASSUME HookInv, NEW p \in Procs, SwapRight(p) PROVE HookInv'
<1>1. Typed /\ Sorting /\ Slices /\ (\A q \in Procs : Local(q))
  BY DEF HookInv
<1>2. /\ at[p] = "swap" /\ Go(p, "sort") /\ cursor' = cursor - 1
      /\ arrays' = [arrays EXCEPT ![Len(arrays)][cursor - 1] = ext[p]]
      /\ UNCHANGED <<length, mu, registered, initialized, ext, slice, seen,
                     ended, copy, before, moved>>
  BY DEF SwapRight
<1>3. /\ mu = p /\ cursor \in 1..length /\ ext[p] \in registered /\ cursor > 1
      /\ InPlace([Array EXCEPT ![cursor - 1] = ext[p]], length, cursor - 1)
  BY <1>1, <1>2 DEF Sorting
<1>4. /\ length \in Nat /\ length <= Len(Array) /\ Array \in Places
      /\ DOMAIN Array = 1..Len(Array) /\ Len(Array) \in Nat /\ registered \subseteq Exts
  BY <1>1, LastArray DEF Typed
<1>5. /\ cursor - 1 \in DOMAIN Array /\ cursor - 1 \in 1..length /\ cursor - 1 \in Nat
      /\ ext[p] \in Exts \union {NoExt}
  BY <1>3, <1>4
<1>6. /\ arrays' \in Seq(Places) /\ Len(arrays') = Len(arrays)
      /\ Array' = [Array EXCEPT ![cursor - 1] = ext[p]] /\ Len(Array') = Len(Array)
      /\ \A a \in 1..Len(arrays) : Len(arrays'[a]) = Len(arrays[a])
      /\ \A a \in 1..Len(arrays) : a # Len(arrays) => arrays'[a] = arrays[a]
  BY <1>1, <1>2, <1>5, WriteLast
<1>7. at'[p] = "sort" /\ \A q \in Procs : q # p => at'[q] = at[q]
  BY <1>1, <1>2 DEF Typed, Go
<1>8. Typed'
  <2>1. at' \in [Procs -> Phases]
    BY <1>1, <1>2 DEF Typed, Go, Phases
  <2>2. QED
    BY <1>1, <1>2, <1>5, <1>6, <2>1 DEF Typed
<1>9. Array'[cursor'] = ext'[p]
  BY <1>2, <1>5, <1>6
<1>10. InPlace(Array, length, cursor)'
  BY <1>2, <1>3, <1>6 DEF InPlace
<1>11. Sorting'
  <2>1. \A q \in Procs : at'[q] \in {"sort", "swap"} => q = p
    BY <1>1, <1>3, <1>7 DEF Sorting
  <2>2. \A q \in Procs : at'[q] \in {"sort", "swap", "init"} => ext'[q] \in registered'
    BY <1>1, <1>2, <1>3, <1>7 DEF Sorting
  <2>3. mu' = p /\ mu' # NoProc /\ cursor' \in 1..length'
    BY <1>2, <1>3, <1>5, ExtensionsAssumption
  <2>4. QED
    BY <1>7, <1>9, <1>10, <2>1, <2>2, <2>3 DEF Sorting
<1>12. Slices'
  BY <1>1, <1>2, <1>3, <1>6, <1>7, WriteKeepsSlices
<1>13. \A q \in Procs : Local(q)'
  BY <1>1, <1>2, UseKeepsLocal
<1>14. QED
  BY <1>8, <1>11, <1>12, <1>13 DEF HookInv

LEMMA UnlockInv == ASSUME HookInv, NEW p \in Procs, Unlock(p) PROVE HookInv'
<1>1. Typed /\ Sorting /\ Slices /\ (\A q \in Procs : Local(q))
  BY DEF HookInv
<1>2. /\ at[p] = "sort" /\ ~OutOfOrder /\ Go(p, "init") /\ mu' = NoProc /\ cursor' = 0
      /\ UNCHANGED <<arrays, length, registered, initialized, ext, slice, seen,
                     ended, copy, before, moved>>
  BY DEF Unlock
<1>3. /\ mu = p /\ cursor \in 1..length /\ ext[p] \in registered
      /\ InPlace(Array, length, cursor) /\ length \in Nat /\ registered \subseteq Exts
  BY <1>1, <1>2 DEF Sorting, Typed
<1>4. InPlace(Array, length, 0)
  BY <1>2, <1>3, InOrder DEF OutOfOrder
<1>5. InPlace(Array, length, 0)'
  BY <1>2, <1>4 DEF InPlace, Array
<1>6. at'[p] = "init" /\ \A q \in Procs : q # p => at'[q] = at[q]
  BY <1>1, <1>2 DEF Typed, Go
<1>7. Typed'
  <2>1. at' \in [Procs -> Phases]
    BY <1>1, <1>2 DEF Typed, Go, Phases
  <2>2. Array' = Array
    BY <1>2 DEF Array
  <2>3. QED
    BY <1>1, <1>2, <2>1, <2>2 DEF Typed
<1>8. Sorting'
  <2>1. \A q \in Procs : at'[q] \notin {"sort", "swap"}
    BY <1>1, <1>3, <1>6 DEF Sorting
  <2>2. \A q \in Procs : at'[q] \in {"sort", "swap", "init"} => ext'[q] \in registered'
    BY <1>1, <1>2, <1>3, <1>6 DEF Sorting
  <2>3. \A q \in Procs : mu' # q
    BY <1>2, ExtensionsAssumption
  <2>4. QED
    BY <1>2, <1>5, <2>1, <2>2, <2>3 DEF Sorting
<1>9. Slices'
  <2>1. \A q \in Procs : at'[q] \in {"read", "notify"} => at[q] \in {"read", "notify"}
    BY <1>6
  <2>2. QED
    BY <1>1, <1>2, <2>1 DEF Slices
<1>10. \A q \in Procs : Local(q)'
  BY <1>1, <1>2, UseKeepsLocal
<1>11. QED
  BY <1>7, <1>8, <1>9, <1>10 DEF HookInv

LEMMA InitExtensionInv ==
    ASSUME HookInv, NEW p \in Procs, InitExtension(p) PROVE HookInv'
<1>1. Typed /\ Sorting /\ Slices /\ (\A q \in Procs : Local(q))
  BY DEF HookInv
<1>2. /\ at[p] = "init" /\ Go(p, "done") /\ initialized' = initialized \union {ext[p]}
      /\ UNCHANGED <<arrays, length, mu, cursor, registered, ext, slice, seen,
                     ended, copy, before, moved>>
  BY DEF InitExtension
<1>3. at'[p] = "done" /\ \A q \in Procs : q # p => at'[q] = at[q]
  BY <1>1, <1>2 DEF Typed, Go
<1>4. Typed'
  <2>1. at' \in [Procs -> Phases]
    BY <1>1, <1>2 DEF Typed, Go, Phases
  <2>2. initialized' \subseteq registered'
    BY <1>1, <1>2 DEF Typed, Sorting
  <2>3. Array' = Array
    BY <1>2 DEF Array
  <2>4. QED
    BY <1>1, <1>2, <2>1, <2>2, <2>3 DEF Typed
<1>5. Sorting'
  <2>1. Array' = Array
    BY <1>2 DEF Array
  <2>2. \A q \in Procs : mu = q => q # p
    BY <1>1, <1>2 DEF Sorting
  <2>3. \A q \in Procs : mu' = q => at'[q] \in {"sort", "swap"} /\ cursor' \in 1..length'
    BY <1>1, <1>2, <1>3, <2>2 DEF Sorting
  <2>4. mu' = NoProc => cursor' = 0 /\ InPlace(Array, length, 0)'
    BY <1>1, <1>2, <2>1 DEF Sorting, InPlace
  <2>5. \A q \in Procs : at'[q] = "sort" =>
             Array'[cursor'] = ext'[q] /\ InPlace(Array, length, cursor)'
    BY <1>1, <1>2, <1>3, <2>1 DEF Sorting, InPlace
  <2>6. \A q \in Procs : at'[q] = "swap" =>
             /\ cursor' > 1
             /\ InPlace([Array EXCEPT ![cursor - 1] = ext[q]], length, cursor - 1)'
    BY <1>1, <1>2, <1>3, <2>1 DEF Sorting, InPlace
  <2>7. \A q \in Procs : at'[q] \in {"sort", "swap"} => mu' = q
    BY <1>1, <1>2, <1>3 DEF Sorting
  <2>8. \A q \in Procs : at'[q] \in {"sort", "swap", "init"} => ext'[q] \in registered'
    BY <1>1, <1>2, <1>3 DEF Sorting
  <2>9. QED
    BY <2>3, <2>4, <2>5, <2>6, <2>7, <2>8 DEF Sorting
<1>6. Slices'
  <2>1. \A q \in Procs : at'[q] \in {"read", "notify"} => at[q] \in {"read", "notify"}
    BY <1>3
  <2>2. QED
    BY <1>1, <1>2, <2>1 DEF Slices
<1>7. \A q \in Procs : Local(q)'
  BY <1>1, <1>2, UseKeepsLocal
<1>8. QED
  BY <1>4, <1>5, <1>6, <1>7 DEF HookInv

-----------------------------------------------------------------------------
(* Resolve, Update, Exec and Dispose *)

(* What was in place when it was copied is all there was, in order.        *)
LEMMA ElementsComplete ==
    ASSUME Typed, InPlace(Array, length, 0)
    PROVE  /\ Elements \in Places /\ Len(Elements) = length
           /\ \A k \in 1..length : Elements[k] = Array[k]
           /\ Sorted(Elements) /\ IsInjective(Elements)
           /\ initialized \subseteq ToSet(Elements)
<1>1. /\ length \in Nat /\ length <= Len(Array) /\ Array \in Places
      /\ DOMAIN Array = 1..Len(Array) /\ Len(Array) \in Nat
  BY LastArray DEF Typed
<1>2. /\ Elements \in Places /\ Len(Elements) = length /\ DOMAIN Elements = 1..length
      /\ \A k \in 1..length : Elements[k] = Array[k]
  BY <1>1 DEF Elements, Places
<1> HIDE DEF Elements
<1>3. \A i, j \in 1..length : i < j => Order[Array[i]] <= Order[Array[j]]
  BY DEF InPlace
<1>4. Sorted(Elements)
  BY <1>2, <1>3 DEF Sorted
<1>5. IsInjective(Elements)
  BY <1>2 DEF IsInjective, InPlace
<1>6. initialized \subseteq ToSet(Elements)
  <2> SUFFICES ASSUME NEW x \in initialized PROVE x \in ToSet(Elements)
    OBVIOUS
  <2>1. x \in registered
    BY DEF Typed
  <2>2. PICK i \in 1..length : Array[i] = x
    BY <2>1 DEF InPlace
  <2>3. i \in DOMAIN Elements /\ Elements[i] = x
    BY <1>2, <2>2
  <2>4. QED
    BY <2>3 DEF ToSet
<1>7. QED
  BY <1>2, <1>4, <1>5, <1>6

LEMMA FrontGrows ==
    ASSUME NEW S, NEW s \in Seq(S), NEW q \in Seq(S), FrontOf(s, q), Len(s) + 1 <= Len(q)
    PROVE  FrontOf(Append(s, q[Len(s) + 1]), q)
BY DEF FrontOf

LEMMA BackGrows ==
    ASSUME NEW S, NEW s \in Seq(S), NEW q \in Seq(S), BackOf(s, q), Len(q) - Len(s) > 0
    PROVE  BackOf(Append(s, q[Len(q) - Len(s)]), q)
<1> DEFINE r == Append(s, q[Len(q) - Len(s)])
<1>1. Len(s) \in Nat /\ Len(q) \in Nat
  OBVIOUS
<1>2. Len(r) = Len(s) + 1
  OBVIOUS
<1>3. \A j \in 1..(Len(s) + 1) : r[j] = q[Len(q) + 1 - j]
  <2> TAKE j \in 1..(Len(s) + 1)
  <2>1. CASE j = Len(s) + 1
    <3>1. r[j] = q[Len(q) - Len(s)] /\ Len(q) + 1 - j = Len(q) - Len(s)
      BY <1>1, <2>1
    <3>2. QED
      BY <3>1
  <2>2. CASE j \in 1..Len(s)
    BY <1>1, <2>2 DEF BackOf
  <2>3. QED
    BY <1>1, <2>1, <2>2
<1>4. QED
  BY <1>1, <1>2, <1>3 DEF BackOf

LEMMA FrontWhole ==
    ASSUME NEW S, NEW s \in Seq(S), NEW q \in Seq(S), FrontOf(s, q), Len(s) = Len(q)
    PROVE  s = q
BY DEF FrontOf

LEMMA BackWhole ==
    ASSUME NEW S, NEW s \in Seq(S), NEW q \in Seq(S), BackOf(s, q), Len(s) = Len(q)
    PROVE  s = Reverse(q) /\ Reverse(s) = q
<1>1. Len(s) \in Nat /\ DOMAIN s = 1..Len(s) /\ DOMAIN q = 1..Len(q)
  OBVIOUS
<1>2. s = Reverse(q)
  <2>1. Reverse(q) = [i \in 1..Len(q) |-> q[(Len(q) - i) + 1]]
    BY DEF Reverse
  <2>2. \A i \in 1..Len(q) : s[i] = q[(Len(q) - i) + 1]
    <3> TAKE i \in 1..Len(q)
    <3>1. Len(q) + 1 - i = (Len(q) - i) + 1
      BY <1>1
    <3>2. QED
      BY <3>1 DEF BackOf
  <2>3. s = [i \in 1..Len(q) |-> q[(Len(q) - i) + 1]]
    <3>1. s = [i \in 1..Len(q) |-> s[i]]
      BY <1>1
    <3>2. QED
      BY <2>2, <3>1
  <2>4. QED
    BY <2>1, <2>3
<1>3. Reverse(s) = q
  <2>1. Reverse(s) = [i \in 1..Len(s) |-> s[(Len(s) - i) + 1]]
    BY DEF Reverse
  <2>2. \A i \in 1..Len(s) : s[(Len(s) - i) + 1] = q[i]
    <3> TAKE i \in 1..Len(s)
    <3>1. (Len(s) - i) + 1 \in 1..Len(s) /\ Len(q) + 1 - ((Len(s) - i) + 1) = i
      BY <1>1
    <3>2. QED
      BY <3>1 DEF BackOf
  <2>3. QED
    BY <1>1, <2>1, <2>2
<1>4. QED
  BY <1>2, <1>3

(* Who reads leaves everything that is shared alone. *)
LEMMA ReadInv ==
    ASSUME HookInv, NEW p \in Procs, NEW to \in Phases \ {"sort", "swap", "init"},
           at[p] \notin {"sort", "swap", "init"}, at' = [at EXCEPT ![p] = to],
           to \in {"read", "notify"} => at[p] \in {"read", "notify"},
           UNCHANGED <<arrays, length, mu, cursor, registered, initialized, ext,
                       slice, copy, before, moved>>,
           seen' \in [Procs -> Seq(Read)], ended' \in [Procs -> Seq(Read)],
           \A q \in Procs : q # p => seen'[q] = seen[q] /\ ended'[q] = ended[q],
           Local(p)'
    PROVE  HookInv'
<1>1. Typed /\ Sorting /\ Slices /\ (\A q \in Procs : Local(q))
  BY DEF HookInv
<1>2. at'[p] = to /\ \A q \in Procs : q # p => at'[q] = at[q]
  BY <1>1 DEF Typed
<1>3. Typed'
  <2>1. at' \in [Procs -> Phases]
    BY <1>1 DEF Typed
  <2>2. Array' = Array
    BY DEF Array
  <2>3. QED
    BY <1>1, <2>1, <2>2 DEF Typed
<1>4. Sorting'
  BY <1>1, <1>2, ReadKeepsSorting
<1>5. Slices'
  BY <1>1, <1>2, ReadKeepsSlices
<1>6. \A q \in Procs : Local(q)'
  <2> TAKE q \in Procs
  <2>1. CASE q = p
    BY <2>1
  <2>2. CASE q # p
    BY <1>1, <1>2, <2>2, LocalKept
  <2>3. QED
    BY <2>1, <2>2
<1>7. QED
  BY <1>3, <1>4, <1>5, <1>6 DEF HookInv

LEMMA TakeInv ==
    ASSUME HookInv, NEW p \in Procs, NEW to \in {"read", "start", "dispose"},
           TakeSlice(p), Go(p, to)
    PROVE  HookInv'
<1>1. Typed /\ Sorting /\ Slices /\ (\A q \in Procs : Local(q))
  BY DEF HookInv
<1>2. /\ at[p] = "idle" /\ mu = NoProc
      /\ slice' = [slice EXCEPT ![p] = [array |-> Len(arrays), length |-> length]]
      /\ copy' = [copy EXCEPT ![p] = Elements]
      /\ before' = [before EXCEPT ![p] = initialized]
      /\ UNCHANGED <<arrays, length, mu, cursor, registered, initialized, ext,
                     seen, ended, moved>>
      /\ at' = [at EXCEPT ![p] = to]
  BY DEF TakeSlice, ReadLock, Go
<1>3. /\ Elements \in Places /\ Len(Elements) = length
      /\ \A k \in 1..length : Elements[k] = Array[k]
      /\ Sorted(Elements) /\ IsInjective(Elements)
      /\ initialized \subseteq ToSet(Elements)
  BY <1>1, <1>2, ElementsComplete DEF Sorting
<1>4. /\ at'[p] = to /\ copy'[p] = Elements /\ before'[p] = initialized
      /\ slice'[p] = [array |-> Len(arrays), length |-> length]
      /\ \A q \in Procs : q # p => /\ at'[q] = at[q] /\ copy'[q] = copy[q]
                                   /\ before'[q] = before[q] /\ slice'[q] = slice[q]
  BY <1>1, <1>2 DEF Typed
<1>5. Len(arrays) \in Nat /\ Len(arrays) \in 1..Len(arrays) /\ length \in Nat /\ length <= Len(Array)
  BY <1>1, LastArray DEF Typed
<1>6. Typed'
  <2>1. at' \in [Procs -> Phases]
    BY <1>1, <1>2 DEF Typed, Phases
  <2>2. Array' = Array
    BY <1>2 DEF Array
  <2>3. copy' \in [Procs -> Places]
    BY <1>1, <1>2, <1>3 DEF Typed
  <2>4. slice' \in [Procs -> [array : Nat, length : Nat]]
    BY <1>1, <1>2, <1>5 DEF Typed
  <2>5. before' \in [Procs -> SUBSET Exts]
    BY <1>1, <1>2 DEF Typed
  <2>6. QED
    BY <1>1, <1>2, <2>1, <2>2, <2>3, <2>4, <2>5 DEF Typed
<1>7. Sorting'
  BY <1>1, <1>2, <1>4, ReadKeepsSorting
<1>8. Slices'
  <2> SUFFICES ASSUME NEW q \in Procs, at'[q] \in {"read", "notify"}
               PROVE  /\ slice'[q].array \in 1..Len(arrays')
                      /\ slice'[q].length <= Len(arrays'[slice'[q].array])
                      /\ q \notin moved' =>
                             /\ slice'[q].array = Len(arrays') => mu' = NoProc
                             /\ Len(copy'[q]) = slice'[q].length
                             /\ \A k \in 1..slice'[q].length :
                                    copy'[q][k] = arrays'[slice'[q].array][k]
    BY DEF Slices
  <2>1. CASE q = p
    <3>1. slice'[q].array = Len(arrays) /\ slice'[q].length = length /\ copy'[q] = Elements
      BY <1>4, <2>1
    <3>2. arrays'[slice'[q].array] = Array
      BY <1>2, <3>1 DEF Array
    <3>3. QED
      BY <1>2, <1>3, <1>5, <3>1, <3>2
  <2>2. CASE q # p
    BY <1>1, <1>2, <1>4, <2>2 DEF Slices
  <2>3. QED
    BY <2>1, <2>2
<1>9. \A q \in Procs : Local(q)'
  <2> TAKE q \in Procs
  <2>1. CASE q = p
    <3>1. seen'[p] = <<>> /\ (to \in {"read", "start"} => ended'[p] = <<>>) /\ ended'[p] = <<>>
      BY <1>1, <1>2 DEF Local
    <3>2. Complete(p, copy[p])'
      BY <1>3, <1>4 DEF Complete, Sorted
    <3>3. BackOf(seen[p], copy[p])' /\ FrontOf(seen[p], copy[p])'
      BY <1>3, <1>4, <1>5, <3>1 DEF BackOf, FrontOf
    <3>4. at'[p] \in {"read", "start", "dispose"}
      BY <1>4
    <3>5. Reader(p)' \/ at'[p] # "read"
      BY <3>2, <3>3 DEF Reader
    <3>6. Copier(p)' \/ at'[p] = "read"
      BY <3>2, <3>3, <3>4 DEF Copier
    <3>7. QED
      BY <2>1, <3>1, <3>4, <3>5, <3>6 DEF Local
  <2>2. CASE q # p
    BY <1>1, <1>2, <1>4, <2>2, LocalKept
  <2>3. QED
    BY <2>1, <2>2
<1>10. QED
  BY <1>6, <1>7, <1>8, <1>9 DEF HookInv

(* Place k of the slice p reads holds what it held when the slice was      *)
(* taken, unless elements are moved under p.                               *)
LEMMA ReadsCopy ==
    ASSUME HookInv, NEW p \in Procs, at[p] \in {"read", "notify"},
           NEW k \in 1..slice[p].length, NEW e \in Reads(p, k)
    PROVE  /\ e \in Read
           /\ p \notin moved => e = copy[p][k]
<1>1. Typed /\ Sorting /\ Slices
  BY DEF HookInv
<1>2. /\ slice[p].array \in 1..Len(arrays)
      /\ slice[p].length <= Len(arrays[slice[p].array])
      /\ p \notin moved =>
             /\ slice[p].array = Len(arrays) => mu = NoProc
             /\ \A j \in 1..slice[p].length : copy[p][j] = arrays[slice[p].array][j]
  BY <1>1 DEF Slices
<1>3. slice[p].length \in Nat
  BY <1>1 DEF Typed
<1>4. arrays[slice[p].array] \in Places /\ Len(arrays[slice[p].array]) \in Nat
  BY <1>1, <1>2, LastArray
<1>5. arrays[slice[p].array][k] \in Exts \union {NoExt}
  <2>1. k \in 1..Len(arrays[slice[p].array])
    BY <1>2, <1>3, <1>4
  <2>2. QED
    BY <1>4, <2>1 DEF Places
<1>6. e \in {arrays[slice[p].array][k], Torn}
  BY DEF Reads
<1>7. e \in Read
  BY <1>5, <1>6 DEF Read
<1>8. ASSUME p \notin moved PROVE e = copy[p][k]
  <2>1. ~(slice[p].array = Len(arrays) /\ \E q \in Procs : at[q] = "swap")
    BY <1>1, <1>2, <1>8, ExtensionsAssumption DEF Sorting
  <2>2. e = arrays[slice[p].array][k]
    BY <2>1 DEF Reads
  <2>3. QED
    BY <1>2, <1>8, <2>2
<1>9. QED
  BY <1>7, <1>8

LEMMA ReadOneInv == ASSUME HookInv, NEW p \in Procs, ReadOne(p) PROVE HookInv'
<1>1. Typed /\ Slices /\ Local(p)
  BY DEF HookInv
<1>2. /\ at[p] = "read"
      /\ UNCHANGED <<arrays, length, mu, cursor, registered, initialized, ext,
                     slice, ended, copy, before, moved>>
  BY DEF ReadOne
<1> DEFINE k == slice[p].length - Len(seen[p])
<1>3. /\ seen \in [Procs -> Seq(Read)] /\ ended \in [Procs -> Seq(Read)]
      /\ at \in [Procs -> Phases] /\ slice[p].length \in Nat /\ Len(seen[p]) \in Nat
      /\ seen[p] \in Seq(Read) /\ copy[p] \in Seq(Read) /\ ended[p] = <<>>
  <2>1. ended[p] = <<>>
    BY <1>1, <1>2 DEF Local
  <2>2. seen[p] \in Seq(Read) /\ Len(seen[p]) \in Nat
    BY <1>1 DEF Typed
  <2>3. copy[p] \in Seq(Read)
    BY <1>1 DEF Typed, Places, Read
  <2>4. QED
    BY <1>1, <2>1, <2>2, <2>3 DEF Typed
<1>4. p \notin moved => Reader(p) /\ Len(copy[p]) = slice[p].length
  BY <1>1, <1>2 DEF Slices, Local
<1>5. CASE k > 0 /\ (\E e \in Reads(p, k) : seen' = [seen EXCEPT ![p] = Append(@, e)]) /\ at' = at
  <2>1. PICK e \in Reads(p, k) : seen' = [seen EXCEPT ![p] = Append(@, e)]
    BY <1>5
  <2>2. k \in 1..slice[p].length
    BY <1>3, <1>5
  <2> HIDE DEF k
  <2>3. e \in Read /\ (p \notin moved => e = copy[p][k])
    BY <1>2, <2>2, ReadsCopy
  <2>4. seen' \in [Procs -> Seq(Read)]
    BY <1>3, <2>1, <2>3
  <2>5. seen'[p] = Append(seen[p], e) /\ at'[p] = "read"
    BY <1>2, <1>3, <1>5, <2>1
  <2>6. ASSUME p \notin moved PROVE BackOf(seen'[p], copy[p])
    <3>1. Len(copy[p]) - Len(seen[p]) = k /\ k > 0 /\ BackOf(seen[p], copy[p])
      BY <1>4, <1>5, <2>6 DEF k, Reader
    <3>2. e = copy[p][Len(copy[p]) - Len(seen[p])]
      BY <2>3, <2>6, <3>1
    <3>3. QED
      BY <1>3, <2>5, <3>1, <3>2, BackGrows
  <2>7. p \notin moved => Reader(p)'
    BY <1>2, <1>4, <2>5, <2>6 DEF Reader, Complete, Sorted, BackOf
  <2>8. Local(p)'
    BY <1>2, <1>3, <2>5, <2>7 DEF Local
  <2>9. at' = [at EXCEPT ![p] = "read"]
    BY <1>2, <1>3, <1>5
  <2>10. \A q \in Procs : q # p => seen'[q] = seen[q] /\ ended'[q] = ended[q]
    BY <1>2, <1>3, <2>1
  <2>11. QED
    BY <1>2, <1>3, <2>4, <2>8, <2>9, <2>10, ReadInv DEF Phases
<1>6. ASSUME NEW to \in {"wrapped", "notify"}, k = 0, at' = [at EXCEPT ![p] = to], seen' = seen
      PROVE  HookInv'
  <2>1. at'[p] = to
    BY <1>3, <1>6
  <2>2. p \notin moved => Len(seen[p]) = Len(copy[p])
    BY <1>3, <1>4, <1>6
  <2>3. p \notin moved => Reader(p)'
    BY <1>2, <1>3, <1>4, <1>6, <2>1, <2>2 DEF Reader, Complete, Sorted, BackOf, FrontOf
  <2>4. Local(p)'
    BY <1>2, <2>1, <2>3 DEF Local
  <2>5. QED
    BY <1>2, <1>3, <1>6, <2>4, ReadInv DEF Phases
<1>7. QED
  BY <1>5, <1>6 DEF ReadOne, Go

LEMMA NotifyInv == ASSUME HookInv, NEW p \in Procs, Notify(p) PROVE HookInv'
<1>1. Typed /\ Slices /\ Local(p)
  BY DEF HookInv
<1>2. /\ at[p] = "notify"
      /\ UNCHANGED <<arrays, length, mu, cursor, registered, initialized, ext,
                     slice, seen, copy, before, moved>>
  BY DEF Notify
<1> DEFINE k == Len(ended[p]) + 1
<1>3. /\ seen \in [Procs -> Seq(Read)] /\ ended \in [Procs -> Seq(Read)]
      /\ at \in [Procs -> Phases] /\ slice[p].length \in Nat /\ Len(ended[p]) \in Nat
      /\ ended[p] \in Seq(Read) /\ copy[p] \in Seq(Read)
  BY <1>1 DEF Typed, Places, Read
<1>4. p \notin moved => Reader(p) /\ Len(copy[p]) = slice[p].length
  BY <1>1, <1>2 DEF Slices, Local
<1>5. p \notin moved => FrontOf(ended[p], copy[p]) /\ Len(seen[p]) = Len(copy[p])
  BY <1>2, <1>4 DEF Reader
<1>6. CASE /\ k <= slice[p].length
           /\ \E e \in Reads(p, k) : ended' = [ended EXCEPT ![p] = Append(@, e)]
           /\ at' = at
  <2>1. PICK e \in Reads(p, k) : ended' = [ended EXCEPT ![p] = Append(@, e)]
    BY <1>6
  <2>2. k \in 1..slice[p].length
    BY <1>3, <1>6
  <2> HIDE DEF k
  <2>3. e \in Read /\ (p \notin moved => e = copy[p][k])
    BY <1>2, <2>2, ReadsCopy
  <2>4. ended' \in [Procs -> Seq(Read)]
    BY <1>3, <2>1, <2>3
  <2>5. ended'[p] = Append(ended[p], e) /\ at'[p] = "notify"
    BY <1>2, <1>3, <1>6, <2>1
  <2>6. ASSUME p \notin moved PROVE FrontOf(ended'[p], copy[p])
    <3>1. Len(ended[p]) + 1 = k /\ k <= Len(copy[p])
      BY <1>4, <1>6, <2>6 DEF k
    <3>2. QED
      BY <1>3, <1>5, <2>3, <2>5, <2>6, <3>1, FrontGrows
  <2>7. p \notin moved => Reader(p)'
    BY <1>2, <1>4, <2>5, <2>6 DEF Reader, Complete, Sorted, BackOf, FrontOf
  <2>8. Local(p)'
    BY <1>2, <2>5, <2>7 DEF Local
  <2>9. at' = [at EXCEPT ![p] = "notify"]
    BY <1>2, <1>3, <1>6
  <2>10. \A q \in Procs : q # p => seen'[q] = seen[q] /\ ended'[q] = ended[q]
    BY <1>2, <1>3, <2>1
  <2>11. QED
    BY <1>2, <1>3, <2>4, <2>8, <2>9, <2>10, ReadInv DEF Phases
<1>7. CASE k > slice[p].length /\ at' = [at EXCEPT ![p] = "notified"] /\ ended' = ended
  <2>1. at'[p] = "notified"
    BY <1>3, <1>7
  <2>2. p \notin moved => Len(ended[p]) = Len(copy[p])
    BY <1>3, <1>4, <1>5, <1>7 DEF FrontOf
  <2>3. p \notin moved => Reader(p)'
    BY <1>2, <1>4, <1>5, <1>7, <2>1, <2>2 DEF Reader, Complete, Sorted, BackOf, FrontOf
  <2>4. Local(p)'
    BY <1>2, <2>1, <2>3 DEF Local
  <2>5. QED
    BY <1>2, <1>3, <1>7, <2>4, ReadInv DEF Phases
<1>8. QED
  BY <1>6, <1>7 DEF Notify, Go

LEMMA FlowStartInv == ASSUME HookInv, NEW p \in Procs, FlowStart(p) PROVE HookInv'
<1>1. Typed /\ Local(p)
  BY DEF HookInv
<1>2. /\ at[p] = "start"
      /\ UNCHANGED <<arrays, length, mu, cursor, registered, initialized, ext,
                     slice, ended, copy, before, moved>>
  BY DEF FlowStart
<1> DEFINE k == Len(seen[p]) + 1
<1>3. /\ seen \in [Procs -> Seq(Read)] /\ ended \in [Procs -> Seq(Read)]
      /\ at \in [Procs -> Phases] /\ Len(seen[p]) \in Nat /\ Len(copy[p]) \in Nat
      /\ seen[p] \in Seq(Read) /\ copy[p] \in Seq(Read)
  BY <1>1 DEF Typed, Places, Read
<1>4. ended[p] = <<>> /\ Complete(p, copy[p]) /\ FrontOf(seen[p], copy[p])
  BY <1>1, <1>2 DEF Local, Copier
<1>5. CASE k <= Len(copy[p]) /\ seen' = [seen EXCEPT ![p] = Append(@, copy[p][k])] /\ at' = at
  <2>1. copy[p][k] \in Read
    BY <1>3, <1>5
  <2>2. seen' \in [Procs -> Seq(Read)]
    BY <1>3, <1>5, <2>1
  <2>3. seen'[p] = Append(seen[p], copy[p][k]) /\ at'[p] = "start"
    BY <1>2, <1>3, <1>5
  <2>4. FrontOf(seen'[p], copy[p])
    BY <1>3, <1>4, <1>5, <2>3, FrontGrows
  <2>5. Copier(p)'
    BY <1>2, <1>4, <2>3, <2>4 DEF Copier, Complete, Sorted, FrontOf
  <2>6. Local(p)'
    BY <1>2, <1>4, <2>3, <2>5 DEF Local
  <2>7. at' = [at EXCEPT ![p] = "start"]
    BY <1>2, <1>3, <1>5
  <2>8. \A q \in Procs : q # p => seen'[q] = seen[q] /\ ended'[q] = ended[q]
    BY <1>2, <1>3, <1>5
  <2>9. QED
    BY <1>2, <1>3, <2>2, <2>6, <2>7, <2>8, ReadInv DEF Phases
<1>6. CASE at' = [at EXCEPT ![p] = "failed"] /\ seen' = seen
  <2>1. Local(p)'
    BY <1>3, <1>6, Silent
  <2>2. QED
    BY <1>2, <1>3, <1>6, <2>1, ReadInv DEF Phases
<1>7. CASE k > Len(copy[p]) /\ at' = [at EXCEPT ![p] = "end"] /\ seen' = seen
  <2>1. at'[p] = "end"
    BY <1>3, <1>7
  <2>2. Len(seen[p]) = Len(copy[p]) /\ BackOf(ended[p], copy[p])
    BY <1>3, <1>4, <1>7 DEF FrontOf, BackOf
  <2>3. Copier(p)'
    BY <1>2, <1>4, <1>7, <2>1, <2>2 DEF Copier, Complete, Sorted, FrontOf, BackOf
  <2>4. Local(p)'
    BY <2>1, <2>3 DEF Local
  <2>5. QED
    BY <1>2, <1>3, <1>7, <2>4, ReadInv DEF Phases
<1>8. QED
  BY <1>5, <1>6, <1>7 DEF FlowStart, Copied, Go

LEMMA FlowEndInv == ASSUME HookInv, NEW p \in Procs, FlowEnd(p) PROVE HookInv'
<1>1. Typed /\ Local(p)
  BY DEF HookInv
<1>2. /\ at[p] = "end"
      /\ UNCHANGED <<arrays, length, mu, cursor, registered, initialized, ext,
                     slice, seen, copy, before, moved>>
  BY DEF FlowEnd
<1> DEFINE k == Len(copy[p]) - Len(ended[p])
<1>3. /\ seen \in [Procs -> Seq(Read)] /\ ended \in [Procs -> Seq(Read)]
      /\ at \in [Procs -> Phases] /\ Len(ended[p]) \in Nat /\ Len(copy[p]) \in Nat
      /\ ended[p] \in Seq(Read) /\ copy[p] \in Seq(Read)
  BY <1>1 DEF Typed, Places, Read
<1>4. /\ Complete(p, copy[p]) /\ FrontOf(seen[p], copy[p]) /\ Len(seen[p]) = Len(copy[p])
      /\ BackOf(ended[p], copy[p])
  BY <1>1, <1>2 DEF Local, Copier
<1>5. CASE k > 0 /\ ended' = [ended EXCEPT ![p] = Append(@, copy[p][k])] /\ at' = at
  <2>1. copy[p][k] \in Read
    BY <1>3, <1>5
  <2>2. ended' \in [Procs -> Seq(Read)]
    BY <1>3, <1>5, <2>1
  <2>3. ended'[p] = Append(ended[p], copy[p][k]) /\ at'[p] = "end"
    BY <1>2, <1>3, <1>5
  <2>4. BackOf(ended'[p], copy[p])
    BY <1>3, <1>4, <1>5, <2>3, BackGrows
  <2>5. Copier(p)'
    BY <1>2, <1>4, <2>3, <2>4 DEF Copier, Complete, Sorted, FrontOf, BackOf
  <2>6. Local(p)'
    BY <2>3, <2>5 DEF Local
  <2>7. at' = [at EXCEPT ![p] = "end"]
    BY <1>2, <1>3, <1>5
  <2>8. \A q \in Procs : q # p => seen'[q] = seen[q] /\ ended'[q] = ended[q]
    BY <1>2, <1>3, <1>5
  <2>9. QED
    BY <1>2, <1>3, <2>2, <2>6, <2>7, <2>8, ReadInv DEF Phases
<1>6. CASE ~(k > 0) /\ at' = [at EXCEPT ![p] = "flowed"] /\ ended' = ended
  <2>1. at'[p] = "flowed"
    BY <1>3, <1>6
  <2>2. Len(ended[p]) = Len(copy[p])
    BY <1>3, <1>4, <1>6 DEF BackOf
  <2>3. Copier(p)'
    BY <1>2, <1>4, <1>6, <2>1, <2>2 DEF Copier, Complete, Sorted, FrontOf, BackOf
  <2>4. Local(p)'
    BY <2>1, <2>3 DEF Local
  <2>5. QED
    BY <1>2, <1>3, <1>6, <2>4, ReadInv DEF Phases
<1>7. QED
  BY <1>5, <1>6 DEF FlowEnd, Copied, Go

LEMMA DisposeOneInv == ASSUME HookInv, NEW p \in Procs, DisposeOne(p) PROVE HookInv'
<1>1. Typed /\ Local(p)
  BY DEF HookInv
<1>2. /\ at[p] = "dispose"
      /\ UNCHANGED <<arrays, length, mu, cursor, registered, initialized, ext,
                     slice, ended, copy, before, moved>>
  BY DEF DisposeOne
<1> DEFINE k == Len(seen[p]) + 1
<1>3. /\ seen \in [Procs -> Seq(Read)] /\ ended \in [Procs -> Seq(Read)]
      /\ at \in [Procs -> Phases] /\ Len(seen[p]) \in Nat /\ Len(copy[p]) \in Nat
      /\ seen[p] \in Seq(Read) /\ copy[p] \in Seq(Read)
  BY <1>1 DEF Typed, Places, Read
<1>4. Complete(p, copy[p]) /\ FrontOf(seen[p], copy[p])
  BY <1>1, <1>2 DEF Local, Copier
<1>5. ASSUME NEW to \in {"dispose", "failed"}, at' = [at EXCEPT ![p] = to],
             k <= Len(copy[p]), seen' = [seen EXCEPT ![p] = Append(@, copy[p][k])]
      PROVE  HookInv'
  <2>1. copy[p][k] \in Read
    BY <1>3, <1>5
  <2>2. seen' \in [Procs -> Seq(Read)]
    BY <1>3, <1>5, <2>1
  <2>3. seen'[p] = Append(seen[p], copy[p][k]) /\ at'[p] = to
    BY <1>3, <1>5
  <2>4. FrontOf(seen'[p], copy[p])
    BY <1>3, <1>4, <1>5, <2>3, FrontGrows
  <2>5. Copier(p)' \/ to = "failed"
    BY <1>2, <1>4, <2>3, <2>4 DEF Copier, Complete, Sorted, FrontOf
  <2>6. Local(p)'
    BY <2>3, <2>5 DEF Local
  <2>7. \A q \in Procs : q # p => seen'[q] = seen[q] /\ ended'[q] = ended[q]
    BY <1>2, <1>3, <1>5
  <2>8. QED
    BY <1>2, <1>3, <1>5, <2>2, <2>6, <2>7, ReadInv DEF Phases
<1>6. CASE ~(k <= Len(copy[p])) /\ at' = [at EXCEPT ![p] = "disposed"] /\ seen' = seen
  <2>1. at'[p] = "disposed"
    BY <1>3, <1>6
  <2>2. Len(seen[p]) = Len(copy[p])
    BY <1>3, <1>4, <1>6 DEF FrontOf
  <2>3. Copier(p)'
    BY <1>2, <1>4, <1>6, <2>1, <2>2 DEF Copier, Complete, Sorted, FrontOf
  <2>4. Local(p)'
    BY <2>1, <2>3 DEF Local
  <2>5. QED
    BY <1>2, <1>3, <1>6, <2>4, ReadInv DEF Phases
<1>7. at' = at => at' = [at EXCEPT ![p] = "dispose"]
  BY <1>2, <1>3
<1>8. QED
  BY <1>5, <1>6, <1>7 DEF DisposeOne, Copied, Go

-----------------------------------------------------------------------------
LEMMA HookStart == Init => HookInv
<1> SUFFICES ASSUME Init PROVE HookInv
  OBVIOUS
<1>1. PICK n \in 0..MaxFirst : \E q \in [1..n -> Exts] :
          /\ IsInjective(q)
          /\ Sorted(q)
          /\ length = n
          /\ registered = ToSet(q)
          /\ LET size == CHOOSE k \in {0, 1, 2, 4, 8, 16} :
                     k >= n /\ \A j \in {0, 1, 2, 4, 8, 16} : j >= n => k <= j
             IN arrays = <<[ i \in 1..size |-> IF i <= n THEN q[i] ELSE NoExt ]>>
  BY DEF Init
<1>2. PICK q \in [1..n -> Exts] :
          /\ IsInjective(q)
          /\ Sorted(q)
          /\ length = n
          /\ registered = ToSet(q)
          /\ LET size == CHOOSE k \in {0, 1, 2, 4, 8, 16} :
                     k >= n /\ \A j \in {0, 1, 2, 4, 8, 16} : j >= n => k <= j
             IN arrays = <<[ i \in 1..size |-> IF i <= n THEN q[i] ELSE NoExt ]>>
  BY <1>1
<1> DEFINE size == CHOOSE k \in {0, 1, 2, 4, 8, 16} :
                     k >= n /\ \A j \in {0, 1, 2, 4, 8, 16} : j >= n => k <= j
           first == [ i \in 1..size |-> IF i <= n THEN q[i] ELSE NoExt ]
<1>3. n \in Nat /\ n <= 12 /\ size \in Nat /\ n <= size
  <2>1. n \in 0..12
    BY ExtensionsAssumption
  <2>2. \E k \in {0, 1, 2, 4, 8, 16} : k >= n /\ \A j \in {0, 1, 2, 4, 8, 16} : j >= n => k <= j
    BY <2>1
  <2>3. size \in {0, 1, 2, 4, 8, 16} /\ size >= n
    BY <2>2
  <2> HIDE DEF size
  <2>4. QED
    BY <2>1, <2>3
<1>4. arrays = <<first>>
  BY <1>2
<1> HIDE DEF size
<1>5. first \in Places /\ Len(first) = size /\ \A i \in 1..n : first[i] = q[i]
  BY <1>3 DEF Places
<1> HIDE DEF first
<1>6. Array = first /\ arrays \in Seq(Places) /\ Len(arrays) = 1
  BY <1>4, <1>5 DEF Array
<1>7. /\ mu = NoProc /\ cursor = 0 /\ initialized = registered
      /\ at = [p \in Procs |-> "idle"] /\ ext = [p \in Procs |-> NoExt]
      /\ slice = [p \in Procs |-> [array |-> 0, length |-> 0]]
      /\ seen = [p \in Procs |-> <<>>] /\ ended = [p \in Procs |-> <<>>]
      /\ copy = [p \in Procs |-> <<>>] /\ before = [p \in Procs |-> {}] /\ moved = {}
  BY DEF Init
<1>8. registered = { q[i] : i \in 1..n } /\ length = n
  BY <1>2 DEF ToSet
<1>9. Typed
  <2>1. slice \in [Procs -> [array : Nat, length : Nat]]
    BY <1>7
  <2>2. at \in [Procs -> Phases]
    BY <1>7 DEF Phases
  <2>3. copy \in [Procs -> Places]
    BY <1>7 DEF Places
  <2>4. QED
    BY <1>3, <1>5, <1>6, <1>7, <1>8, <2>1, <2>2, <2>3 DEF Typed
<1>10. InPlace(Array, length, 0)
  <2>1. DOMAIN q = 1..n /\ Len(q) = n
    BY <1>3
  <2>2. \A i, j \in 1..n : q[i] = q[j] => i = j
    BY <1>2, <2>1 DEF IsInjective
  <2>3. \A i, j \in 1..n : i < j => Order[q[i]] <= Order[q[j]]
    BY <1>2, <2>1 DEF Sorted
  <2>4. QED
    BY <1>5, <1>6, <1>8, <2>2, <2>3 DEF InPlace
<1>11. Sorting
  BY <1>7, <1>10, ExtensionsAssumption DEF Sorting
<1>12. Slices /\ \A p \in Procs : Local(p)
  BY <1>7 DEF Slices, Local
<1>13. QED
  BY <1>9, <1>11, <1>12 DEF HookInv

LEMMA HookStep == HookInv /\ [Next]_vars => HookInv'
<1> SUFFICES ASSUME HookInv, [Next]_vars PROVE HookInv'
  OBVIOUS
<1>1. CASE UNCHANGED vars
  <2>1. Typed' /\ Sorting'
    BY <1>1 DEF HookInv, vars, Typed, Sorting, Array, InPlace
  <2>2. Slices'
    BY <1>1 DEF HookInv, vars, Slices
  <2>3. \A p \in Procs : Local(p)'
    BY <1>1, LocalKept DEF HookInv, vars
  <2>4. QED
    BY <2>1, <2>2, <2>3 DEF HookInv
<1>2. CASE Next
  <2>1. PICK p \in Procs :
            \/ Use(p) \/ SwapLeft(p) \/ SwapRight(p) \/ Unlock(p) \/ InitExtension(p)
            \/ Take(p) \/ ReadOne(p) \/ Notify(p)
            \/ Copy(p) \/ FlowStart(p) \/ FlowEnd(p) \/ DisposeOne(p)
    BY <1>2 DEF Next
  <2>2. CASE Take(p) \/ Copy(p)
    BY <2>2, TakeInv DEF Take, Copy
  <2>3. QED
    BY <2>1, <2>2, UseInv, SwapLeftInv, SwapRightInv, UnlockInv, InitExtensionInv,
       ReadOneInv, NotifyInv, FlowStartInv, FlowEndInv, DisposeOneInv
<1>3. QED
  BY <1>1, <1>2

LEMMA HookAlways == Spec => []HookInv
BY HookStart, HookStep, PTL DEF Spec

(* scope.go Exec and Dispose: whatever is registered meanwhile, a flow     *)
(* runs the hooks of every extension whose registration had returned, in   *)
(* order and once each, and ends them in reverse; so does Dispose, as long *)
(* as no extension fails.                                                  *)
THEOREM HooksInOrder == Spec => []HooksPaired
<1>1. HookInv => HooksPaired
  <2> SUFFICES ASSUME HookInv, NEW p \in Procs, at[p] \in {"flowed", "disposed"}
               PROVE  Complete(p, seen[p]) /\ (at[p] = "flowed" => ended[p] = Reverse(seen[p]))
    BY DEF HooksPaired
  <2>1. seen[p] \in Seq(Read) /\ ended[p] \in Seq(Read) /\ copy[p] \in Seq(Read)
    BY DEF HookInv, Typed, Places, Read
  <2>2. /\ Complete(p, copy[p]) /\ FrontOf(seen[p], copy[p]) /\ Len(seen[p]) = Len(copy[p])
        /\ at[p] = "flowed" => BackOf(ended[p], copy[p]) /\ Len(ended[p]) = Len(copy[p])
    BY DEF HookInv, Local, Copier
  <2>3. seen[p] = copy[p]
    BY <2>1, <2>2, FrontWhole
  <2>4. at[p] = "flowed" => ended[p] = Reverse(copy[p])
    BY <2>1, <2>2, BackWhole
  <2>5. QED
    BY <2>2, <2>3, <2>4
<1>2. QED
  BY <1>1, HookAlways, PTL

(* scope.go Resolve and Update: they wrap the operation in every extension *)
(* whose registration had returned, in order and once each, and Resolve    *)
(* tells the same ones of an error, unless one is registered while they    *)
(* read and its place is in the array they read.                           *)
THEOREM ReadsInOrder == Spec => []ReadsWhole
<1>1. HookInv => ReadsWhole
  <2> SUFFICES ASSUME HookInv, NEW p \in Procs \ moved,
                      at[p] \in {"wrapped", "notify", "notified"}
               PROVE  /\ Complete(p, Reverse(seen[p]))
                      /\ at[p] = "notified" => ended[p] = Reverse(seen[p])
    BY DEF ReadsWhole
  <2>1. seen[p] \in Seq(Read) /\ ended[p] \in Seq(Read) /\ copy[p] \in Seq(Read)
    BY DEF HookInv, Typed, Places, Read
  <2>2. /\ Complete(p, copy[p]) /\ BackOf(seen[p], copy[p]) /\ Len(seen[p]) = Len(copy[p])
        /\ at[p] = "notified" => FrontOf(ended[p], copy[p]) /\ Len(ended[p]) = Len(copy[p])
    BY DEF HookInv, Local, Reader
  <2>3. Reverse(seen[p]) = copy[p]
    BY <2>1, <2>2, BackWhole
  <2>4. at[p] = "notified" => ended[p] = copy[p]
    BY <2>1, <2>2, FrontWhole
  <2>5. QED
    BY <2>2, <2>3, <2>4
<1>2. QED
  BY <1>1, HookAlways, PTL
=============================================================================
