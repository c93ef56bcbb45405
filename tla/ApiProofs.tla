------------------------------ MODULE ApiProofs ------------------------------
(***************************************************************************)
(* For any number of handlers, emails and requests: as long as no cached   *)
(* storage has been replaced, all services of http-api stand on the one    *)
(* that is cached, and no later request misses what one has reported; and  *)
(* whatever first requests did, the storage that is cached in the end      *)
(* stays.                                                                  *)
(***************************************************************************)
EXTENDS Api, TLAPS

-----------------------------------------------------------------------------
Services == {"UserService", "PostService", "StatsService"}

Cached == cache["Storage"].kind = "factory"

(* A run that has made the executor e, and one that a factory which reads  *)
(* e may have been given.                                                  *)
MadeIn(history, e, r) == r \in 1..Len(history) /\ history[r].exec = e
Made(e, r) == MadeIn(runs, e, r)

Given(e, r) == Made(e, r) /\ (e = "Storage" => Cached /\ r = cache["Storage"].run)

Items == [what : {"user", "post"}, storage : Nat, id : Nat]
Objects == [parts : Seq(Nat), users : Seq(Emails), posts : Seq(Nat)]
Requests == [at : {"idle", "resolve", "call", "add", "count"},
             kind : DOMAIN Asks \union {"none"}, service : Nat, user : Nat,
             before : SUBSET Items, missing : SUBSET Items]

Typed ==
    /\ cache \in [Executors -> S!Values]
    /\ runs \in Seq([exec : Executors, closed : Nat])
    /\ stack \in [Handlers -> Seq(S!Frames)]
    /\ calls \in Nat
    /\ \A p \in Handlers : job[p] = S!NoJob
    /\ returned \in [Handlers -> Seq(Seq(Nat))]
    /\ objects \in Seq(Objects) /\ Len(objects) = Len(runs)
    /\ request \in [Handlers -> Requests]
    /\ reported \in SUBSET Items

(* f waits for g: Resolve runs factories, a factory Gets what it reads.    *)
Waits(f, g) ==
    \/ /\ f.at = "store"
       /\ g.at = "gets" /\ g.exec = f.exec
    \/ /\ f.at = "deps" /\ f.i \in 1..Len(Dependencies[f.exec])
       /\ g.at = "gets" /\ g.exec = Dependencies[f.exec][f.i]
    \/ /\ f.at = "gets" /\ f.i \in 1..Len(Dependencies[f.exec])
       /\ g.at # "gets" /\ g.exec = Dependencies[f.exec][f.i]

(* The factory of f has been given the first n of what it reads.           *)
Has(f, parts, n) ==
    f.at = "gets" => /\ Len(parts) = n
                     /\ \A j \in 1..n : Given(Dependencies[f.exec][j], parts[j])

Runs(f, parts) ==
    /\ f.got.kind # "error"
    /\ f.at = "store" => f.got.kind = "factory" /\ Made(f.exec, f.got.run)
    /\ f.at # "store" => f.i <= Len(Dependencies[f.exec])
    /\ Has(f, parts, f.i)

Stacked(p) ==
    /\ Len(returned[p]) = Len(stack[p])
    /\ \A i \in 1..(Len(stack[p]) - 1) :
          /\ Waits(stack[p][i], stack[p][i + 1])
          /\ Has(stack[p][i], returned[p][i], stack[p][i].i - 1)
    /\ stack[p] # <<>> => Runs(stack[p][Len(stack[p])], returned[p][Len(stack[p])])

Caches == \A e \in Executors :
    \/ cache[e].kind = "none"
    \/ cache[e].kind = "factory" /\ Made(e, cache[e].run)

Founded == \A r \in 1..Len(runs) : runs[r].exec \in Services =>
    /\ Cached /\ StorageOf(r) = cache["Storage"].run
    /\ runs[r].exec = "PostService" => Made("UserService", UserServiceOf(r))

Asking(p) ==
    /\ stack[p] # <<>> => /\ request[p].at = "resolve" /\ request[p].kind # "none"
                          /\ stack[p][1].exec = Asks[request[p].kind]
                          /\ stack[p][1].at # "gets"
    /\ request[p].at \in {"call", "add", "count"} =>
           request[p].kind # "none" /\ Made(Asks[request[p].kind], request[p].service)
    /\ request[p].at = "add" => request[p].kind = "createPost"
    /\ request[p].at = "count" => request[p].kind = "stats"
    /\ request[p].before \subseteq reported
    /\ request[p].missing = {}

Kept == \A x \in reported :
    Cached /\ x \in Users(cache["Storage"].run) \union Posts(cache["Storage"].run)

ApiInv ==
    /\ Typed /\ Caches /\ Founded /\ Kept
    /\ \A p \in Handlers : Stacked(p) /\ Asking(p)

-----------------------------------------------------------------------------
LEMMA DependenciesType ==
    /\ Dependencies \in [Executors -> Seq(Executors)]
    /\ Dependencies["Storage"] = <<>>
    /\ \A e \in Services : e \in Executors /\ Len(Dependencies[e]) >= 1
                           /\ Dependencies[e][1] = "Storage"
    /\ Len(Dependencies["PostService"]) = 2 /\ Dependencies["PostService"][2] = "UserService"
BY DEF Dependencies, Executors, Services

(* What is below the top of a stack that is not empty, and the top.        *)
LEMMA StackTop ==
    ASSUME NEW F, NEW s \in Seq(F), s # <<>>
    PROVE  /\ Front(s) \in Seq(F) /\ Len(Front(s)) = Len(s) - 1
           /\ \A i \in 1..(Len(s) - 1) : Front(s)[i] = s[i]
           /\ Last(s) = s[Len(s)] /\ s[Len(s)] \in F
           /\ Len(s) \in Nat /\ Len(s) >= 1
<1> DEFINE n == Len(s) - 1
<1>1. Len(s) \in Nat /\ Len(s) > 0 /\ s[Len(s)] \in F
  OBVIOUS
<1>2. n \in Nat /\ n <= Len(s)
  BY <1>1
<1> HIDE DEF n
<1>3. SubSeq(s, 1, n) \in Seq(F) /\ Len(SubSeq(s, 1, n)) = n
  BY <1>2
<1>4. \A i \in 1..n : SubSeq(s, 1, n)[i] = s[i]
  BY <1>1, <1>2
<1>5. QED
  BY <1>1, <1>3, <1>4 DEF n, Front, Last

LEMMA Pushed ==
    ASSUME NEW F, NEW s \in Seq(F), NEW e \in F
    PROVE  /\ Append(s, e) \in Seq(F) /\ Len(Append(s, e)) = Len(s) + 1
           /\ Append(s, e)[Len(s) + 1] = e
           /\ \A i \in 1..Len(s) : Append(s, e)[i] = s[i]
           /\ Append(s, e) # <<>>
OBVIOUS

LEMMA SameTop == \A s : S!Front(s) = Front(s) /\ S!Last(s) = Last(s)
BY DEF S!Front, S!Last, Front, Last

(* The three moves of a stack, and what they leave. *)
GoesTo(s, f) == Append(S!Front(s), f)
CallsOn(s, f, g) == Append(Append(S!Front(s), f), g)
ReturnsTo(s, v) == Append(S!Front(S!Front(s)), [S!Last(S!Front(s)) EXCEPT !.got = v])

LEMMA StackGoto ==
    ASSUME NEW s \in Seq(S!Frames), s # <<>>, NEW f \in S!Frames
    PROVE  /\ GoesTo(s, f) \in Seq(S!Frames) /\ Len(GoesTo(s, f)) = Len(s)
           /\ GoesTo(s, f)[Len(s)] = f
           /\ \A i \in 1..(Len(s) - 1) : GoesTo(s, f)[i] = s[i]
<1> DEFINE r == Front(s)
<1>1. r \in Seq(S!Frames) /\ Len(r) = Len(s) - 1 /\ Len(s) \in Nat /\ Len(s) >= 1
      /\ \A i \in 1..(Len(s) - 1) : r[i] = s[i]
  BY StackTop
<1>2. GoesTo(s, f) = Append(r, f)
  BY SameTop DEF GoesTo
<1> HIDE DEF r
<1>3. /\ GoesTo(s, f) \in Seq(S!Frames) /\ Len(GoesTo(s, f)) = Len(r) + 1
      /\ GoesTo(s, f)[Len(r) + 1] = f /\ \A i \in 1..Len(r) : GoesTo(s, f)[i] = r[i]
  BY <1>1, <1>2, Pushed
<1>4. QED
  BY <1>1, <1>3

LEMMA StackInvoke ==
    ASSUME NEW s \in Seq(S!Frames), s # <<>>, NEW f \in S!Frames, NEW g \in S!Frames
    PROVE  /\ CallsOn(s, f, g) \in Seq(S!Frames) /\ Len(CallsOn(s, f, g)) = Len(s) + 1
           /\ CallsOn(s, f, g)[Len(s)] = f /\ CallsOn(s, f, g)[Len(s) + 1] = g
           /\ \A i \in 1..(Len(s) - 1) : CallsOn(s, f, g)[i] = s[i]
<1> DEFINE r == GoesTo(s, f)
           t == CallsOn(s, f, g)
<1>1. /\ r \in Seq(S!Frames) /\ Len(r) = Len(s) /\ r[Len(s)] = f
      /\ \A i \in 1..(Len(s) - 1) : r[i] = s[i]
  BY StackGoto
<1>2. Len(s) \in Nat /\ Len(s) >= 1
  BY StackTop
<1>3. t = Append(r, g)
  BY DEF GoesTo, CallsOn
<1> HIDE DEF r, t
<1>4. /\ t \in Seq(S!Frames) /\ Len(t) = Len(r) + 1 /\ t[Len(r) + 1] = g
      /\ \A i \in 1..Len(r) : t[i] = r[i]
  BY <1>1, <1>3, Pushed
<1>5. /\ t \in Seq(S!Frames) /\ Len(t) = Len(s) + 1 /\ t[Len(s)] = f /\ t[Len(s) + 1] = g
      /\ \A i \in 1..(Len(s) - 1) : t[i] = s[i]
  BY <1>1, <1>2, <1>4
<1>6. QED
  BY <1>5 DEF t

LEMMA StackReturn ==
    ASSUME NEW s \in Seq(S!Frames), s # <<>>, Len(s) # 1, NEW v \in S!Values
    PROVE  /\ ReturnsTo(s, v) \in Seq(S!Frames) /\ Len(ReturnsTo(s, v)) = Len(s) - 1
           /\ Len(s) >= 2
           /\ ReturnsTo(s, v)[Len(s) - 1] = [s[Len(s) - 1] EXCEPT !.got = v]
           /\ \A i \in 1..(Len(s) - 2) : ReturnsTo(s, v)[i] = s[i]
<1> DEFINE r == Front(s)
           f == [Last(r) EXCEPT !.got = v]
           t == ReturnsTo(s, v)
<1>1. /\ r \in Seq(S!Frames) /\ Len(r) = Len(s) - 1 /\ Len(s) \in Nat /\ Len(s) >= 1
      /\ \A i \in 1..(Len(s) - 1) : r[i] = s[i]
  BY StackTop
<1>2. t = GoesTo(r, f)
  BY SameTop DEF ReturnsTo, GoesTo
<1> HIDE DEF r, t
<1>3. r # <<>> /\ Len(s) >= 2
  BY <1>1
<1>4. Last(r) = s[Len(s) - 1] /\ Last(r) \in S!Frames
  BY <1>1, <1>3, StackTop
<1>5. f \in S!Frames
  BY <1>4 DEF S!Frames
<1>6. f = [s[Len(s) - 1] EXCEPT !.got = v]
  BY <1>4
<1> HIDE DEF f
<1>7. /\ t \in Seq(S!Frames) /\ Len(t) = Len(r) /\ t[Len(r)] = f
      /\ \A i \in 1..(Len(r) - 1) : t[i] = r[i]
  BY <1>1, <1>2, <1>3, <1>5, StackGoto
<1>8. /\ t \in Seq(S!Frames) /\ Len(t) = Len(s) - 1 /\ t[Len(s) - 1] = f
      /\ \A i \in 1..(Len(s) - 2) : t[i] = s[i]
  BY <1>1, <1>3, <1>7
<1>9. QED
  BY <1>3, <1>6, <1>8 DEF t

-----------------------------------------------------------------------------
(* What is made stays made, and the cached storage stays the cached one.   *)
Grows ==
    /\ Len(runs') \in Nat /\ Len(runs') >= Len(runs)
    /\ \A r \in 1..Len(runs) : runs'[r] = runs[r]
    /\ Cached => Cached' /\ cache'["Storage"].run = cache["Storage"].run

LEMMA Persists ==
    ASSUME Typed, Grows
    PROVE  /\ \A e, r : Made(e, r) => Made(e, r)'
           /\ \A e, r : Given(e, r) => Given(e, r)'
           /\ \A f, parts, n : Has(f, parts, n) => Has(f, parts, n)'
<1>1. Len(runs) \in Nat
  BY DEF Typed
<1>2. \A e, r : Made(e, r) => Made(e, r)'
  BY <1>1 DEF Made, MadeIn, Grows
<1>3. \A e, r : Given(e, r) => Given(e, r)'
  BY <1>2 DEF Given, Grows
<1>4. \A f, parts, n : Has(f, parts, n) => Has(f, parts, n)'
  BY <1>3 DEF Has
<1>5. QED
  BY <1>2, <1>3, <1>4

(* A stack, told by what it is after the step. *)
LEMMA StackedNext ==
    ASSUME NEW p \in Handlers, NEW s, NEW r, stack'[p] = s, returned'[p] = r,
           Len(r) = Len(s),
           \A i \in 1..(Len(s) - 1) : Waits(s[i], s[i + 1]) /\ Has(s[i], r[i], s[i].i - 1)',
           s # <<>> => Runs(s[Len(s)], r[Len(s)])'
    PROVE  Stacked(p)'
BY DEF Stacked, Runs, Has, Given, Made, MadeIn, Cached, Waits

LEMMA OtherStacked ==
    ASSUME Typed, Grows, NEW q \in Handlers, Stacked(q),
           stack'[q] = stack[q], returned'[q] = returned[q]
    PROVE  Stacked(q)'
<1>1. PICK s, r : s = stack[q] /\ r = returned[q]
  OBVIOUS
<1>2. /\ Len(r) = Len(s)
      /\ \A i \in 1..(Len(s) - 1) : Waits(s[i], s[i + 1]) /\ Has(s[i], r[i], s[i].i - 1)
      /\ s # <<>> => Runs(s[Len(s)], r[Len(s)])
  BY <1>1 DEF Stacked
<1>3. \A i \in 1..(Len(s) - 1) : Has(s[i], r[i], s[i].i - 1)'
  BY <1>2, Persists
<1>4. s # <<>> => Runs(s[Len(s)], r[Len(s)])'
  <2>1. \A f, parts : Runs(f, parts) => Runs(f, parts)'
    BY Persists DEF Runs
  <2>2. QED
    BY <1>2, <2>1
<1>5. QED
  BY <1>1, <1>2, <1>3, <1>4, StackedNext

-----------------------------------------------------------------------------
(* A step of the scope: its frames, and what has been returned to them.    *)
Moved(p) == returned' = [returned EXCEPT ![p] = Frames(p)]

(* What the frames of p are typed as. *)
LEMMA FramesOf ==
    ASSUME Typed, NEW p \in Handlers, stack[p] # <<>>
    PROVE  /\ stack[p] \in Seq(S!Frames) /\ Len(stack[p]) \in Nat /\ Len(stack[p]) >= 1
           /\ S!Top(p) = stack[p][Len(stack[p])] /\ S!Top(p) \in S!Frames
           /\ returned[p] \in Seq(Seq(Nat))
<1>1. stack[p] \in Seq(S!Frames) /\ returned[p] \in Seq(Seq(Nat))
  BY DEF Typed
<1>2. QED
  BY <1>1, StackTop, SameTop DEF S!Top

(* The frames below the top wait for the same calls. *)
SameCall(f, g) == f.exec = g.exec /\ (f.at = "gets" <=> g.at = "gets")

LEMMA BelowKept ==
    ASSUME Typed, Grows, NEW p \in Handlers, Stacked(p), NEW s, NEW r, NEW n \in Nat, NEW t,
           s = stack[p], r = returned[p], n = Len(s), n >= 1,
           \A i \in 1..(n - 1) : t[i] = s[i], SameCall(t[n], s[n])
    PROVE  \A i \in 1..(n - 1) : Waits(t[i], t[i + 1]) /\ Has(t[i], r[i], t[i].i - 1)'
<1>1. \A i \in 1..(n - 1) : Waits(s[i], s[i + 1]) /\ Has(s[i], r[i], s[i].i - 1)
  BY DEF Stacked
<1>2. TAKE i \in 1..(n - 1)
<1>3. Waits(s[i], s[i + 1]) /\ Has(s[i], r[i], s[i].i - 1)'
  BY <1>1, Persists
<1>4. t[i] = s[i] /\ SameCall(t[i + 1], s[i + 1])
  <2>1. i + 1 = n \/ i + 1 \in 1..(n - 1)
    OBVIOUS
  <2>2. QED
    BY <2>1 DEF SameCall
<1>5. \A f, g, h : Waits(f, g) /\ SameCall(h, g) => Waits(f, h)
  BY DEF Waits, SameCall
<1>6. QED
  BY <1>3, <1>4, <1>5

(* The call goes on. *)
LEMMA GotoStacked ==
    ASSUME Typed, Grows, NEW p \in Handlers, Stacked(p), stack[p] # <<>>, Moved(p),
           NEW f \in S!Frames, SameCall(f, S!Top(p)),
           NEW parts, parts = returned[p][Len(stack[p])],
           S!Goto(p, f), Runs(f, parts)'
    PROVE  /\ stack' \in [Handlers -> Seq(S!Frames)] /\ returned' = returned
           /\ \A q \in Handlers : q # p => stack'[q] = stack[q]
           /\ Len(stack'[p]) = Len(stack[p]) /\ stack'[p][Len(stack[p])] = f
           /\ \A i \in 1..(Len(stack[p]) - 1) : stack'[p][i] = stack[p][i]
           /\ Stacked(p)'
<1>1. PICK s, r, n : s = stack[p] /\ r = returned[p] /\ n = Len(stack[p])
  OBVIOUS
<1>2. /\ s \in Seq(S!Frames) /\ s # <<>> /\ n \in Nat /\ n >= 1 /\ n = Len(s) /\ Len(r) = n
      /\ SameCall(f, s[n]) /\ parts = r[n]
  BY <1>1, FramesOf DEF Stacked
<1>3. PICK t : t = GoesTo(s, f)
  OBVIOUS
<1>4. /\ t \in Seq(S!Frames) /\ Len(t) = n /\ t[n] = f
      /\ \A i \in 1..(n - 1) : t[i] = s[i]
  <2>1. /\ GoesTo(s, f) \in Seq(S!Frames) /\ Len(GoesTo(s, f)) = Len(s)
        /\ GoesTo(s, f)[Len(s)] = f
        /\ \A i \in 1..(Len(s) - 1) : GoesTo(s, f)[i] = s[i]
    BY <1>2, StackGoto
  <2>2. QED
    BY <1>2, <1>3, <2>1
<1>5. stack' = [stack EXCEPT ![p] = t]
  BY <1>1, <1>3 DEF S!Goto, GoesTo
<1>6. /\ stack' \in [Handlers -> Seq(S!Frames)] /\ stack'[p] = t
      /\ \A q \in Handlers : q # p => stack'[q] = stack[q]
  BY <1>4, <1>5 DEF Typed
<1>7. returned' = returned
  <2>1. Len(stack'[p]) = Len(stack[p]) /\ Len(stack[p]) \in Nat
    BY <1>1, <1>2, <1>4, <1>6
  <2>2. stack'[p] # <<>>
    BY <1>2, <1>4, <1>6
  <2>3. Frames(p) = returned[p]
    BY <2>1, <2>2 DEF Frames
  <2>4. QED
    BY <2>3 DEF Moved, Typed
<1>8. \A i \in 1..(n - 1) : Waits(t[i], t[i + 1]) /\ Has(t[i], r[i], t[i].i - 1)'
  BY <1>1, <1>2, <1>4, BelowKept
<1>9. Stacked(p)'
  BY <1>1, <1>2, <1>4, <1>6, <1>7, <1>8, StackedNext
<1>10. QED
  BY <1>1, <1>4, <1>6, <1>7, <1>9

(* A call is made. *)
LEMMA InvokeStacked ==
    ASSUME Typed, Grows, NEW p \in Handlers, Stacked(p), stack[p] # <<>>, Moved(p),
           NEW f \in S!Frames, NEW g \in S!Frames, SameCall(f, S!Top(p)), Waits(f, g),
           g.at \in {"load", "gets"}, g.i = 0, g.got = S!NoValue,
           NEW parts, parts = returned[p][Len(stack[p])],
           S!Invoke(p, f, g), Has(f, parts, f.i - 1)'
    PROVE  /\ stack' \in [Handlers -> Seq(S!Frames)] /\ returned' \in [Handlers -> Seq(Seq(Nat))]
           /\ \A q \in Handlers : q # p => stack'[q] = stack[q] /\ returned'[q] = returned[q]
           /\ Len(stack'[p]) = Len(stack[p]) + 1
           /\ stack'[p][Len(stack[p])] = f /\ stack'[p][Len(stack[p]) + 1] = g
           /\ \A i \in 1..(Len(stack[p]) - 1) : stack'[p][i] = stack[p][i]
           /\ Stacked(p)'
<1>1. PICK s, r, n : s = stack[p] /\ r = returned[p] /\ n = Len(stack[p])
  OBVIOUS
<1>2. /\ s \in Seq(S!Frames) /\ s # <<>> /\ n \in Nat /\ n >= 1 /\ n = Len(s) /\ Len(r) = n
      /\ SameCall(f, s[n]) /\ parts = r[n] /\ r \in Seq(Seq(Nat))
  BY <1>1, FramesOf DEF Stacked
<1>3. PICK t, u : t = CallsOn(s, f, g) /\ u = Append(r, <<>>)
  OBVIOUS
<1>4. /\ t \in Seq(S!Frames) /\ Len(t) = n + 1 /\ t[n] = f /\ t[n + 1] = g
      /\ \A i \in 1..(n - 1) : t[i] = s[i]
  <2>1. /\ CallsOn(s, f, g) \in Seq(S!Frames) /\ Len(CallsOn(s, f, g)) = Len(s) + 1
        /\ CallsOn(s, f, g)[Len(s)] = f /\ CallsOn(s, f, g)[Len(s) + 1] = g
        /\ \A i \in 1..(Len(s) - 1) : CallsOn(s, f, g)[i] = s[i]
    BY <1>2, StackInvoke
  <2>2. QED
    BY <1>2, <1>3, <2>1
<1>5. /\ u \in Seq(Seq(Nat)) /\ Len(u) = n + 1 /\ u[n + 1] = <<>>
      /\ \A i \in 1..n : u[i] = r[i]
  BY <1>2, <1>3, Pushed
<1>6. /\ stack' \in [Handlers -> Seq(S!Frames)] /\ stack'[p] = t
      /\ \A q \in Handlers : q # p => stack'[q] = stack[q]
  <2>1. stack' = [stack EXCEPT ![p] = t]
    BY <1>1, <1>3 DEF S!Invoke, CallsOn
  <2>2. QED
    BY <1>4, <2>1 DEF Typed
<1>7. /\ returned' \in [Handlers -> Seq(Seq(Nat))] /\ returned'[p] = u
      /\ \A q \in Handlers : q # p => returned'[q] = returned[q]
  <2>1. /\ Len(stack'[p]) > Len(stack[p]) /\ Len(stack'[p]) # Len(stack[p])
        /\ stack'[p] # <<>>
    BY <1>1, <1>2, <1>4, <1>6
  <2>2. Frames(p) = Append(returned[p], <<>>)
    BY <2>1 DEF Frames
  <2>3. returned' = [returned EXCEPT ![p] = u]
    BY <1>1, <1>3, <2>2 DEF Moved
  <2>4. QED
    BY <1>5, <2>3 DEF Typed
<1>8. \A i \in 1..(n - 1) : Waits(t[i], t[i + 1]) /\ Has(t[i], r[i], t[i].i - 1)'
  <2>1. SameCall(t[n], s[n]) /\ \A i \in 1..(n - 1) : t[i] = s[i]
    BY <1>2, <1>4
  <2>2. n \in Nat /\ n >= 1 /\ n = Len(s)
    BY <1>2
  <2>3. QED
    BY <1>1, <2>1, <2>2, BelowKept
<1>9. \A i \in 1..((n + 1) - 1) : Waits(t[i], t[i + 1]) /\ Has(t[i], u[i], t[i].i - 1)'
  <2> TAKE i \in 1..((n + 1) - 1)
  <2>1. CASE i = n
    BY <1>2, <1>4, <1>5, <2>1
  <2>2. CASE i \in 1..(n - 1)
    <3>1. u[i] = r[i]
      BY <1>2, <1>5, <2>2
    <3>2. QED
      BY <1>8, <2>2, <3>1
  <2>3. QED
    BY <1>2, <2>1, <2>2
<1>10. Runs(t[n + 1], u[n + 1])'
  <2>1. \A x : x = g => Runs(x, <<>>)'
    <3> SUFFICES Runs(g, <<>>)'
      OBVIOUS
    <3>1. g.got.kind # "error"
      BY DEF S!NoValue, S!Value
    <3>2. g.exec \in Executors /\ Len(Dependencies[g.exec]) \in Nat
      BY DependenciesType DEF S!Frames
    <3>3. Has(g, <<>>, g.i)'
      BY DEF Has
    <3>4. QED
      BY <3>1, <3>2, <3>3 DEF Runs
  <2>2. QED
    BY <1>4, <1>5, <2>1
<1>11. Stacked(p)'
  <2>1. n + 1 = Len(t) /\ Len(u) = Len(t)
    BY <1>4, <1>5
  <2>2. /\ \A i \in 1..(Len(t) - 1) : Waits(t[i], t[i + 1]) /\ Has(t[i], u[i], t[i].i - 1)'
        /\ Runs(t[Len(t)], u[Len(t)])'
    BY <1>9, <1>10, <2>1
  <2>3. QED
    BY <1>6, <1>7, <2>1, <2>2, StackedNext
<1>12. QED
  BY <1>1, <1>4, <1>6, <1>7, <1>11

(* A call returns to the one that waits for it. *)
LEMMA ReturnStacked ==
    ASSUME Typed, Grows, NEW p \in Handlers, Stacked(p), stack[p] # <<>>, Moved(p),
           NEW v \in S!Values, S!Return(p, v), v.kind = "factory",
           NEW f, f = S!Top(p), Made(f.exec, v.run)',
           f.at # "gets" => Given(f.exec, v.run)'
    PROVE  /\ stack' \in [Handlers -> Seq(S!Frames)] /\ returned' \in [Handlers -> Seq(Seq(Nat))]
           /\ \A q \in Handlers : q # p => stack'[q] = stack[q] /\ returned'[q] = returned[q]
           /\ Len(stack[p]) = 1 => stack'[p] = <<>>
           /\ Len(stack[p]) # 1 =>
                  /\ Len(stack'[p]) = Len(stack[p]) - 1
                  /\ \A i \in 1..(Len(stack[p]) - 1) :
                        /\ SameCall(stack'[p][i], stack[p][i])
                        /\ stack'[p][i].at = stack[p][i].at
           /\ Stacked(p)'
<1>1. PICK s, r, n : s = stack[p] /\ r = returned[p] /\ n = Len(stack[p])
  OBVIOUS
<1>2. /\ s \in Seq(S!Frames) /\ s # <<>> /\ n \in Nat /\ n >= 1 /\ n = Len(s) /\ Len(r) = n
      /\ f = s[n] /\ r \in Seq(Seq(Nat)) /\ f \in S!Frames
  BY <1>1, FramesOf DEF Stacked
<1>3. CASE n = 1
  <2>1. stack' = [stack EXCEPT ![p] = <<>>]
    BY <1>1, <1>3 DEF S!Return
  <2>2. /\ stack' \in [Handlers -> Seq(S!Frames)] /\ stack'[p] = <<>>
        /\ \A q \in Handlers : q # p => stack'[q] = stack[q]
    BY <2>1 DEF Typed
  <2>3. Len(stack'[p]) = 0 /\ Len(stack'[p]) # Len(stack[p]) /\ ~(Len(stack'[p]) > Len(stack[p]))
    BY <1>1, <1>3, <2>2
  <2>4. Frames(p) = <<>>
    BY <2>2, <2>3 DEF Frames
  <2>5. /\ returned' \in [Handlers -> Seq(Seq(Nat))] /\ returned'[p] = <<>>
        /\ \A q \in Handlers : q # p => returned'[q] = returned[q]
    BY <2>4 DEF Moved, Typed
  <2>6. Stacked(p)'
    BY <2>2, <2>5, StackedNext
  <2>7. QED
    BY <1>1, <1>3, <2>2, <2>5, <2>6
<1>4. CASE n # 1
  <2> DEFINE t == ReturnsTo(s, v)
             w == s[n - 1]
             x == [w EXCEPT !.got = v]
             m == n - 1
             parts == Append(r[m], v.run)
             u == [Front(r) EXCEPT ![m] = parts]
  <2>1. /\ t \in Seq(S!Frames) /\ Len(t) = m /\ n >= 2 /\ t[m] = x
        /\ \A i \in 1..(n - 2) : t[i] = s[i]
    BY <1>2, <1>4, StackReturn
  <2>2. m \in Nat /\ m >= 1 /\ m \in 1..n /\ m + 1 = n /\ m = Len(s) - 1
    BY <1>2, <2>1
  <2>3. w \in S!Frames /\ Waits(w, f) /\ Has(w, r[m], w.i - 1)
    <3>1. \A i \in 1..(n - 1) : Waits(s[i], s[i + 1]) /\ Has(s[i], r[i], s[i].i - 1)
      BY <1>1, <1>2 DEF Stacked
    <3>2. m \in 1..(n - 1)
      BY <1>2, <2>2
    <3>3. Waits(s[m], s[m + 1]) /\ Has(s[m], r[m], s[m].i - 1)
      BY <3>1, <3>2
    <3>4. s[m + 1] = f
      BY <1>2, <2>2
    <3>5. s[m] \in S!Frames
      BY <1>2, <2>2
    <3>6. QED
      BY <3>3, <3>4, <3>5
  <2>4. x \in S!Frames /\ x.got = v /\ x.exec = w.exec /\ x.at = w.at /\ x.i = w.i
    BY <2>3 DEF S!Frames
  <2>5. v.run \in Nat
    BY DEF S!Values
  <2>6. /\ u \in Seq(Seq(Nat)) /\ Len(u) = m /\ u[m] = parts
        /\ \A i \in 1..(m - 1) : u[i] = r[i]
    <3>1. r # <<>>
      BY <1>2
    <3>2. /\ Front(r) \in Seq(Seq(Nat)) /\ Len(Front(r)) = m
          /\ \A i \in 1..m : Front(r)[i] = r[i]
      BY <1>2, <3>1, StackTop
    <3>3. r[m] \in Seq(Nat)
      BY <1>2, <2>2
    <3>4. parts \in Seq(Nat)
      BY <2>5, <3>3
    <3> HIDE DEF parts
    <3>5. QED
      BY <2>2, <3>2, <3>4
  <2>7. stack' = [stack EXCEPT ![p] = t]
    BY <1>1, <1>4 DEF S!Return, ReturnsTo
  <2> HIDE DEF t, x, u, parts, m
  <2>8. /\ stack' \in [Handlers -> Seq(S!Frames)] /\ stack'[p] = t
        /\ \A q \in Handlers : q # p => stack'[q] = stack[q]
    BY <2>1, <2>7 DEF Typed
  <2>9. /\ returned' \in [Handlers -> Seq(Seq(Nat))] /\ returned'[p] = u
        /\ \A q \in Handlers : q # p => returned'[q] = returned[q]
    <3>1. /\ stack'[p] # <<>> /\ ~(Len(stack'[p]) > Len(stack[p]))
          /\ Len(stack'[p]) # Len(stack[p])
      BY <1>1, <1>2, <2>1, <2>2, <2>8
    <3>2. Last(stack'[p]) = x
      BY <2>1, <2>8 DEF Last
    <3>3. Frames(p) = [Front(returned[p]) EXCEPT ![Len(stack[p]) - 1] = Append(@, x.got.run)]
      BY <3>1, <3>2 DEF Frames
    <3>4. Front(r)[m] = r[m] /\ m \in DOMAIN Front(r)
      <4>1. r # <<>>
        BY <1>2
      <4>2. /\ Front(r) \in Seq(Seq(Nat)) /\ Len(Front(r)) = Len(r) - 1
            /\ \A i \in 1..(Len(r) - 1) : Front(r)[i] = r[i]
        BY <1>2, <4>1, StackTop
      <4>3. QED
        BY <1>2, <2>2, <4>2 DEF m
    <3>5. Frames(p) = u
      BY <1>1, <2>4, <3>3, <3>4 DEF u, parts, m
    <3>6. QED
      BY <2>6, <3>5 DEF Moved, Typed
  <2>10. SameCall(x, w)
    BY <2>4 DEF SameCall
  <2>11. \A i \in 1..(m - 1) : Waits(t[i], t[i + 1]) /\ Has(t[i], u[i], t[i].i - 1)'
    <3>1. \A i \in 1..(n - 1) : Waits(s[i], s[i + 1]) /\ Has(s[i], r[i], s[i].i - 1)
      BY <1>1, <1>2 DEF Stacked
    <3> TAKE i \in 1..(m - 1)
    <3>2. Waits(s[i], s[i + 1]) /\ Has(s[i], r[i], s[i].i - 1)'
      BY <2>2, <3>1, Persists
    <3>3. t[i] = s[i] /\ u[i] = r[i]
      <4>1. i \in 1..(n - 2)
        BY <2>2
      <4>2. QED
        BY <2>1, <2>6, <4>1
    <3>4. SameCall(t[i + 1], s[i + 1])
      <4>1. i + 1 = m \/ i + 1 \in 1..(n - 2)
        BY <2>2
      <4>2. m = n - 1
        BY <2>2
      <4>3. QED
        BY <2>1, <2>10, <4>1, <4>2 DEF SameCall
    <3>5. \A a, b, c : Waits(a, b) /\ SameCall(c, b) => Waits(a, c)
      BY DEF Waits, SameCall
    <3>6. QED
      BY <3>2, <3>3, <3>4, <3>5
  <2>12. Runs(x, parts)'
    <3>1. w.exec \in Executors /\ Len(Dependencies[w.exec]) \in Nat
      BY <2>3, DependenciesType DEF S!Frames
    <3>2. x.at = "store" => Made(x.exec, v.run)'
      BY <2>3, <2>4 DEF Waits
    <3>3. x.at # "store" => x.i <= Len(Dependencies[x.exec])
      BY <2>3, <2>4, <3>1 DEF Waits
    <3>4. ASSUME x.at = "gets" PROVE Has(x, parts, x.i)'
      <4>1. /\ w.i \in 1..Len(Dependencies[w.exec]) /\ f.exec = Dependencies[w.exec][w.i]
            /\ f.at # "gets"
        BY <2>3, <2>4, <3>4 DEF Waits
      <4>2. Has(w, r[m], w.i - 1)'
        BY <2>3, Persists
      <4>3. Given(f.exec, v.run)'
        BY <4>1
      <4>4. r[m] \in Seq(Nat)
        BY <1>2, <2>2
      <4>5. Len(r[m]) = w.i - 1 /\ \A j \in 1..(w.i - 1) : Given(Dependencies[w.exec][j], r[m][j])'
        BY <2>4, <3>4, <4>2 DEF Has
      <4>6. /\ Len(parts) = Len(r[m]) + 1 /\ parts[Len(r[m]) + 1] = v.run
            /\ \A j \in 1..Len(r[m]) : parts[j] = r[m][j]
        BY <2>5, <4>4, Pushed DEF parts
      <4>7. \A j \in 1..w.i : Given(Dependencies[w.exec][j], parts[j])'
        <5> TAKE j \in 1..w.i
        <5>1. CASE j = w.i
          BY <3>1, <4>1, <4>3, <4>5, <4>6, <5>1 DEF Given, Made, MadeIn
        <5>2. CASE j # w.i
          <6>1. j \in 1..(w.i - 1)
            BY <3>1, <4>1, <5>2
          <6>2. QED
            BY <4>5, <4>6, <6>1 DEF Given, Made, MadeIn
        <5>3. QED
          BY <5>1, <5>2
      <4>8. Len(parts) = w.i
        BY <2>3, <4>1, <4>5, <4>6 DEF S!Frames
      <4>9. x.i = w.i /\ x.exec = w.exec
        BY <2>3, <2>4 DEF S!Frames
      <4>10. QED
        BY <4>7, <4>8, <4>9 DEF Has
    <3>5. QED
      BY <2>4, <3>2, <3>3, <3>4 DEF Runs, Has
  <2>13. Stacked(p)'
    <3>1. Len(u) = Len(t) /\ m = Len(t)
      BY <2>1, <2>6
    <3>2. /\ \A i \in 1..(Len(t) - 1) : Waits(t[i], t[i + 1]) /\ Has(t[i], u[i], t[i].i - 1)'
          /\ Runs(t[Len(t)], u[Len(t)])'
      BY <2>1, <2>6, <2>11, <2>12, <3>1
    <3>3. QED
      BY <2>8, <2>9, <3>1, <3>2, StackedNext
  <2>14. \A i \in 1..(n - 1) : SameCall(t[i], s[i]) /\ t[i].at = s[i].at
    <3> TAKE i \in 1..(n - 1)
    <3>1. CASE i = n - 1
      BY <2>1, <2>4, <2>10, <3>1 DEF m
    <3>2. CASE i \in 1..(n - 2)
      BY <2>1, <3>2 DEF SameCall
    <3>3. QED
      BY <1>2, <3>1, <3>2
  <2>15. QED
    BY <1>1, <1>4, <2>1, <2>2, <2>8, <2>9, <2>13, <2>14 DEF m
<1>5. QED
  BY <1>3, <1>4

-----------------------------------------------------------------------------
(* Serve: the scope goes one step on for a handler.                        *)
(* Nothing is updated, released or disposed, and no factory fails. *)
LEMMA ServeSteps ==
    ASSUME ApiInv, NEW p \in Handlers, S!Step(p)
    PROVE  /\ stack[p] # <<>>
           /\ \/ S!Load(p) \/ S!Link(p) \/ S!PreResolve(p) \/ S!StoreValue(p)
              \/ S!FactoryGet(p) \/ S!FactoryDone(p)
<1>1. job[p].at = "idle"
  BY DEF ApiInv, Typed, S!NoJob
<1>2. ~S!FactoryFail(p)
  <2>1. stack[p] # <<>> => S!Top(p).got.kind # "error"
    BY FramesOf DEF ApiInv, Stacked, Runs
  <2>2. QED
    BY <2>1 DEF S!FactoryFail, S!At
<1>3. /\ \A e : ~S!UpdateSelf(p, e) /\ ~S!UpdateDependent(p, e) /\ ~S!UpdateStore(p, e)
      /\ \A e : ~S!UpdateDelete(p, e) /\ ~S!DisposeRun(p, e)
      /\ ~S!UpdateCancelled(p)
  BY <1>1 DEF S!UpdateSelf, S!UpdateDependent, S!UpdateStore, S!UpdateDelete, S!DisposeRun,
     S!UpdateCancelled
<1>4. \/ S!Load(p) \/ S!Link(p) \/ S!PreResolve(p) \/ S!StoreValue(p)
      \/ S!FactoryGet(p) \/ S!FactoryDone(p)
  BY <1>2, <1>3 DEF S!Step
<1>5. QED
  BY <1>4 DEF S!Load, S!Link, S!PreResolve, S!StoreValue, S!FactoryGet, S!FactoryDone, S!At

(* The top frame of a handler. *)
LEMMA TopRuns ==
    ASSUME ApiInv, NEW p \in Handlers, stack[p] # <<>>
    PROVE  /\ S!Top(p) \in S!Frames /\ S!Top(p).exec \in Executors /\ S!Top(p).i \in Nat
           /\ S!Top(p).got \in S!Values /\ S!Top(p).got.kind # "error"
           /\ S!Top(p).data \in SUBSET S!Versions
           /\ Runs(S!Top(p), returned[p][Len(stack[p])])
           /\ Len(Dependencies[S!Top(p).exec]) \in Nat
           /\ \A j \in 1..Len(Dependencies[S!Top(p).exec]) :
                  Dependencies[S!Top(p).exec][j] \in Executors
<1>1. S!Top(p) = stack[p][Len(stack[p])] /\ S!Top(p) \in S!Frames
  BY FramesOf DEF ApiInv
<1>2. Runs(S!Top(p), returned[p][Len(stack[p])])
  BY <1>1 DEF ApiInv, Stacked
<1>3. S!Top(p).exec \in Executors
  BY <1>1 DEF S!Frames
<1>4. Dependencies[S!Top(p).exec] \in Seq(Executors)
  BY <1>3, DependenciesType
<1>5. QED
  BY <1>1, <1>2, <1>3, <1>4 DEF Runs, S!Frames

(* What is cached and stored is left alone. *)
LEMMA SameStore ==
    ASSUME Typed, Caches, Founded, Kept, UNCHANGED <<cache, runs, objects, reported>>
    PROVE  Grows /\ Caches' /\ Founded' /\ Kept'
<1>1. Grows
  BY DEF Grows, Typed, Cached
<1>2. Caches'
  BY DEF Caches, Made, MadeIn
<1>3. Founded'
  BY DEF Founded, Made, MadeIn, Cached, StorageOf, UserServiceOf
<1>4. Kept'
  BY DEF Kept, Cached, Users, Posts, User, Post
<1>5. QED
  BY <1>1, <1>2, <1>3, <1>4

(* The rest of a step: the handler goes on resolving, or has its service.  *)
LEMMA ServeRest ==
    ASSUME ApiInv, NEW p \in Handlers, stack[p] # <<>>, Grows, reported' = reported, job' = job,
           request' = (IF stack'[p] # <<>> THEN request
                       ELSE [request EXCEPT ![p].at = "call", ![p].service = Resolved(p)]),
           cache' \in [Executors -> S!Values], runs' \in Seq([exec : Executors, closed : Nat]),
           stack' \in [Handlers -> Seq(S!Frames)], calls' = calls,
           returned' \in [Handlers -> Seq(Seq(Nat))],
           objects' \in Seq(Objects), Len(objects') = Len(runs'),
           Caches', Founded', Kept', Stacked(p)',
           \A q \in Handlers : q # p => stack'[q] = stack[q] /\ returned'[q] = returned[q],
           NEW e, e = stack[p][1].exec,
           stack'[p] # <<>> => stack'[p][1].exec = e /\ stack'[p][1].at # "gets",
           NEW service \in Nat,
           stack'[p] = <<>> => service = Resolved(p) /\ Made(e, service)'
    PROVE  ApiInv'
<1>1. Typed /\ (\A q \in Handlers : Stacked(q) /\ Asking(q))
  BY DEF ApiInv
<1>2. /\ request \in [Handlers -> Requests] /\ request[p].at = "resolve"
      /\ request[p].kind # "none" /\ e = Asks[request[p].kind]
      /\ request[p].before \subseteq reported /\ request[p].missing = {}
      /\ request[p].kind \in DOMAIN Asks
  BY <1>1 DEF Asking, Typed, Requests
<1>3. CASE stack'[p] # <<>>
  <2>1. request' = request
    BY <1>3
  <2>2. Typed'
    BY <1>1, <2>1 DEF Typed
  <2>3. \A q \in Handlers : Asking(q)'
    <3> TAKE q \in Handlers
    <3>1. \A x, r : Made(x, r) => Made(x, r)'
      BY <1>1, Persists
    <3>2. CASE q = p
      BY <1>1, <1>2, <1>3, <2>1, <3>1, <3>2 DEF Asking
    <3>3. CASE q # p
      BY <1>1, <2>1, <3>1, <3>3 DEF Asking
    <3>4. QED
      BY <3>2, <3>3
  <2>4. \A q \in Handlers : Stacked(q)'
    BY <1>1, OtherStacked
  <2>5. QED
    BY <2>2, <2>3, <2>4 DEF ApiInv
<1>4. CASE stack'[p] = <<>>
  <2> DEFINE asks == [request[p] EXCEPT !.at = "call", !.service = service]
  <2>1. request' = [request EXCEPT ![p] = asks]
    BY <1>2, <1>4
  <2>2. /\ asks \in Requests /\ asks.at = "call" /\ asks.kind = request[p].kind
        /\ asks.service = service /\ asks.before = request[p].before
        /\ asks.missing = {}
    BY <1>2 DEF Requests
  <2> HIDE DEF asks
  <2>3. /\ request' \in [Handlers -> Requests] /\ request'[p] = asks
        /\ \A q \in Handlers : q # p => request'[q] = request[q]
    BY <1>2, <2>1, <2>2
  <2>4. Typed'
    BY <1>1, <2>3 DEF Typed
  <2>5. \A q \in Handlers : Asking(q)'
    <3> TAKE q \in Handlers
    <3>1. CASE q = p
      BY <1>2, <1>4, <2>2, <2>3, <3>1 DEF Asking
    <3>2. CASE q # p
      <4>1. \A x, r : Made(x, r) => Made(x, r)'
        BY <1>1, Persists
      <4>2. QED
        BY <1>1, <2>3, <3>2, <4>1 DEF Asking
    <3>3. QED
      BY <3>1, <3>2
  <2>6. \A q \in Handlers : Stacked(q)'
    BY <1>1, OtherStacked
  <2>7. QED
    BY <2>4, <2>5, <2>6 DEF ApiInv
<1>5. QED
  BY <1>3, <1>4

(* What a step of the scope leaves to be shown, as it was before. *)
LEMMA Serving ==
    ASSUME ApiInv, NEW p \in Handlers, stack[p] # <<>>
    PROVE  /\ Typed /\ Caches /\ Founded /\ Kept /\ Stacked(p)
           /\ stack[p] \in Seq(S!Frames) /\ Len(stack[p]) \in Nat /\ Len(stack[p]) >= 1
           /\ S!Top(p) = stack[p][Len(stack[p])] /\ S!Top(p) \in S!Frames
           /\ stack[p][1].at # "gets"
<1>1. /\ stack[p] \in Seq(S!Frames) /\ Len(stack[p]) \in Nat /\ Len(stack[p]) >= 1
      /\ S!Top(p) = stack[p][Len(stack[p])] /\ S!Top(p) \in S!Frames
  BY FramesOf DEF ApiInv
<1>2. stack[p][1].at # "gets"
  BY DEF ApiInv, Asking
<1>3. QED
  BY <1>1, <1>2 DEF ApiInv

(* A step that changes no more than the stack. *)
Quietly == UNCHANGED <<cache, runs, job, calls>>

LEMMA QuietStep ==
    ASSUME ApiInv, NEW p \in Handlers, stack[p] # <<>>, Serve(p), Quietly
    PROVE  /\ Grows /\ Caches' /\ Founded' /\ Kept' /\ Cached' = Cached
           /\ objects' = objects /\ reported' = reported /\ Moved(p)
           /\ cache' \in [Executors -> S!Values]
           /\ runs' \in Seq([exec : Executors, closed : Nat])
           /\ objects' \in Seq(Objects) /\ Len(objects') = Len(runs')
<1>1. objects' = objects /\ reported' = reported /\ Moved(p)
  BY DEF Serve, Quietly, Moved
<1>2. Grows /\ Caches' /\ Founded' /\ Kept'
  BY <1>1, SameStore DEF ApiInv, Quietly
<1>3. Cached' = Cached
  BY DEF Quietly, Cached
<1>4. QED
  BY <1>1, <1>2, <1>3 DEF ApiInv, Typed, Quietly

LEMMA GotoInv ==
    ASSUME ApiInv, NEW p \in Handlers, stack[p] # <<>>, Serve(p), Quietly,
           NEW g \in S!Frames, SameCall(g, S!Top(p)), S!Goto(p, g),
           Runs(g, returned[p][Len(stack[p])])
    PROVE  ApiInv'
<1>1. PICK n, t, parts, e : /\ n = Len(stack[p]) /\ t = stack'[p]
                            /\ parts = returned[p][Len(stack[p])] /\ e = stack[p][1].exec
  OBVIOUS
<1>2. /\ Grows /\ Caches' /\ Founded' /\ Kept' /\ Cached' = Cached
      /\ reported' = reported /\ Moved(p)
      /\ cache' \in [Executors -> S!Values]
      /\ runs' \in Seq([exec : Executors, closed : Nat])
      /\ objects' \in Seq(Objects) /\ Len(objects') = Len(runs')
  BY QuietStep
<1>3. Runs(g, parts)'
  <2>1. Runs(g, parts)
    BY <1>1
  <2>2. Typed
    BY DEF ApiInv
  <2>3. QED
    BY <1>2, <2>1, <2>2, Persists DEF Runs
<1>4. /\ stack' \in [Handlers -> Seq(S!Frames)] /\ returned' = returned
      /\ \A q \in Handlers : q # p => stack'[q] = stack[q]
      /\ Len(t) = n /\ t[n] = g
      /\ \A i \in 1..(n - 1) : t[i] = stack[p][i]
      /\ Stacked(p)'
  <2>1. Typed /\ Stacked(p)
    BY DEF ApiInv
  <2>2. QED
    BY <1>1, <1>2, <1>3, <2>1, GotoStacked
<1>5. /\ n \in Nat /\ n >= 1 /\ S!Top(p) = stack[p][n] /\ stack[p][1].at # "gets"
  BY <1>1, Serving
<1>6. t # <<>> /\ t[1].exec = e /\ t[1].at # "gets"
  <2>1. Len(t) # Len(<<>>)
    BY <1>4, <1>5
  <2>2. CASE n = 1
    <3>1. t[1] = g /\ SameCall(g, stack[p][1])
      BY <1>4, <1>5, <2>2
    <3>2. QED
      BY <1>1, <1>5, <2>1, <3>1 DEF SameCall
  <2>3. CASE n # 1
    <3>1. t[1] = stack[p][1]
      BY <1>4, <1>5, <2>3
    <3>2. QED
      BY <1>1, <1>5, <2>1, <3>1
  <2>4. QED
    BY <2>2, <2>3
<1>7. /\ request' = (IF stack'[p] # <<>> THEN request
                      ELSE [request EXCEPT ![p].at = "call", ![p].service = Resolved(p)])
      /\ job' = job /\ calls' = calls
  BY DEF Serve, Quietly
<1>8. returned' \in [Handlers -> Seq(Seq(Nat))] /\ \A q \in Handlers : returned'[q] = returned[q]
  BY <1>4 DEF ApiInv, Typed
<1>9. 0 \in Nat
  OBVIOUS
<1>10. QED
  BY <1>1, <1>2, <1>4, <1>6, <1>7, <1>8, <1>9, ServeRest

LEMMA InvokeInv ==
    ASSUME ApiInv, NEW p \in Handlers, stack[p] # <<>>, Serve(p), Quietly,
           NEW f \in S!Frames, NEW g \in S!Frames, SameCall(f, S!Top(p)), Waits(f, g),
           g.at \in {"load", "gets"}, g.i = 0, g.got = S!NoValue,
           S!Invoke(p, f, g), Has(f, returned[p][Len(stack[p])], f.i - 1)
    PROVE  ApiInv'
<1>1. PICK n, t, parts, e : /\ n = Len(stack[p]) /\ t = stack'[p]
                            /\ parts = returned[p][Len(stack[p])] /\ e = stack[p][1].exec
  OBVIOUS
<1>2. /\ Grows /\ Caches' /\ Founded' /\ Kept' /\ Cached' = Cached
      /\ reported' = reported /\ Moved(p)
      /\ cache' \in [Executors -> S!Values]
      /\ runs' \in Seq([exec : Executors, closed : Nat])
      /\ objects' \in Seq(Objects) /\ Len(objects') = Len(runs')
  BY QuietStep
<1>3. Has(f, parts, f.i - 1)'
  <2>1. Has(f, parts, f.i - 1) /\ Typed
    BY <1>1 DEF ApiInv
  <2>2. QED
    BY <1>2, <2>1, Persists
<1>4. /\ stack' \in [Handlers -> Seq(S!Frames)] /\ returned' \in [Handlers -> Seq(Seq(Nat))]
      /\ \A q \in Handlers : q # p => stack'[q] = stack[q] /\ returned'[q] = returned[q]
      /\ Len(t) = n + 1 /\ t[n] = f /\ t[n + 1] = g
      /\ \A i \in 1..(n - 1) : t[i] = stack[p][i]
      /\ Stacked(p)'
  <2>1. Typed /\ Stacked(p)
    BY DEF ApiInv
  <2>2. QED
    BY <1>1, <1>2, <1>3, <2>1, InvokeStacked
<1>5. /\ n \in Nat /\ n >= 1 /\ S!Top(p) = stack[p][n] /\ stack[p][1].at # "gets"
  BY <1>1, Serving
<1>6. t # <<>> /\ t[1].exec = e /\ t[1].at # "gets"
  <2>1. Len(t) # Len(<<>>)
    BY <1>4, <1>5
  <2>2. CASE n = 1
    <3>1. t[1] = f /\ SameCall(f, stack[p][1])
      BY <1>4, <1>5, <2>2
    <3>2. QED
      BY <1>1, <1>5, <2>1, <3>1 DEF SameCall
  <2>3. CASE n # 1
    <3>1. t[1] = stack[p][1]
      BY <1>4, <1>5, <2>3
    <3>2. QED
      BY <1>1, <1>5, <2>1, <3>1
  <2>4. QED
    BY <2>2, <2>3
<1>7. /\ request' = (IF stack'[p] # <<>> THEN request
                      ELSE [request EXCEPT ![p].at = "call", ![p].service = Resolved(p)])
      /\ job' = job /\ calls' = calls
  BY DEF Serve, Quietly
<1>8. 0 \in Nat
  OBVIOUS
<1>9. QED
  BY <1>1, <1>2, <1>4, <1>6, <1>7, <1>8, ServeRest

(* A value that is returned, together with whatever else the step did.     *)
LEMMA ReturnInv ==
    ASSUME ApiInv, NEW p \in Handlers, stack[p] # <<>>, Serve(p), Grows, Caches', Founded', Kept',
           job' = job, calls' = calls,
           cache' \in [Executors -> S!Values],
           runs' \in Seq([exec : Executors, closed : Nat]),
           objects' \in Seq(Objects), Len(objects') = Len(runs'),
           NEW v \in S!Values, S!Return(p, v), v.kind = "factory",
           NEW f, f = S!Top(p), Made(f.exec, v.run)',
           f.at # "gets" => Given(f.exec, v.run)',
           f.at # "gets" => v.run = Resolved(p)
    PROVE  ApiInv'
<1>1. PICK n, t, e : n = Len(stack[p]) /\ t = stack'[p] /\ e = stack[p][1].exec
  OBVIOUS
<1>2. Typed /\ Stacked(p) /\ Moved(p) /\ reported' = reported
  BY DEF ApiInv, Serve, Moved
<1>3. /\ n \in Nat /\ n >= 1 /\ f = stack[p][n] /\ stack[p][1].at # "gets"
  BY <1>1, Serving
<1>4. /\ stack' \in [Handlers -> Seq(S!Frames)] /\ returned' \in [Handlers -> Seq(Seq(Nat))]
      /\ \A q \in Handlers : q # p => stack'[q] = stack[q] /\ returned'[q] = returned[q]
      /\ n = 1 => t = <<>>
      /\ n # 1 => /\ Len(t) = n - 1
                  /\ \A i \in 1..(n - 1) :
                        SameCall(t[i], stack[p][i]) /\ t[i].at = stack[p][i].at
      /\ Stacked(p)'
  BY <1>1, <1>2, ReturnStacked
<1>5. t # <<>> => t[1].exec = e /\ t[1].at # "gets"
  <2>1. CASE n = 1
    BY <1>4, <2>1
  <2>2. CASE n # 1
    <3>1. 1 \in 1..(n - 1)
      BY <1>3, <2>2
    <3>2. SameCall(t[1], stack[p][1])
      BY <1>4, <2>2, <3>1
    <3>3. QED
      BY <1>1, <1>3, <3>2 DEF SameCall
  <2>3. QED
    BY <2>1, <2>2
<1>6. v.run \in Nat /\ (t = <<>> => v.run = Resolved(p) /\ Made(e, v.run)')
  <2>1. v.run \in Nat
    BY DEF S!Values
  <2>2. ASSUME t = <<>> PROVE v.run = Resolved(p) /\ Made(e, v.run)'
    <3>1. n = 1
      <4>1. ASSUME n # 1 PROVE FALSE
        <5>1. Len(t) = 0
          BY <2>2
        <5>2. n - 1 = 0
          BY <1>4, <4>1, <5>1
        <5>3. QED
          BY <1>3, <4>1, <5>2
      <4>2. QED
        BY <4>1
    <3>2. f.at # "gets" /\ f.exec = e
      BY <1>1, <1>3, <3>1
    <3>3. QED
      BY <3>2
  <2>3. QED
    BY <2>1, <2>2
<1>7. request' = (IF stack'[p] # <<>> THEN request
                  ELSE [request EXCEPT ![p].at = "call", ![p].service = Resolved(p)])
  BY DEF Serve
<1>8. QED
  BY <1>1, <1>2, <1>4, <1>5, <1>6, <1>7, ServeRest

-----------------------------------------------------------------------------
(* The steps of the scope, one by one.                                     *)
LEMMA LoadInv ==
    ASSUME ApiInv, NEW p \in Handlers, Serve(p), S!Load(p) PROVE ApiInv'
<1>1. stack[p] # <<>> /\ S!Top(p).at = "load" /\ Quietly
  BY DEF S!Load, S!At, Quietly
<1>2. PICK f, e : f = S!Top(p) /\ e = f.exec
  OBVIOUS
<1>3. f \in S!Frames /\ e \in Executors /\ f.got.kind # "error"
  BY <1>1, <1>2, TopRuns
<1>4. CASE cache[e].kind = "none"
  <2>1. PICK g : g = [f EXCEPT !.at = "link"]
    OBVIOUS
  <2>2. S!Goto(p, g)
    BY <1>2, <1>4, <2>1 DEF S!Load
  <2>3. g \in S!Frames /\ g.exec = e /\ g.at = "link" /\ g.got = f.got
      /\ g.i = f.i
    BY <1>2, <1>3, <2>1 DEF S!Frames
  <2>4. SameCall(g, S!Top(p))
    BY <1>1, <1>2, <2>3 DEF SameCall
  <2>5. Runs(g, returned[p][Len(stack[p])])
    <3>1. f.i <= Len(Dependencies[e])
      BY <1>1, <1>2, TopRuns DEF Runs
    <3>2. QED
      BY <1>3, <2>3, <3>1 DEF Runs, Has
  <2>6. QED
    BY <1>1, <2>2, <2>3, <2>4, <2>5, GotoInv
<1>5. CASE cache[e].kind # "none"
  <2>1. PICK v : v = cache[e]
    OBVIOUS
  <2>2. S!Return(p, v)
    BY <1>2, <1>5, <2>1 DEF S!Load
  <2>3. v \in S!Values /\ v.kind = "factory" /\ Made(e, v.run)
    BY <1>3, <1>5, <2>1 DEF ApiInv, Typed, Caches
  <2>4. Given(e, v.run)
    BY <2>1, <2>3 DEF Given, Cached
  <2>5. /\ Grows /\ Caches' /\ Founded' /\ Kept' /\ Cached' = Cached
        /\ cache' \in [Executors -> S!Values]
        /\ runs' \in Seq([exec : Executors, closed : Nat])
        /\ objects' \in Seq(Objects) /\ Len(objects') = Len(runs')
    BY <1>1, QuietStep
  <2>6. Made(e, v.run)' /\ Given(e, v.run)'
    <3>1. Typed
      BY DEF ApiInv
    <3>2. QED
      BY <2>3, <2>4, <2>5, <3>1, Persists
  <2>7. v.run = Resolved(p)
    BY <1>1, <1>2, <2>1 DEF Resolved, S!At
  <2>8. job' = job /\ calls' = calls
    BY <1>1 DEF Quietly
  <2>9. Made(f.exec, v.run)' /\ Given(f.exec, v.run)'
    BY <1>2, <2>6
  <2>10. QED
    BY <1>1, <1>2, <2>2, <2>3, <2>5, <2>7, <2>8, <2>9, ReturnInv
<1>6. QED
  BY <1>4, <1>5

LEMMA LinkInv ==
    ASSUME ApiInv, NEW p \in Handlers, Serve(p), S!Link(p) PROVE ApiInv'
<1>1. stack[p] # <<>> /\ S!Top(p).at = "link" /\ Quietly
  BY DEF S!Link, S!At, Quietly
<1>2. PICK f, e : f = S!Top(p) /\ e = f.exec
  OBVIOUS
<1>3. f \in S!Frames /\ e \in Executors /\ f.got.kind # "error"
      /\ Len(Dependencies[e]) \in Nat
  BY <1>1, <1>2, TopRuns
<1>4. PICK g : g = [f EXCEPT !.at = "deps"]
  OBVIOUS
<1>5. S!Goto(p, g)
  BY <1>2, <1>4 DEF S!Link
<1>6. /\ g \in S!Frames /\ g.exec = e /\ g.at = "deps" /\ g.got = f.got /\ g.i = f.i
  BY <1>2, <1>3, <1>4 DEF S!Frames
<1>7. SameCall(g, S!Top(p))
  BY <1>1, <1>2, <1>6 DEF SameCall
<1>8. Runs(g, returned[p][Len(stack[p])])
  <2>1. f.i <= Len(Dependencies[e])
    BY <1>1, <1>2, TopRuns DEF Runs
  <2>2. QED
    BY <1>3, <1>6, <2>1 DEF Runs, Has
<1>9. QED
  BY <1>1, <1>5, <1>6, <1>7, <1>8, GotoInv

LEMMA PreResolveInv ==
    ASSUME ApiInv, NEW p \in Handlers, Serve(p), S!PreResolve(p) PROVE ApiInv'
<1>1. stack[p] # <<>> /\ S!Top(p).at = "deps" /\ Quietly
  BY DEF S!PreResolve, S!At, Quietly
<1>2. PICK f, e : f = S!Top(p) /\ e = f.exec
  OBVIOUS
<1>3. /\ f \in S!Frames /\ e \in Executors /\ f.got.kind # "error" /\ f.i \in Nat
      /\ Len(Dependencies[e]) \in Nat /\ f.data \in SUBSET S!Versions
      /\ \A j \in 1..Len(Dependencies[e]) : Dependencies[e][j] \in Executors
  BY <1>1, <1>2, TopRuns
<1>4. S!NoValue \in S!Values
  BY DEF S!NoValue, S!Value, S!Values, S!Kinds
<1>5. CASE f.i < Len(Dependencies[e])
  <2>1. PICK g, h : /\ g = [f EXCEPT !.i = @ + 1, !.got = S!NoValue]
                    /\ h = S!ResolveAny(Dependencies[e][f.i + 1])
    OBVIOUS
  <2>2. S!Invoke(p, g, h)
    BY <1>2, <1>3, <1>5, <2>1 DEF S!PreResolve
  <2>3. /\ g \in S!Frames /\ g.exec = e /\ g.at = "deps" /\ g.i = f.i + 1
    <3>1. PICK k \in Nat : k = f.i + 1
      BY <1>3
    <3>2. g = [f EXCEPT !.i = k, !.got = S!NoValue]
      BY <2>1, <3>1
    <3>3. QED
      BY <1>1, <1>2, <1>3, <1>4, <3>1, <3>2 DEF S!Frames
  <2>4. /\ h \in S!Frames /\ h.at = "gets" /\ h.i = 0 /\ h.got = S!NoValue
        /\ h.exec = Dependencies[e][f.i + 1]
    BY <1>3, <1>4, <1>5, <2>1 DEF S!Frames, S!ResolveAny, S!Frame
  <2>5. SameCall(g, S!Top(p)) /\ Waits(g, h)
    BY <1>1, <1>2, <1>3, <1>5, <2>3, <2>4 DEF SameCall, Waits
  <2>6. Has(g, returned[p][Len(stack[p])], g.i - 1)
    BY <1>1, <1>2, <2>3 DEF Has
  <2>7. QED
    BY <1>1, <2>2, <2>3, <2>4, <2>5, <2>6, InvokeInv
<1>6. CASE ~(f.i < Len(Dependencies[e]))
  <2>1. PICK g, h : /\ g = [f EXCEPT !.at = "store", !.got = S!NoValue]
                    /\ h = S!ResolveAny(e)
    OBVIOUS
  <2>2. S!Invoke(p, g, h)
    BY <1>2, <1>3, <1>6, <2>1 DEF S!PreResolve
  <2>3. /\ g \in S!Frames /\ g.exec = e /\ g.at = "store"
    BY <1>1, <1>2, <1>3, <1>4, <2>1 DEF S!Frames
  <2>4. /\ h \in S!Frames /\ h.at = "gets" /\ h.i = 0 /\ h.got = S!NoValue
        /\ h.exec = e
    BY <1>3, <1>4, <2>1 DEF S!Frames, S!ResolveAny, S!Frame
  <2>5. SameCall(g, S!Top(p)) /\ Waits(g, h)
    BY <1>1, <1>2, <2>3, <2>4 DEF SameCall, Waits
  <2>6. Has(g, returned[p][Len(stack[p])], g.i - 1)
    BY <1>1, <1>2, <2>3 DEF Has
  <2>7. QED
    BY <1>1, <2>2, <2>3, <2>4, <2>5, <2>6, InvokeInv
<1>7. QED
  BY <1>5, <1>6

LEMMA FactoryGetInv ==
    ASSUME ApiInv, NEW p \in Handlers, Serve(p), S!FactoryGet(p) PROVE ApiInv'
<1>1. stack[p] # <<>> /\ S!Top(p).at = "gets" /\ Quietly
  BY DEF S!FactoryGet, S!At, Quietly
<1>2. PICK f, e : f = S!Top(p) /\ e = f.exec
  OBVIOUS
<1>3. /\ f \in S!Frames /\ e \in Executors /\ f.i \in Nat
      /\ Len(Dependencies[e]) \in Nat /\ f.data \in SUBSET S!Versions /\ f.got \in S!Values
      /\ \A j \in 1..Len(Dependencies[e]) : Dependencies[e][j] \in Executors
      /\ Runs(f, returned[p][Len(stack[p])])
  BY <1>1, <1>2, TopRuns
<1>4. S!NoValue \in S!Values
  BY DEF S!NoValue, S!Value, S!Values, S!Kinds
<1>5. S!Gather(p) \in SUBSET S!Versions
  <2>1. f.got.data \in SUBSET S!Versions
    BY <1>3 DEF S!Values
  <2>2. QED
    BY <1>2, <1>3, <2>1 DEF S!Gather
<1>6. PICK g, h : /\ g = [f EXCEPT !.i = @ + 1, !.got = S!NoValue, !.data = S!Gather(p)]
                  /\ h = S!Resolve(Dependencies[e][f.i + 1])
  OBVIOUS
<1>7. S!Invoke(p, g, h) /\ f.i < Len(Dependencies[e])
  BY <1>2, <1>6 DEF S!FactoryGet
<1>8. /\ g \in S!Frames /\ g.exec = e /\ g.at = "gets" /\ g.i = f.i + 1
  <2>1. PICK k \in Nat, data \in SUBSET S!Versions : k = f.i + 1 /\ data = S!Gather(p)
    BY <1>3, <1>5
  <2>2. g = [f EXCEPT !.i = k, !.got = S!NoValue, !.data = data]
    BY <1>6, <2>1
  <2>3. QED
    BY <1>1, <1>2, <1>3, <1>4, <2>1, <2>2 DEF S!Frames
<1>9. /\ h \in S!Frames /\ h.at = "load" /\ h.i = 0 /\ h.got = S!NoValue
      /\ h.exec = Dependencies[e][f.i + 1]
  BY <1>3, <1>4, <1>6, <1>7 DEF S!Frames, S!Resolve, S!Frame
<1>10. SameCall(g, S!Top(p)) /\ Waits(g, h)
  BY <1>1, <1>2, <1>3, <1>7, <1>8, <1>9 DEF SameCall, Waits
<1>11. Has(g, returned[p][Len(stack[p])], g.i - 1)
  BY <1>1, <1>2, <1>3, <1>8 DEF Runs, Has
<1>12. QED
  BY <1>1, <1>7, <1>8, <1>9, <1>10, <1>11, InvokeInv

LEMMA StoreValueInv ==
    ASSUME ApiInv, NEW p \in Handlers, Serve(p), S!StoreValue(p), ~replaced' PROVE ApiInv'
<1>1. stack[p] # <<>> /\ S!Top(p).at = "store" /\ UNCHANGED <<runs, job, calls>>
  BY DEF S!StoreValue, S!At
<1>2. PICK f, e, v, n : f = S!Top(p) /\ e = f.exec /\ v = f.got /\ n = Len(stack[p])
  OBVIOUS
<1>3. /\ f \in S!Frames /\ e \in Executors /\ v \in S!Values /\ v.kind = "factory"
      /\ Made(e, v.run)
  BY <1>1, <1>2, TopRuns DEF Runs
<1>4. S!Return(p, v) /\ cache' = [cache EXCEPT ![e] = v]
  BY <1>2, <1>3 DEF S!StoreValue
<1>5. /\ Typed /\ Caches /\ Founded /\ Kept /\ Stacked(p)
      /\ n \in Nat /\ n >= 1 /\ f = stack[p][n]
  BY <1>1, <1>2, Serving
<1>6. objects' = objects /\ reported' = reported
  BY <1>1 DEF Serve
<1>7. /\ cache' \in [Executors -> S!Values] /\ cache'[e] = v
      /\ \A x \in Executors : x # e => cache'[x] = cache[x]
  BY <1>3, <1>4, <1>5 DEF Typed
<1>8. "Storage" \in Executors
  BY DEF Executors
<1>9. e = "Storage" => /\ Cached' /\ cache'["Storage"].run = v.run
                       /\ Cached => cache'["Storage"] = cache["Storage"]
  <2>1. e = "Storage" => Cached' /\ cache'["Storage"].run = v.run
    BY <1>3, <1>7 DEF Cached
  <2>2. Cached => cache'["Storage"] = cache["Storage"]
    BY DEF Serve, Cached
  <2>3. QED
    BY <2>1, <2>2
<1>10. e # "Storage" => cache'["Storage"] = cache["Storage"] /\ Cached' = Cached
  BY <1>7, <1>8 DEF Cached
<1>11. Grows
  <2>1. runs' = runs /\ Len(runs) \in Nat
    BY <1>1, <1>5 DEF Typed
  <2>2. QED
    BY <1>9, <1>10, <2>1 DEF Grows
<1>12. Caches'
  <2>1. \A x, r : Made(x, r) => Made(x, r)'
    BY <1>1 DEF Made, MadeIn
  <2>2. \A x \in Executors :
           \/ cache'[x].kind = "none"
           \/ cache'[x].kind = "factory" /\ Made(x, cache'[x].run)
    <3> TAKE x \in Executors
    <3>1. CASE x = e
      BY <1>3, <1>7, <3>1
    <3>2. CASE x # e
      <4>1. \/ cache[x].kind = "none"
            \/ cache[x].kind = "factory" /\ Made(x, cache[x].run)
        BY <1>5 DEF Caches
      <4>2. cache'[x] = cache[x]
        BY <1>7, <3>2
      <4>3. QED
        BY <4>1, <4>2
    <3>3. QED
      BY <3>1, <3>2
  <2>3. QED
    BY <1>1, <2>2 DEF Caches, Made, MadeIn
<1>13. Founded'
  <2>1. CASE e = "Storage" /\ ~Cached
    BY <1>1, <1>5, <2>1 DEF Founded
  <2>2. CASE cache'["Storage"] = cache["Storage"] /\ Cached' = Cached
    BY <1>1, <1>5, <1>6, <2>2 DEF Founded, Made, MadeIn, StorageOf, UserServiceOf
  <2>3. QED
    BY <1>9, <1>10, <2>1, <2>2
<1>14. Kept'
  <2>1. CASE e = "Storage" /\ ~Cached
    BY <1>5, <1>6, <2>1 DEF Kept
  <2>2. CASE cache'["Storage"] = cache["Storage"] /\ Cached' = Cached
    BY <1>5, <1>6, <2>2 DEF Kept, Users, Posts, User, Post
  <2>3. QED
    BY <1>9, <1>10, <2>1, <2>2
<1>15. Made(e, v.run)' /\ Given(e, v.run)'
  BY <1>1, <1>3, <1>9 DEF Made, MadeIn, Given
<1>16. v.run = Resolved(p)
  BY <1>1, <1>2 DEF Resolved, S!At
<1>17. /\ runs' \in Seq([exec : Executors, closed : Nat])
       /\ objects' \in Seq(Objects) /\ Len(objects') = Len(runs')
  BY <1>1, <1>5, <1>6 DEF Typed
<1>18. Made(f.exec, v.run)' /\ Given(f.exec, v.run)'
  BY <1>2, <1>15
<1>19. job' = job /\ calls' = calls
  BY <1>1
<1>20. QED
  BY <1>1, <1>2, <1>3, <1>4, <1>7, <1>11, <1>12, <1>13, <1>14, <1>16, <1>17, <1>18,
     <1>19, ReturnInv

(* A longer list of objects: what was told of the old ones is still so.    *)
LEMMA ObjectsGrow ==
    ASSUME Typed, Caches, Founded, Kept, Grows, cache' = cache, reported' \in SUBSET Items,
           \A r \in 1..Len(runs) : /\ objects'[r].parts = objects[r].parts
                                 /\ DOMAIN objects[r].users \subseteq DOMAIN objects'[r].users
                                 /\ DOMAIN objects[r].posts \subseteq DOMAIN objects'[r].posts,
           \A x \in reported' \ reported : Cached /\
               x \in (Users(cache["Storage"].run) \union Posts(cache["Storage"].run))'
    PROVE  /\ Caches' /\ Kept'
           /\ \A r \in 1..Len(runs) : runs'[r].exec \in Services =>
                  /\ Cached' /\ objects'[r].parts[1] = cache'["Storage"].run
                  /\ runs'[r].exec = "PostService" => MadeIn(runs', "UserService", objects'[r].parts[2])
<1>1. \A x, r : Made(x, r) => Made(x, r)'
  BY Persists
<1>2. Cached' = Cached
  BY DEF Cached
<1>3. Caches'
  <2>1. \A x \in Executors :
           \/ cache[x].kind = "none"
           \/ cache[x].kind = "factory" /\ MadeIn(runs', x, cache[x].run)
    BY <1>1 DEF Caches, Made, MadeIn
  <2>2. QED
    BY <2>1 DEF Caches, Made, MadeIn
<1>4. Kept'
  <2>1. Cached => cache["Storage"].run \in 1..Len(runs)
    BY DEF Caches, Cached, Made, MadeIn, Executors
  <2>2. PICK r : r = cache["Storage"].run
    OBVIOUS
  <2>3. Cached => Users(r) \subseteq Users(r)' /\ Posts(r) \subseteq Posts(r)'
    BY <2>1, <2>2 DEF Users, Posts
  <2>4. \A x \in reported' : Cached /\ x \in Users(r)' \union Posts(r)'
    <3> TAKE x \in reported'
    <3>1. CASE x \in reported
      BY <2>2, <2>3, <3>1 DEF Kept
    <3>2. CASE x \notin reported
      BY <2>2, <3>2 DEF Users, Posts
    <3>3. QED
      BY <3>1, <3>2
  <2>5. QED
    BY <1>2, <2>2, <2>4 DEF Kept, Users, Posts
<1>5. \A r \in 1..Len(runs) : runs'[r].exec \in Services =>
          /\ Cached' /\ objects'[r].parts[1] = cache'["Storage"].run
          /\ runs'[r].exec = "PostService" => MadeIn(runs', "UserService", objects'[r].parts[2])
  <2> TAKE r \in 1..Len(runs)
  <2> HAVE runs'[r].exec \in Services
  <2>1. runs[r].exec \in Services /\ runs'[r] = runs[r]
    BY DEF Grows
  <2>2. /\ Cached /\ objects[r].parts[1] = cache["Storage"].run
        /\ runs[r].exec = "PostService" => Made("UserService", objects[r].parts[2])
    BY <2>1 DEF Founded, StorageOf, UserServiceOf
  <2>3. objects'[r].parts = objects[r].parts
    OBVIOUS
  <2>4. runs[r].exec = "PostService" => MadeIn(runs', "UserService", objects[r].parts[2])
    BY <1>1, <2>2 DEF Made, MadeIn
  <2>5. QED
    BY <1>2, <2>1, <2>2, <2>3, <2>4
<1>6. QED
  BY <1>3, <1>4, <1>5

LEMMA FactoryDoneInv ==
    ASSUME ApiInv, MaxCalls \in Nat, NEW p \in Handlers, Serve(p), S!FactoryDone(p) PROVE ApiInv'
<1>1. stack[p] # <<>> /\ S!Top(p).at = "gets" /\ UNCHANGED <<cache, job, calls>>
  BY DEF S!FactoryDone, S!At
<1>2. PICK f, e, n, parts : /\ f = S!Top(p) /\ e = f.exec /\ n = Len(stack[p])
                            /\ parts = returned[p][Len(stack[p])]
  OBVIOUS
<1>3. /\ f \in S!Frames /\ e \in Executors /\ f.got \in S!Values
      /\ f.data \in SUBSET S!Versions /\ Runs(f, parts)
  BY <1>1, <1>2, TopRuns
<1>4. /\ Typed /\ Caches /\ Founded /\ Kept /\ Stacked(p)
      /\ n \in Nat /\ n >= 1 /\ f = stack[p][n] /\ stack[p][1].at # "gets"
  BY <1>1, <1>2, Serving
<1>5. PICK k \in Nat : k = Len(runs)
  BY <1>4 DEF Typed
<1>6. PICK data : data = {<<e, 0>>} \union S!Gather(p)
  OBVIOUS
<1>7. data \in SUBSET S!Versions
  <2>1. <<e, 0>> \in S!Versions
    BY <1>3 DEF S!Versions, S!PresetVersion
  <2>2. S!Gather(p) \in SUBSET S!Versions
    <3>1. f.got.data \in SUBSET S!Versions
      BY <1>3 DEF S!Values
    <3>2. QED
      BY <1>2, <1>3, <3>1 DEF S!Gather
  <2>3. QED
    BY <1>6, <2>1, <2>2
<1>8. PICK v : v = S!Value("factory", k + 1, data)
  OBVIOUS
<1>9. v \in S!Values /\ v.kind = "factory" /\ v.run = k + 1
  BY <1>7, <1>8 DEF S!Value, S!Values, S!Kinds
<1>10. /\ S!Return(p, v) /\ runs' = Append(runs, [exec |-> e, closed |-> 0])
       /\ f.i = Len(Dependencies[e])
  BY <1>2, <1>3, <1>5, <1>6, <1>8 DEF S!FactoryDone
<1>11. /\ runs' \in Seq([exec : Executors, closed : Nat]) /\ Len(runs') = k + 1
       /\ runs'[k + 1] = [exec |-> e, closed |-> 0]
       /\ \A r \in 1..k : runs'[r] = runs[r]
  <2>1. runs \in Seq([exec : Executors, closed : Nat])
        /\ [exec |-> e, closed |-> 0] \in [exec : Executors, closed : Nat]
    BY <1>3, <1>4 DEF Typed
  <2>2. QED
    BY <1>5, <1>10, <2>1, Pushed
<1>12. parts \in Seq(Nat) /\ Last(returned[p]) = parts
  <2>1. returned[p] \in Seq(Seq(Nat)) /\ Len(returned[p]) = n
    BY <1>2, <1>4 DEF Typed, Stacked
  <2>2. QED
    BY <1>2, <1>4, <2>1 DEF Last
<1>13. PICK o : o = Object(parts)
  OBVIOUS
<1>14. o \in Objects /\ o.parts = parts
  BY <1>12, <1>13 DEF Object, Objects
<1>15. objects' = Append(objects, o) /\ reported' = reported
  <2>1. runs' # runs
    BY <1>5, <1>11
  <2>2. QED
    BY <1>12, <1>13, <2>1 DEF Serve
<1>16. /\ objects' \in Seq(Objects) /\ Len(objects') = k + 1 /\ objects'[k + 1] = o
       /\ \A r \in 1..k : objects'[r] = objects[r]
  <2>1. objects \in Seq(Objects) /\ Len(objects) = k
    BY <1>4, <1>5 DEF Typed
  <2>2. QED
    BY <1>14, <1>15, <2>1, Pushed
<1>17. Grows
  BY <1>1, <1>5, <1>11 DEF Grows, Cached
<1>18. /\ Caches' /\ Kept'
       /\ \A r \in 1..k : runs'[r].exec \in Services =>
              /\ Cached' /\ objects'[r].parts[1] = cache'["Storage"].run
              /\ runs'[r].exec = "PostService" => MadeIn(runs', "UserService", objects'[r].parts[2])
  <2>1. reported' \in SUBSET Items /\ reported' \ reported = {}
    BY <1>4, <1>15 DEF Typed
  <2>2. cache' = cache
    BY <1>1
  <2>3. \A r \in 1..Len(runs) : objects'[r] = objects[r]
    BY <1>5, <1>16
  <2>4. QED
    BY <1>4, <1>5, <1>17, <2>1, <2>2, <2>3, ObjectsGrow
<1>19. Founded'
  <2>1. e \in Services =>
            /\ Cached' /\ parts[1] = cache'["Storage"].run
            /\ e = "PostService" => Made("UserService", parts[2])'
    <3>1. \A j \in 1..Len(Dependencies[e]) : Given(Dependencies[e][j], parts[j])
      BY <1>1, <1>2, <1>3, <1>10 DEF Runs, Has
    <3>2. e \in Services => Given("Storage", parts[1])
      <4>1. e \in Services => 1 \in 1..Len(Dependencies[e]) /\ Dependencies[e][1] = "Storage"
        BY <1>3, DependenciesType
      <4>2. QED
        BY <3>1, <4>1
    <3>3. e = "PostService" => Given("UserService", parts[2])
      <4>1. e = "PostService" => /\ 2 \in 1..Len(Dependencies[e])
                                 /\ Dependencies[e][2] = "UserService"
        BY DependenciesType
      <4>2. QED
        BY <3>1, <4>1
    <3>4. \A x, r : Made(x, r) => Made(x, r)'
      BY <1>4, <1>17, Persists
    <3>5. QED
      BY <1>1, <3>2, <3>3, <3>4 DEF Given, Cached
  <2>2. \A r \in 1..(k + 1) : runs'[r].exec \in Services =>
              /\ Cached' /\ objects'[r].parts[1] = cache'["Storage"].run
              /\ runs'[r].exec = "PostService" => MadeIn(runs', "UserService", objects'[r].parts[2])
    <3> TAKE r \in 1..(k + 1)
    <3>1. CASE r = k + 1
      <4>1. runs'[r].exec = e /\ objects'[r].parts = parts
        BY <1>11, <1>14, <1>16, <3>1
      <4>2. Made("UserService", parts[2])' = MadeIn(runs', "UserService", parts[2])
        BY DEF Made
      <4>3. QED
        BY <2>1, <4>1, <4>2
    <3>2. CASE r \in 1..k
      BY <1>18, <3>2
    <3>3. QED
      BY <3>1, <3>2
  <2>3. QED
    BY <1>11, <2>2 DEF Founded, StorageOf, UserServiceOf, Made
<1>20. Made(f.exec, v.run)'
  BY <1>2, <1>9, <1>11 DEF Made, MadeIn
<1>21. job' = job /\ calls' = calls /\ Cached' = Cached /\ f.at = "gets"
  BY <1>1, <1>2 DEF Cached
<1>22. cache' \in [Executors -> S!Values] /\ Len(objects') = Len(runs')
  BY <1>1, <1>4, <1>11, <1>16 DEF Typed
<1>23. QED
  BY <1>1, <1>2, <1>9, <1>10, <1>11, <1>16, <1>17, <1>18, <1>19, <1>20, <1>21, <1>22, ReturnInv

LEMMA ServeInv ==
    ASSUME ApiInv, MaxCalls \in Nat, NEW p \in Handlers, Serve(p), ~replaced' PROVE ApiInv'
<1>1. S!Step(p)
  BY DEF Serve
<1>2. \/ S!Load(p) \/ S!Link(p) \/ S!PreResolve(p) \/ S!StoreValue(p)
      \/ S!FactoryGet(p) \/ S!FactoryDone(p)
  BY <1>1, ServeSteps
<1>3. QED
  BY <1>2, LoadInv, LinkInv, PreResolveInv, StoreValueInv, FactoryGetInv, FactoryDoneInv

-----------------------------------------------------------------------------
(* A handler starts.                                                       *)
LEMMA StartInv ==
    ASSUME ApiInv, NEW p \in Handlers, NEW kind \in DOMAIN Asks, Receive(p, kind)
    PROVE  ApiInv'
<1>1. /\ Typed /\ Caches /\ Founded /\ Kept
      /\ \A q \in Handlers : Stacked(q) /\ Asking(q)
  BY DEF ApiInv
<1>2. PICK e, g : e = Asks[kind] /\ g = S!Resolve(e)
  OBVIOUS
<1>3. e \in Executors /\ Len(Dependencies[e]) \in Nat /\ kind # "none"
  <2>1. e \in Executors /\ kind # "none"
    BY <1>2 DEF Asks, Executors
  <2>2. QED
    BY <2>1, DependenciesType
<1>4. /\ g \in S!Frames /\ g.exec = e /\ g.at = "load" /\ g.i = 0 /\ g.got.kind # "error"
  BY <1>2, <1>3 DEF S!Resolve, S!Frame, S!Frames, S!NoValue, S!Value, S!Values, S!Kinds
<1>5. /\ stack' = [stack EXCEPT ![p] = <<g>>] /\ calls' = calls + 1
      /\ returned' = [returned EXCEPT ![p] = <<<<>>>>]
      /\ UNCHANGED <<cache, runs, job, objects, reported>>
  BY <1>2 DEF Receive, S!Get, S!Begin
<1>6. /\ Grows /\ Caches' /\ Founded' /\ Kept' /\ Cached' = Cached
  BY <1>1, <1>5, SameStore DEF Cached
<1>7. /\ stack' \in [Handlers -> Seq(S!Frames)] /\ stack'[p] = <<g>>
      /\ \A q \in Handlers : q # p => stack'[q] = stack[q]
  <2>1. <<g>> \in Seq(S!Frames)
    BY <1>4
  <2>2. QED
    BY <1>1, <1>5, <2>1 DEF Typed
<1>8. /\ returned' \in [Handlers -> Seq(Seq(Nat))] /\ returned'[p] = <<<<>>>>
      /\ \A q \in Handlers : q # p => returned'[q] = returned[q]
  <2>1. <<<<>>>> \in Seq(Seq(Nat))
    OBVIOUS
  <2>2. QED
    BY <1>1, <1>5, <2>1 DEF Typed
<1>9. Stacked(p)'
  <2>1. Runs(g, <<>>)'
    BY <1>3, <1>4 DEF Runs, Has
  <2>2. PICK s, r : s = <<g>> /\ r = <<<<>>>>
    OBVIOUS
  <2>3. Len(s) = 1 /\ Len(r) = 1 /\ s[Len(s)] = g /\ r[Len(s)] = <<>>
    BY <2>2
  <2>4. Runs(s[Len(s)], r[Len(s)])'
    BY <2>1, <2>3
  <2>5. \A i \in 1..(Len(s) - 1) : Waits(s[i], s[i + 1]) /\ Has(s[i], r[i], s[i].i - 1)'
    BY <2>3
  <2>6. QED
    BY <1>7, <1>8, <2>2, <2>3, <2>4, <2>5, StackedNext
<1>10. PICK asks : asks = [NoRequest EXCEPT !.at = "resolve", !.kind = kind, !.before = reported]
  OBVIOUS
<1>11. /\ asks \in Requests /\ asks.at = "resolve" /\ asks.kind = kind /\ asks.before = reported
       /\ asks.missing = {}
  BY <1>1, <1>10 DEF NoRequest, Requests, Typed
<1>12. /\ request' \in [Handlers -> Requests] /\ request'[p] = asks
       /\ \A q \in Handlers : q # p => request'[q] = request[q]
  BY <1>1, <1>10, <1>11 DEF Receive, Typed
<1>13. Typed'
  BY <1>1, <1>5, <1>7, <1>8, <1>12 DEF Typed
<1>14. \A q \in Handlers : Asking(q)'
  <2> TAKE q \in Handlers
  <2>1. CASE q = p
    BY <1>2, <1>3, <1>4, <1>5, <1>7, <1>11, <1>12, <2>1 DEF Asking
  <2>2. CASE q # p
    <3>1. \A x, r : Made(x, r) => Made(x, r)'
      BY <1>1, <1>6, Persists
    <3>2. QED
      BY <1>1, <1>5, <1>7, <1>12, <2>2, <3>1 DEF Asking
  <2>3. QED
    BY <2>1, <2>2
<1>15. \A q \in Handlers : Stacked(q)'
  BY <1>1, <1>6, <1>7, <1>8, <1>9, OtherStacked
<1>16. QED
  BY <1>6, <1>13, <1>14, <1>15 DEF ApiInv

-----------------------------------------------------------------------------
(* A service is called: the scope is left alone.                           *)
Asked(p) == request[p].at \in {"call", "add", "count"}

(* The service that a handler calls stands on the storage that is cached.  *)
LEMMA ServiceStands ==
    ASSUME ApiInv, NEW p \in Handlers, Asked(p), NEW s, s = request[p].service,
           request[p].kind \in DOMAIN Asks
    PROVE  /\ Cached /\ StorageOf(s) = cache["Storage"].run
           /\ cache["Storage"].run \in 1..Len(objects)
           /\ Asks[request[p].kind] = "PostService" =>
                  StorageOf(UserServiceOf(s)) = cache["Storage"].run
<1>1. Made(Asks[request[p].kind], s)
  BY DEF ApiInv, Asking, Asked
<1>2. s \in 1..Len(runs) /\ runs[s].exec = Asks[request[p].kind]
  BY <1>1 DEF Made, MadeIn
<1>3. Asks[request[p].kind] \in Services
  BY DEF Asks, Services
<1>4. /\ Cached /\ StorageOf(s) = cache["Storage"].run
      /\ runs[s].exec = "PostService" => Made("UserService", UserServiceOf(s))
  BY <1>2, <1>3 DEF ApiInv, Founded
<1>5. cache["Storage"].run \in 1..Len(objects)
  BY <1>4 DEF ApiInv, Caches, Cached, Executors, Made, MadeIn, Typed
<1>6. ASSUME Asks[request[p].kind] = "PostService"
      PROVE  StorageOf(UserServiceOf(s)) = cache["Storage"].run
  <2>1. UserServiceOf(s) \in 1..Len(runs) /\ runs[UserServiceOf(s)].exec = "UserService"
    BY <1>2, <1>4, <1>6 DEF Made, MadeIn
  <2>2. QED
    BY <2>1 DEF ApiInv, Founded, Services
<1>7. QED
  BY <1>4, <1>5, <1>6

(* A call goes on or is answered; what it adds is seen from then on.       *)
LEMMA CallInv ==
    ASSUME ApiInv, NEW p \in Handlers, Asked(p), UNCHANGED <<scope, returned>>,
           NEW q \in Requests, request' = [request EXCEPT ![p] = q], q.missing = {},
           \/ q.at = "idle" /\ q.before = {}
           \/ /\ q.service = request[p].service /\ q.before = request[p].before
              /\ q.kind = request[p].kind
              /\ \/ q.at = "add" /\ q.kind = "createPost"
                 \/ q.at = "count" /\ q.kind = "stats",
           objects' \in Seq(Objects), Len(objects') = Len(objects),
           reported' \in SUBSET Items, reported \subseteq reported',
           \A r \in 1..Len(runs) : /\ objects'[r].parts = objects[r].parts
                                 /\ DOMAIN objects[r].users \subseteq DOMAIN objects'[r].users
                                 /\ DOMAIN objects[r].posts \subseteq DOMAIN objects'[r].posts,
           \A x \in reported' \ reported : Cached /\
               x \in (Users(cache["Storage"].run) \union Posts(cache["Storage"].run))'
    PROVE  ApiInv'
<1>1. /\ Typed /\ Caches /\ Founded /\ Kept
      /\ \A x \in Handlers : Stacked(x) /\ Asking(x)
  BY DEF ApiInv
<1>2. UNCHANGED <<cache, runs, stack, job, calls, returned>>
  BY DEF scope
<1>3. Grows /\ Cached' = Cached
  BY <1>1, <1>2 DEF Grows, Typed, Cached
<1>4. /\ Caches' /\ Kept'
      /\ \A r \in 1..Len(runs) : runs'[r].exec \in Services =>
             /\ Cached' /\ objects'[r].parts[1] = cache'["Storage"].run
             /\ runs'[r].exec = "PostService" => MadeIn(runs', "UserService", objects'[r].parts[2])
  BY <1>1, <1>2, <1>3, ObjectsGrow
<1>5. Founded'
  BY <1>2, <1>4 DEF Founded, StorageOf, UserServiceOf, Made
<1>6. /\ request' \in [Handlers -> Requests] /\ request'[p] = q
      /\ \A x \in Handlers : x # p => request'[x] = request[x]
  BY <1>1 DEF Typed
<1>7. Typed'
  BY <1>1, <1>2, <1>6 DEF Typed
<1>8. \A x \in Handlers : Stacked(x)'
  BY <1>1, <1>2, <1>3, OtherStacked
<1>9. \A x \in Handlers : Asking(x)'
  <2>1. \A x, r : Made(x, r) <=> Made(x, r)'
    BY <1>2 DEF Made
  <2> TAKE x \in Handlers
  <2>2. CASE x = p
    BY <1>1, <1>2, <1>6, <2>1, <2>2 DEF Asking, Asked
  <2>3. CASE x # p
    BY <1>1, <1>2, <1>6, <2>1, <2>3 DEF Asking
  <2>4. QED
    BY <2>2, <2>3
<1>10. QED
  BY <1>4, <1>5, <1>7, <1>8, <1>9 DEF ApiInv

(* What was reported before a request came is found by it. *)
LEMMA FoundAll ==
    ASSUME ApiInv, NEW p \in Handlers, NEW s, s = cache["Storage"].run
    PROVE  /\ \A x \in request[p].before : IsUser(x) => x \in Users(s)
           /\ \A x \in request[p].before : IsPost(x) => x \in Posts(s)
<1>1. \A x \in request[p].before : x \in Users(s) \union Posts(s)
  BY DEF ApiInv, Asking, Kept
<1>2. \A x \in Users(s) : ~IsPost(x)
  BY DEF Users, User, IsPost
<1>3. \A x \in Posts(s) : ~IsUser(x)
  BY DEF Posts, Post, IsUser
<1>4. QED
  BY <1>1, <1>2, <1>3

LEMMA NoRequestType ==
    ASSUME NEW q, q = [NoRequest EXCEPT !.missing = {}]
    PROVE  q \in Requests /\ q.at = "idle" /\ q.before = {} /\ q.missing = {}
BY DEF NoRequest, Requests

(* A request that leaves the storage as it is, and misses nothing. *)
LEMMA AnswerInv ==
    ASSUME ApiInv, NEW p \in Handlers, Asked(p), UNCHANGED <<scope, returned, objects, reported>>,
           NEW missing, missing = {}, Answer(p, missing)
    PROVE  ApiInv'
<1>1. PICK q : q = [NoRequest EXCEPT !.missing = {}]
  OBVIOUS
<1>2. request' = [request EXCEPT ![p] = q]
  BY <1>1 DEF Answer
<1>3. q \in Requests /\ q.at = "idle" /\ q.before = {} /\ q.missing = {}
  BY <1>1, NoRequestType
<1>4. objects' \in Seq(Objects) /\ reported' \in SUBSET Items
  BY DEF ApiInv, Typed
<1>5. QED
  BY <1>2, <1>3, <1>4, CallInv

(* One more user or post in the cached storage, which is reported. *)
LEMMA AddInv ==
    ASSUME ApiInv, NEW p \in Handlers, Asked(p), UNCHANGED <<scope, returned>>,
           Answer(p, {}), Cached, NEW s \in 1..Len(objects), s = cache["Storage"].run,
           NEW o \in Objects, objects' = [objects EXCEPT ![s] = o],
           o.parts = objects[s].parts, NEW x \in Items, reported' = reported \union {x},
           DOMAIN objects[s].users \subseteq DOMAIN o.users,
           DOMAIN objects[s].posts \subseteq DOMAIN o.posts,
           \/ x.what = "user" /\ \E id \in DOMAIN o.users : x = User(s, id)
           \/ x.what = "post" /\ \E id \in DOMAIN o.posts : x = Post(s, id)
    PROVE  ApiInv'
<1>1. PICK q : q = [NoRequest EXCEPT !.missing = {}]
  OBVIOUS
<1>2. request' = [request EXCEPT ![p] = q]
  BY <1>1 DEF Answer
<1>3. q \in Requests /\ q.at = "idle" /\ q.before = {} /\ q.missing = {}
  BY <1>1, NoRequestType
<1>4. objects \in Seq(Objects) /\ reported \in SUBSET Items /\ Len(objects) = Len(runs)
      /\ Len(runs) \in Nat
  BY DEF ApiInv, Typed
<1>5. /\ objects' \in Seq(Objects) /\ Len(objects') = Len(objects) /\ objects'[s] = o
      /\ \A r \in 1..Len(objects) : r # s => objects'[r] = objects[r]
  BY <1>4
<1>6. reported' \in SUBSET Items /\ reported \subseteq reported'
  BY <1>4
<1>7. \A r \in 1..Len(runs) : /\ objects'[r].parts = objects[r].parts
                            /\ DOMAIN objects[r].users \subseteq DOMAIN objects'[r].users
                            /\ DOMAIN objects[r].posts \subseteq DOMAIN objects'[r].posts
  <2> TAKE r \in 1..Len(runs)
  <2>1. CASE r = s
    BY <1>5, <2>1
  <2>2. CASE r # s
    BY <1>4, <1>5, <2>2
  <2>3. QED
    BY <2>1, <2>2
<1>8. cache' = cache
  BY DEF scope
<1>9. x \in Users(s)' \union Posts(s)'
  BY <1>5 DEF Users, Posts, User, Post
<1>10. x \in (Users(cache["Storage"].run) \union Posts(cache["Storage"].run))'
  BY <1>8, <1>9 DEF Users, Posts, User, Post
<1>11. QED
  BY <1>2, <1>3, <1>5, <1>6, <1>7, <1>10, CallInv

LEMMA CreateUserInv == ASSUME ApiInv, NEW p \in Handlers, CreateUser(p) PROVE ApiInv'
<1>1. Asked(p) /\ request[p].kind = "createUser" /\ UNCHANGED <<scope, returned>>
      /\ Answer(p, {})
  BY DEF CreateUser, Calls, Asked
<1>2. PICK s : s = cache["Storage"].run
  OBVIOUS
<1>3. Cached /\ StorageOf(request[p].service) = s /\ s \in 1..Len(objects)
  <2>1. request[p].kind \in DOMAIN Asks
    BY <1>1 DEF Asks
  <2>2. QED
    BY <1>1, <1>2, <2>1, ServiceStands
<1>4. objects[s] \in Objects /\ s \in Nat
  BY <1>3 DEF ApiInv, Typed
<1>5. CASE UNCHANGED <<objects, reported>>
  BY <1>1, <1>5, AnswerInv
<1>6. CASE AddUser(s) /\ reported' = reported \union {User(s, Len(objects[s].users) + 1)}
  <2>1. PICK email \in Emails :
            objects' = [objects EXCEPT ![s].users = Append(@, email)]
    BY <1>6 DEF AddUser
  <2>2. PICK n, users : n = Len(objects[s].users) /\ users = Append(objects[s].users, email)
    OBVIOUS
  <2>3. /\ n \in Nat /\ users \in Seq(Emails)
        /\ DOMAIN users = 1..(n + 1) /\ DOMAIN objects[s].users = 1..n
    BY <1>4, <2>2 DEF Objects
  <2>4. PICK o : o = [objects[s] EXCEPT !.users = users]
    OBVIOUS
  <2>5. o \in Objects /\ o.parts = objects[s].parts /\ o.users = users
        /\ o.posts = objects[s].posts
    BY <1>4, <2>3, <2>4 DEF Objects
  <2>6. objects' = [objects EXCEPT ![s] = o]
    BY <2>1, <2>2, <2>4
  <2>7. PICK x : x = User(s, n + 1)
    OBVIOUS
  <2>8. x \in Items /\ x.what = "user" /\ reported' = reported \union {x}
    BY <1>4, <1>6, <2>2, <2>3, <2>7 DEF User, Items
  <2>9. \E id \in DOMAIN o.users : x = User(s, id)
    BY <2>3, <2>5, <2>7
  <2>10. DOMAIN objects[s].users \subseteq DOMAIN o.users
         /\ DOMAIN objects[s].posts \subseteq DOMAIN o.posts
    BY <2>3, <2>5
  <2>11. QED
    BY <1>1, <1>2, <1>3, <2>5, <2>6, <2>8, <2>9, <2>10, AddInv
<1>7. QED
  BY <1>3, <1>5, <1>6 DEF CreateUser

LEMMA AddPostInv == ASSUME ApiInv, NEW p \in Handlers, AddPost(p) PROVE ApiInv'
<1>1. Asked(p) /\ request[p].at = "add" /\ UNCHANGED <<scope, returned>> /\ Answer(p, {})
  BY DEF AddPost, Asked
<1>2. request[p].kind = "createPost" /\ request[p].user \in Nat
  BY <1>1 DEF ApiInv, Asking, Typed, Requests
<1>3. PICK s : s = cache["Storage"].run
  OBVIOUS
<1>4. Cached /\ StorageOf(request[p].service) = s /\ s \in 1..Len(objects)
  <2>1. request[p].kind \in DOMAIN Asks
    BY <1>2 DEF Asks
  <2>2. QED
    BY <1>1, <1>3, <2>1, ServiceStands
<1>5. objects[s] \in Objects /\ s \in Nat
  BY <1>4 DEF ApiInv, Typed
<1>6. CASE UNCHANGED <<objects, reported>>
  BY <1>1, <1>6, AnswerInv
<1>7. CASE /\ objects' = [objects EXCEPT ![s].posts = Append(@, request[p].user)]
           /\ reported' = reported \union {Post(s, Len(objects[s].posts) + 1)}
  <2>1. PICK n, posts :
            n = Len(objects[s].posts) /\ posts = Append(objects[s].posts, request[p].user)
    OBVIOUS
  <2>2. /\ n \in Nat /\ posts \in Seq(Nat)
        /\ DOMAIN posts = 1..(n + 1) /\ DOMAIN objects[s].posts = 1..n
    BY <1>2, <1>5, <2>1 DEF Objects
  <2>3. PICK o : o = [objects[s] EXCEPT !.posts = posts]
    OBVIOUS
  <2>4. o \in Objects /\ o.parts = objects[s].parts /\ o.posts = posts
        /\ o.users = objects[s].users
    BY <1>5, <2>2, <2>3 DEF Objects
  <2>5. objects' = [objects EXCEPT ![s] = o]
    BY <1>7, <2>1, <2>3
  <2>6. PICK x : x = Post(s, n + 1)
    OBVIOUS
  <2>7. x \in Items /\ x.what = "post" /\ reported' = reported \union {x}
    BY <1>5, <1>7, <2>1, <2>2, <2>6 DEF Post, Items
  <2>8. \E id \in DOMAIN o.posts : x = Post(s, id)
    BY <2>2, <2>4, <2>6
  <2>9. DOMAIN objects[s].users \subseteq DOMAIN o.users
        /\ DOMAIN objects[s].posts \subseteq DOMAIN o.posts
    BY <2>2, <2>4
  <2>10. QED
    BY <1>1, <1>3, <1>4, <2>4, <2>5, <2>7, <2>8, <2>9, AddInv
<1>8. QED
  BY <1>4, <1>6, <1>7 DEF AddPost

(* The requests that read: all that was reported before is there. *)
LEMMA ReadInv ==
    ASSUME ApiInv, MaxCalls \in Nat, NEW p \in Handlers,
           \/ ListUsers(p) \/ GetUser(p) \/ ListPosts(p) \/ GetPost(p)
    PROVE  ApiInv'
<1>1. /\ Asked(p) /\ request[p].kind \in DOMAIN Asks
      /\ UNCHANGED <<scope, returned, objects, reported>>
  BY DEF ListUsers, GetUser, ListPosts, GetPost, Calls, Asked, Asks
<1>2. PICK s, before : s = cache["Storage"].run /\ before = request[p].before
  OBVIOUS
<1>3. StorageOf(request[p].service) = s
  BY <1>1, <1>2, ServiceStands
<1>4. /\ \A x \in before : IsUser(x) => x \in Users(s)
      /\ \A x \in before : IsPost(x) => x \in Posts(s)
  BY <1>2, FoundAll
<1>5. CASE ListUsers(p)
  <2>1. PICK missing : missing = { x \in before \ Users(s) : IsUser(x) }
    OBVIOUS
  <2>2. Answer(p, missing) /\ missing = {}
    BY <1>2, <1>3, <1>4, <1>5, <2>1 DEF ListUsers, Missing
  <2>3. QED
    BY <1>1, <2>2, AnswerInv
<1>6. CASE GetUser(p)
  <2>1. PICK id, missing :
            /\ id \in 1..MaxCalls
            /\ missing = { x \in before \ Users(s) : IsUser(x) /\ x.id = id }
            /\ Answer(p, missing)
    BY <1>2, <1>3, <1>6 DEF GetUser, Missing
  <2>2. missing = {}
    BY <1>4, <2>1
  <2>3. QED
    BY <1>1, <2>1, <2>2, AnswerInv
<1>7. CASE ListPosts(p)
  <2>1. PICK missing : missing = { x \in before \ Posts(s) : IsPost(x) }
    OBVIOUS
  <2>2. Answer(p, missing) /\ missing = {}
    BY <1>2, <1>3, <1>4, <1>7, <2>1 DEF ListPosts, Missing
  <2>3. QED
    BY <1>1, <2>2, AnswerInv
<1>8. CASE GetPost(p)
  <2>1. PICK id, missing :
            /\ id \in 1..MaxCalls
            /\ missing = { x \in before \ Posts(s) : IsPost(x) /\ x.id = id }
            /\ Answer(p, missing)
    BY <1>2, <1>3, <1>8 DEF GetPost, Missing
  <2>2. missing = {}
    BY <1>4, <2>1
  <2>3. QED
    BY <1>1, <2>1, <2>2, AnswerInv
<1>9. QED
  BY <1>5, <1>6, <1>7, <1>8

(* PostService.Create asks the user service it was given. *)
LEMMA LookUpInv == ASSUME ApiInv, MaxCalls \in Nat, NEW p \in Handlers, LookUp(p) PROVE ApiInv'
<1>1. /\ Asked(p) /\ request[p].kind = "createPost"
      /\ UNCHANGED <<scope, returned, objects, reported>>
  BY DEF LookUp, Calls, Asked
<1>2. PICK s, before : s = cache["Storage"].run /\ before = request[p].before
  OBVIOUS
<1>3. StorageOf(UserServiceOf(request[p].service)) = s
  <2>1. request[p].kind \in DOMAIN Asks /\ Asks[request[p].kind] = "PostService"
    BY <1>1 DEF Asks
  <2>2. QED
    BY <1>1, <1>2, <2>1, ServiceStands
<1>4. \A x \in before : IsUser(x) => x \in Users(s)
  BY <1>2, FoundAll
<1>5. PICK id, missing :
          /\ id \in 1..MaxCalls
          /\ missing = { x \in before \ Users(s) : IsUser(x) /\ x.id = id }
          /\ \/ request' = [request EXCEPT ![p].at = "add", ![p].user = id]
             \/ Answer(p, missing)
  BY <1>2, <1>3 DEF LookUp, Missing
<1>6. CASE Answer(p, missing)
  <2>1. missing = {}
    BY <1>4, <1>5
  <2>2. QED
    BY <1>1, <1>6, <2>1, AnswerInv
<1>7. CASE request' = [request EXCEPT ![p].at = "add", ![p].user = id]
  <2>1. PICK q : q = [request[p] EXCEPT !.at = "add", !.user = id]
    OBVIOUS
  <2>2. request \in [Handlers -> Requests] /\ request[p].missing = {} /\ id \in Nat
    BY <1>5 DEF ApiInv, Typed, Asking
  <2>3. /\ q \in Requests /\ q.missing = {} /\ q.at = "add" /\ q.kind = "createPost"
        /\ q.service = request[p].service /\ q.before = request[p].before
    BY <1>1, <2>1, <2>2 DEF Requests
  <2>4. request' = [request EXCEPT ![p] = q]
    BY <1>7, <2>1
  <2>5. objects' \in Seq(Objects) /\ reported' \in SUBSET Items
    BY <1>1 DEF ApiInv, Typed
  <2>6. QED
    BY <1>1, <2>3, <2>4, <2>5, CallInv
<1>8. QED
  BY <1>5, <1>6, <1>7

(* GetStats counts the users and then the posts of the same storage. *)
LEMMA StatsInv ==
    ASSUME ApiInv, NEW p \in Handlers, CountUsers(p) \/ CountPosts(p) PROVE ApiInv'
<1>1. /\ Asked(p) /\ request[p].kind = "stats"
      /\ UNCHANGED <<scope, returned, objects, reported>>
  <2>1. CASE CountUsers(p)
    BY <2>1 DEF CountUsers, Calls, Asked
  <2>2. CASE CountPosts(p)
    BY <2>2 DEF CountPosts, Asked, ApiInv, Asking
  <2>3. QED
    BY <2>1, <2>2
<1>2. PICK s, before : s = cache["Storage"].run /\ before = request[p].before
  OBVIOUS
<1>3. StorageOf(request[p].service) = s
  <2>1. request[p].kind \in DOMAIN Asks
    BY <1>1 DEF Asks
  <2>2. QED
    BY <1>1, <1>2, <2>1, ServiceStands
<1>4. /\ \A x \in before : IsUser(x) => x \in Users(s)
      /\ \A x \in before : IsPost(x) => x \in Posts(s)
  BY <1>2, FoundAll
<1>5. request \in [Handlers -> Requests] /\ request[p].missing = {}
  BY DEF ApiInv, Typed, Asking
<1>6. CASE CountUsers(p)
  <2>1. Missing(p, IsUser, Users(s)) = {}
    BY <1>2, <1>4 DEF Missing
  <2>2. PICK q : q = [request[p] EXCEPT !.at = "count", !.missing = {}]
    OBVIOUS
  <2>3. /\ q \in Requests /\ q.missing = {} /\ q.at = "count" /\ q.kind = "stats"
        /\ q.service = request[p].service /\ q.before = request[p].before
    BY <1>1, <1>5, <2>2 DEF Requests
  <2>4. request' = [request EXCEPT ![p] = q]
    BY <1>3, <1>6, <2>1, <2>2 DEF CountUsers
  <2>5. objects' \in Seq(Objects) /\ reported' \in SUBSET Items
    BY <1>1 DEF ApiInv, Typed
  <2>6. QED
    BY <1>1, <2>3, <2>4, <2>5, CallInv
<1>7. CASE CountPosts(p)
  <2>1. Missing(p, IsPost, Posts(s)) = {}
    BY <1>2, <1>4 DEF Missing
  <2>2. PICK missing : missing = {} /\ Answer(p, missing)
    BY <1>3, <1>5, <1>7, <2>1 DEF CountPosts
  <2>3. QED
    BY <1>1, <2>2, AnswerInv
<1>8. QED
  BY <1>6, <1>7

-----------------------------------------------------------------------------
LEMMA ApiStart == ApiInit => ApiInv
<1> SUFFICES ASSUME ApiInit PROVE ApiInv
  OBVIOUS
<1>1. /\ cache = [e \in Executors |-> S!NoValue] /\ runs = <<>> /\ calls = 0
      /\ stack = [p \in Handlers |-> <<>>] /\ job = [p \in Handlers |-> S!NoJob]
      /\ returned = [p \in Handlers |-> <<>>] /\ objects = <<>>
      /\ request = [p \in Handlers |-> NoRequest] /\ reported = {}
  BY DEF ApiInit, S!Init
<1>2. S!NoValue \in S!Values /\ S!NoValue.kind = "none"
  BY DEF S!NoValue, S!Value, S!Values, S!Kinds
<1>3. NoRequest \in Requests /\ NoRequest.at = "idle" /\ NoRequest.before = {}
      /\ NoRequest.missing = {}
  BY DEF NoRequest, Requests
<1>4. Typed
  BY <1>1, <1>2, <1>3 DEF Typed
<1>5. ~Cached /\ Caches
  BY <1>1, <1>2 DEF Cached, Caches, Executors
<1>6. Founded /\ Kept
  BY <1>1, <1>5 DEF Founded, Kept
<1>7. ASSUME NEW p \in Handlers PROVE Stacked(p) /\ Asking(p)
  BY <1>1, <1>3 DEF Stacked, Asking
<1>8. QED
  BY <1>4, <1>5, <1>6, <1>7 DEF ApiInv

(* As long as no cached storage is replaced. *)
LEMMA ApiStep ==
    ASSUME ApiInv, MaxCalls \in Nat, [ApiNext]_apiVars, ~replaced' PROVE ApiInv'
<1>1. ASSUME NEW p \in Handlers, Handle(p) PROVE ApiInv'
  BY <1>1, StartInv, ServeInv, CreateUserInv, ReadInv, LookUpInv, AddPostInv, StatsInv
     DEF Handle
<1>2. ASSUME UNCHANGED apiVars PROVE ApiInv'
  <2>1. UNCHANGED <<cache, runs, stack, job, calls, returned, objects, request, reported>>
    BY <1>2 DEF apiVars, scope
  <2>2. Typed /\ Caches /\ Founded /\ Kept
    BY DEF ApiInv
  <2>3. Grows /\ Caches' /\ Founded' /\ Kept'
    BY <2>1, <2>2, SameStore
  <2>4. Typed'
    BY <2>1, <2>2 DEF Typed
  <2>5. \A p \in Handlers : Stacked(p)' /\ Asking(p)'
    <3> TAKE p \in Handlers
    <3>1. Stacked(p)'
      BY <2>1, <2>2, <2>3, OtherStacked DEF ApiInv
    <3>2. \A x, r : Made(x, r) <=> Made(x, r)'
      BY <2>1 DEF Made
    <3>3. Asking(p)'
      BY <2>1, <3>2 DEF ApiInv, Asking
    <3>4. QED
      BY <3>1, <3>3
  <2>6. QED
    BY <2>3, <2>4, <2>5 DEF ApiInv
<1>3. QED
  BY <1>1, <1>2 DEF ApiNext

(* Once replaced, for good. *)
LEMMA ReplacedStays == ASSUME replaced, [ApiNext]_apiVars PROVE replaced'
<1>1. ASSUME NEW p \in Handlers, Handle(p) PROVE replaced'
  BY <1>1 DEF Handle, Receive, Serve, CreateUser, ListUsers, GetUser, LookUp, AddPost,
     ListPosts, GetPost, CountUsers, CountPosts, Calls
<1>2. CASE UNCHANGED apiVars
  BY <1>2 DEF apiVars
<1>3. QED
  BY <1>1, <1>2 DEF ApiNext

Sound == replaced \/ ApiInv

LEMMA SoundStep == ASSUME Sound, MaxCalls \in Nat, [ApiNext]_apiVars PROVE Sound'
BY ReplacedStays, ApiStep DEF Sound

(* As long as no cached storage has been replaced, all services of         *)
(* http-api stand on the one that is cached: the storage they were given   *)
(* is the one that a later request is given, for any number of requests at *)
(* once.                                                                   *)
THEOREM OneStorageKept == ASSUME MaxCalls \in Nat PROVE ApiSpec => []OneUnlessReplaced
<1>1. ApiInv => OneStorage
  <2>1. ASSUME ApiInv, NEW r \in DOMAIN runs,
               runs[r].exec \in {"UserService", "PostService", "StatsService"}
        PROVE  /\ StorageOf(r) = cache["Storage"].run
               /\ runs[r].exec = "PostService" =>
                     StorageOf(UserServiceOf(r)) = cache["Storage"].run
    <3>1. r \in 1..Len(runs) /\ runs[r].exec \in Services
      BY <2>1 DEF ApiInv, Typed, Services
    <3>2. /\ StorageOf(r) = cache["Storage"].run
          /\ runs[r].exec = "PostService" => Made("UserService", UserServiceOf(r))
      BY <2>1, <3>1 DEF ApiInv, Founded
    <3>3. Made("UserService", UserServiceOf(r)) =>
              StorageOf(UserServiceOf(r)) = cache["Storage"].run
      BY <2>1 DEF ApiInv, Founded, Made, MadeIn, Services
    <3>4. QED
      BY <3>2, <3>3
  <2>2. QED
    BY <2>1 DEF OneStorage
<1>2. Sound => OneUnlessReplaced
  BY <1>1 DEF Sound, OneUnlessReplaced
<1>3. ApiInit => Sound
  BY ApiStart DEF Sound
<1>4. QED
  BY <1>2, <1>3, SoundStep, PTL DEF ApiSpec

(* What a request reports as created is seen by every request that comes   *)
(* later, by whichever service, as long as no cached storage has been      *)
(* replaced.                                                               *)
THEOREM ReadsWritesKept == ASSUME MaxCalls \in Nat PROVE ApiSpec => []ReadsUnlessReplaced
<1>1. Sound => ReadsUnlessReplaced
  BY DEF Sound, ApiInv, Asking, ReadsUnlessReplaced
<1>2. ApiInit => Sound
  BY ApiStart DEF Sound
<1>3. QED
  BY <1>1, <1>2, SoundStep, PTL DEF ApiSpec

-----------------------------------------------------------------------------
(* The cached storage, whether or not it has replaced another.             *)

Stacks ==
    /\ cache \in [Executors -> S!Values]
    /\ runs \in Seq([exec : Executors, closed : Nat])
    /\ stack \in [Handlers -> Seq(S!Frames)]
    /\ \A p \in Handlers : job[p] = S!NoJob

(* No frame of a stack is about to cache a storage.                        *)
Past(f) == f.exec = "Storage" => f.at \notin {"link", "deps", "store"}
Free(s) == \A i \in 1..Len(s) : Past(s[i])

(* A step of p that leaves a cached storage, if no frame of p is about to  *)
(* cache another.                                                          *)
Leaves(p) ==
    /\ Stacks'
    /\ \A q \in Handlers \ {p} : stack'[q] = stack[q]
    /\ cache["Storage"].kind # "none" /\ Free(stack[p]) =>
          Free(stack'[p]) /\ cache'["Storage"] = cache["Storage"]

LEMMA FreeFrames ==
    ASSUME NEW s \in Seq(S!Frames)
    PROVE  Free(s) <=> \A f \in ToSet(s) : Past(f)
BY DEF Free, ToSet

LEMMA SettledIsFree ==
    ASSUME Stacks
    PROVE  Settled <=> /\ cache["Storage"].kind # "none"
                       /\ \A p \in Handlers : Free(stack[p])
<1>1. ASSUME NEW p \in Handlers
      PROVE  Free(stack[p]) <=> \A f \in ToSet(stack[p]) : Past(f)
  BY FreeFrames DEF Stacks
<1>2. QED
  BY <1>1 DEF Settled, Past

(* The top frame of p, which is free if the stack is.                      *)
LEMMA TopFrame ==
    ASSUME Stacks, NEW p \in Handlers, stack[p] # <<>>
    PROVE  /\ S!Top(p) \in S!Frames /\ S!Top(p) = stack[p][Len(stack[p])]
           /\ S!Top(p).exec \in Executors /\ S!Top(p).got \in S!Values
           /\ S!Top(p).i \in Nat /\ S!Top(p).data \in SUBSET S!Versions
           /\ S!Gather(p) \in SUBSET S!Versions
           /\ Free(stack[p]) => Past(S!Top(p))
           /\ Len(Dependencies[S!Top(p).exec]) \in Nat
           /\ \A j \in 1..Len(Dependencies[S!Top(p).exec]) :
                  Dependencies[S!Top(p).exec][j] \in Executors
<1>1. stack[p] \in Seq(S!Frames)
  BY DEF Stacks
<1>2. /\ S!Top(p) = stack[p][Len(stack[p])] /\ S!Top(p) \in S!Frames
      /\ Len(stack[p]) \in Nat /\ Len(stack[p]) >= 1
  BY <1>1, StackTop, SameTop DEF S!Top
<1>3. /\ S!Top(p).exec \in Executors /\ S!Top(p).got \in S!Values
      /\ S!Top(p).i \in Nat /\ S!Top(p).data \in SUBSET S!Versions
      /\ S!Top(p).got.data \in SUBSET S!Versions
  BY <1>2 DEF S!Frames, S!Values
<1>4. Dependencies[S!Top(p).exec] \in Seq(Executors)
  BY <1>3, DependenciesType
<1>5. S!Gather(p) \in SUBSET S!Versions
  BY <1>3 DEF S!Gather
<1>6. Free(stack[p]) => Past(S!Top(p))
  BY <1>2 DEF Free
<1>7. QED
  BY <1>2, <1>3, <1>4, <1>5, <1>6

(* The three moves of a stack.                                             *)
LEMMA GotoFree ==
    ASSUME Stacks, NEW p \in Handlers, stack[p] # <<>>, NEW f \in S!Frames, S!Goto(p, f)
    PROVE  /\ stack' \in [Handlers -> Seq(S!Frames)]
           /\ \A q \in Handlers \ {p} : stack'[q] = stack[q]
           /\ Free(stack[p]) /\ Past(f) => Free(stack'[p])
<1> DEFINE s == stack[p]
           t == GoesTo(s, f)
<1>1. s \in Seq(S!Frames) /\ s # <<>>
  BY DEF Stacks
<1>2. stack' = [stack EXCEPT ![p] = t]
  BY DEF S!Goto, GoesTo
<1>3. Len(s) \in Nat /\ Len(s) >= 1
  BY <1>1, StackTop
<1> HIDE DEF s, t
<1>4. /\ t \in Seq(S!Frames) /\ Len(t) = Len(s) /\ t[Len(s)] = f
      /\ \A i \in 1..(Len(s) - 1) : t[i] = s[i]
  BY <1>1, StackGoto DEF t
<1>5. Free(s) /\ Past(f) => Free(t)
  BY <1>3, <1>4 DEF Free
<1>6. stack'[p] = t
  BY <1>2 DEF Stacks
<1>7. QED
  BY <1>2, <1>4, <1>5, <1>6 DEF Stacks, s

LEMMA InvokeFree ==
    ASSUME Stacks, NEW p \in Handlers, stack[p] # <<>>, NEW f \in S!Frames, NEW g \in S!Frames,
           S!Invoke(p, f, g)
    PROVE  /\ stack' \in [Handlers -> Seq(S!Frames)]
           /\ \A q \in Handlers \ {p} : stack'[q] = stack[q]
           /\ Free(stack[p]) /\ Past(f) /\ Past(g) => Free(stack'[p])
<1> DEFINE s == stack[p]
           t == CallsOn(s, f, g)
<1>1. s \in Seq(S!Frames) /\ s # <<>>
  BY DEF Stacks
<1>2. stack' = [stack EXCEPT ![p] = t]
  BY DEF S!Invoke, CallsOn
<1>3. Len(s) \in Nat /\ Len(s) >= 1
  BY <1>1, StackTop
<1> HIDE DEF s, t
<1>4. /\ t \in Seq(S!Frames) /\ Len(t) = Len(s) + 1
      /\ t[Len(s)] = f /\ t[Len(s) + 1] = g
      /\ \A i \in 1..(Len(s) - 1) : t[i] = s[i]
  BY <1>1, StackInvoke DEF t
<1>5. Free(s) /\ Past(f) /\ Past(g) => Free(t)
  BY <1>3, <1>4 DEF Free
<1>6. stack'[p] = t
  BY <1>2 DEF Stacks
<1>7. QED
  BY <1>2, <1>4, <1>5, <1>6 DEF Stacks, s

LEMMA ReturnFree ==
    ASSUME Stacks, NEW p \in Handlers, stack[p] # <<>>, NEW v \in S!Values, S!Return(p, v)
    PROVE  /\ stack' \in [Handlers -> Seq(S!Frames)]
           /\ \A q \in Handlers \ {p} : stack'[q] = stack[q]
           /\ Free(stack[p]) => Free(stack'[p])
<1> DEFINE s == stack[p]
           t == ReturnsTo(s, v)
<1>1. s \in Seq(S!Frames) /\ s # <<>>
  BY DEF Stacks
<1>2. CASE Len(s) = 1
  <2>1. stack' = [stack EXCEPT ![p] = <<>>]
    BY <1>2 DEF S!Return
  <2>2. <<>> \in Seq(S!Frames) /\ Free(<<>>)
    BY DEF Free
  <2>3. QED
    BY <2>1, <2>2 DEF Stacks
<1>3. CASE Len(s) # 1
  <2>1. stack' = [stack EXCEPT ![p] = t]
    BY <1>3 DEF S!Return, ReturnsTo
  <2> HIDE DEF s, t
  <2>2. /\ t \in Seq(S!Frames) /\ Len(t) = Len(s) - 1 /\ Len(s) >= 2
        /\ t[Len(s) - 1] = [s[Len(s) - 1] EXCEPT !.got = v]
        /\ \A i \in 1..(Len(s) - 2) : t[i] = s[i]
    BY <1>1, <1>3, StackReturn DEF t
  <2>3. Len(s) \in Nat /\ s[Len(s) - 1] \in S!Frames
    BY <1>1, <2>2
  <2>4. t[Len(s) - 1].exec = s[Len(s) - 1].exec /\ t[Len(s) - 1].at = s[Len(s) - 1].at
    BY <2>2, <2>3 DEF S!Frames
  <2>5. Free(s) => Free(t)
    <3>1. ASSUME Free(s), NEW i \in 1..Len(t) PROVE Past(t[i])
      <4>1. CASE i = Len(s) - 1
        <5>1. Past(s[Len(s) - 1])
          <6>1. Len(s) - 1 \in 1..Len(s)
            BY <2>2, <2>3
          <6>2. QED
            BY <3>1, <6>1 DEF Free
        <5>2. QED
          BY <2>4, <4>1, <5>1 DEF Past
      <4>2. CASE i # Len(s) - 1
        BY <2>2, <2>3, <3>1, <4>2 DEF Free
      <4>3. QED
        BY <4>1, <4>2
    <3>2. QED
      BY <3>1 DEF Free
  <2>6. stack'[p] = t
    BY <2>1 DEF Stacks
  <2>7. QED
    BY <2>1, <2>2, <2>5, <2>6 DEF Stacks, s
<1>4. QED
  BY <1>2, <1>3

(* The steps of the scope, one by one.                                     *)
LEMMA SomeValues ==
    /\ S!NoValue \in S!Values /\ S!Failure \in S!Values
    /\ \A r \in Nat, data \in SUBSET S!Versions : S!Value("factory", r, data) \in S!Values
BY DEF S!NoValue, S!Failure, S!Value, S!Values, S!Kinds

LEMMA LoadLeaves == ASSUME Stacks, NEW p \in Handlers, S!Load(p) PROVE Leaves(p)
<1>1. stack[p] # <<>> /\ S!Top(p).at = "load" /\ UNCHANGED <<cache, runs, job>>
  BY DEF S!Load, S!At
<1>2. PICK f, e : f = S!Top(p) /\ e = f.exec
  OBVIOUS
<1>3. f \in S!Frames /\ e \in Executors
  BY <1>1, <1>2, TopFrame
<1>4. CASE cache[e].kind = "none"
  <2>1. PICK g : g = [f EXCEPT !.at = "link"]
    OBVIOUS
  <2>2. S!Goto(p, g)
    BY <1>2, <1>4, <2>1 DEF S!Load
  <2>3. g \in S!Frames /\ g.exec = e
    BY <1>2, <1>3, <2>1 DEF S!Frames
  <2>4. cache["Storage"].kind # "none" => Past(g)
    BY <1>4, <2>3 DEF Past
  <2>5. QED
    BY <1>1, <2>2, <2>3, <2>4, GotoFree DEF Stacks, Leaves
<1>5. CASE cache[e].kind # "none"
  <2>1. cache[e] \in S!Values /\ S!Return(p, cache[e])
    BY <1>2, <1>3, <1>5 DEF S!Load, Stacks
  <2>2. QED
    BY <1>1, <2>1, ReturnFree DEF Stacks, Leaves
<1>6. QED
  BY <1>4, <1>5

LEMMA LinkLeaves == ASSUME Stacks, NEW p \in Handlers, S!Link(p) PROVE Leaves(p)
<1>1. stack[p] # <<>> /\ S!Top(p).at = "link" /\ UNCHANGED <<cache, runs, job>>
  BY DEF S!Link, S!At
<1>2. PICK f : f = S!Top(p)
  OBVIOUS
<1>3. f \in S!Frames /\ (Free(stack[p]) => Past(f))
  BY <1>1, <1>2, TopFrame
<1>4. PICK g : g = [f EXCEPT !.at = "deps"]
  OBVIOUS
<1>5. S!Goto(p, g)
  BY <1>2, <1>4 DEF S!Link
<1>6. g \in S!Frames /\ g.exec = f.exec /\ f.at = "link"
  BY <1>1, <1>2, <1>3, <1>4 DEF S!Frames
<1>7. Past(f) => Past(g)
  BY <1>6 DEF Past
<1>8. QED
  BY <1>1, <1>3, <1>5, <1>6, <1>7, GotoFree DEF Stacks, Leaves

LEMMA PreResolveLeaves == ASSUME Stacks, NEW p \in Handlers, S!PreResolve(p) PROVE Leaves(p)
<1>1. stack[p] # <<>> /\ S!Top(p).at = "deps" /\ UNCHANGED <<cache, runs, job>>
  BY DEF S!PreResolve, S!At
<1>2. PICK f, e : f = S!Top(p) /\ e = f.exec
  OBVIOUS
<1>3. /\ f \in S!Frames /\ e \in Executors /\ f.i \in Nat /\ (Free(stack[p]) => Past(f))
      /\ Len(Dependencies[e]) \in Nat
      /\ \A j \in 1..Len(Dependencies[e]) : Dependencies[e][j] \in Executors
  BY <1>1, <1>2, TopFrame
<1>4. CASE f.got.kind = "error"
  <2>1. S!Return(p, S!Failure)
    BY <1>2, <1>4 DEF S!PreResolve
  <2>2. QED
    BY <1>1, <2>1, SomeValues, ReturnFree DEF Stacks, Leaves
<1>5. CASE f.got.kind # "error"
  <2>1. PICK k \in Nat : k = f.i + 1
    BY <1>3
  <2>2. PICK g, h : /\ S!Invoke(p, g, h)
                    /\ g \in S!Frames /\ g.exec = e
                    /\ h \in S!Frames /\ h.at = "gets"
    <3>1. CASE f.i < Len(Dependencies[e])
      <4>1. PICK g, h : /\ g = [f EXCEPT !.i = k, !.got = S!NoValue]
                        /\ h = S!ResolveAny(Dependencies[e][k])
        OBVIOUS
      <4>2. S!Invoke(p, g, h)
        BY <1>2, <1>3, <1>5, <2>1, <3>1, <4>1 DEF S!PreResolve
      <4>3. g \in S!Frames /\ g.exec = e
        BY <1>2, <1>3, <4>1, SomeValues DEF S!Frames
      <4>4. h \in S!Frames /\ h.at = "gets"
        BY <1>3, <2>1, <3>1, <4>1, SomeValues DEF S!Frames, S!ResolveAny, S!Frame
      <4>5. QED
        BY <4>2, <4>3, <4>4
    <3>2. CASE ~(f.i < Len(Dependencies[e]))
      <4>1. PICK g, h : /\ g = [f EXCEPT !.at = "store", !.got = S!NoValue]
                        /\ h = S!ResolveAny(e)
        OBVIOUS
      <4>2. S!Invoke(p, g, h)
        BY <1>2, <1>3, <1>5, <3>2, <4>1 DEF S!PreResolve
      <4>3. g \in S!Frames /\ g.exec = e
        BY <1>2, <1>3, <4>1, SomeValues DEF S!Frames
      <4>4. h \in S!Frames /\ h.at = "gets"
        BY <1>3, <4>1, SomeValues DEF S!Frames, S!ResolveAny, S!Frame
      <4>5. QED
        BY <4>2, <4>3, <4>4
    <3>3. QED
      BY <3>1, <3>2
  <2>3. f.at = "deps"
    BY <1>1, <1>2
  <2>4. (Past(f) => Past(g)) /\ Past(h)
    BY <1>2, <2>2, <2>3 DEF Past
  <2>5. QED
    BY <1>1, <1>3, <2>2, <2>4, InvokeFree DEF Stacks, Leaves
<1>6. QED
  BY <1>4, <1>5

LEMMA StoreValueLeaves == ASSUME Stacks, NEW p \in Handlers, S!StoreValue(p) PROVE Leaves(p)
<1>1. stack[p] # <<>> /\ S!Top(p).at = "store" /\ UNCHANGED <<runs, job>>
  BY DEF S!StoreValue, S!At
<1>2. PICK f, e, v : f = S!Top(p) /\ e = f.exec /\ v = f.got
  OBVIOUS
<1>3. f.at = "store" /\ e \in Executors /\ v \in S!Values /\ (Free(stack[p]) => Past(f))
  BY <1>1, <1>2, TopFrame
<1>4. S!Return(p, v) /\ cache' \in {cache, [cache EXCEPT ![e] = v]}
  BY <1>2 DEF S!StoreValue
<1>5. cache' \in [Executors -> S!Values]
  BY <1>3, <1>4 DEF Stacks
<1>6. Past(f) => cache'["Storage"] = cache["Storage"]
  <2>1. cache \in [Executors -> S!Values] /\ "Storage" \in Executors
    BY DEF Stacks, Executors
  <2>2. e # "Storage" => cache'["Storage"] = cache["Storage"]
    BY <1>4, <2>1
  <2>3. QED
    BY <1>2, <1>3, <2>2 DEF Past
<1>7. QED
  BY <1>1, <1>3, <1>4, <1>5, <1>6, ReturnFree DEF Stacks, Leaves

LEMMA FactoryGetLeaves == ASSUME Stacks, NEW p \in Handlers, S!FactoryGet(p) PROVE Leaves(p)
<1>1. stack[p] # <<>> /\ S!Top(p).at = "gets" /\ UNCHANGED <<cache, runs, job>>
  BY DEF S!FactoryGet, S!At
<1>2. PICK f, e : f = S!Top(p) /\ e = f.exec
  OBVIOUS
<1>3. /\ f \in S!Frames /\ e \in Executors /\ f.i \in Nat
      /\ S!Gather(p) \in SUBSET S!Versions /\ Len(Dependencies[e]) \in Nat
      /\ \A j \in 1..Len(Dependencies[e]) : Dependencies[e][j] \in Executors
  BY <1>1, <1>2, TopFrame
<1>4. PICK k \in Nat, data \in SUBSET S!Versions : k = f.i + 1 /\ data = S!Gather(p)
  BY <1>3
<1>5. PICK g, h : /\ g = [f EXCEPT !.i = k, !.got = S!NoValue, !.data = data]
                  /\ h = S!Resolve(Dependencies[e][k])
  OBVIOUS
<1>6. S!Invoke(p, g, h) /\ k <= Len(Dependencies[e]) /\ k >= 1
  BY <1>2, <1>3, <1>4, <1>5 DEF S!FactoryGet
<1>7. g \in S!Frames /\ g.at = "gets"
  BY <1>1, <1>2, <1>3, <1>5, SomeValues DEF S!Frames
<1>8. h \in S!Frames /\ h.at = "load"
  BY <1>3, <1>5, <1>6, SomeValues DEF S!Frames, S!Resolve, S!Frame
<1>9. Past(g) /\ Past(h)
  BY <1>7, <1>8 DEF Past
<1>10. QED
  BY <1>1, <1>6, <1>7, <1>8, <1>9, InvokeFree DEF Stacks, Leaves

LEMMA FactoryFailLeaves == ASSUME Stacks, NEW p \in Handlers, S!FactoryFail(p) PROVE Leaves(p)
<1>1. stack[p] # <<>> /\ S!Return(p, S!Failure) /\ UNCHANGED <<cache, runs, job>>
  BY DEF S!FactoryFail, S!At
<1>2. QED
  BY <1>1, SomeValues, ReturnFree DEF Stacks, Leaves

LEMMA FactoryDoneLeaves ==
    ASSUME Stacks, MaxCalls \in Nat, NEW p \in Handlers, S!FactoryDone(p) PROVE Leaves(p)
<1>1. stack[p] # <<>> /\ UNCHANGED <<cache, job>>
  BY DEF S!FactoryDone, S!At
<1>2. PICK e : e = S!Top(p).exec
  OBVIOUS
<1>3. e \in Executors /\ S!Gather(p) \in SUBSET S!Versions
  BY <1>1, <1>2, TopFrame
<1>4. PICK data, k : data = {<<e, 0>>} \union S!Gather(p) /\ k = Len(runs) + 1
  OBVIOUS
<1>5. data \in SUBSET S!Versions
  <2>1. <<e, 0>> \in S!Versions
    BY <1>3 DEF S!Versions, S!PresetVersion
  <2>2. QED
    BY <1>3, <1>4, <2>1
<1>6. k \in Nat
  BY <1>4 DEF Stacks
<1>7. S!Return(p, S!Value("factory", k, data)) /\ runs' = Append(runs, [exec |-> e, closed |-> 0])
  BY <1>2, <1>3, <1>4 DEF S!FactoryDone
<1>8. runs' \in Seq([exec : Executors, closed : Nat])
  BY <1>3, <1>7 DEF Stacks
<1>9. S!Value("factory", k, data) \in S!Values
  BY <1>5, <1>6, SomeValues
<1>10. QED
  BY <1>1, <1>7, <1>8, <1>9, ReturnFree DEF Stacks, Leaves

(* A request that comes has one frame, which has yet to look. *)
LEMMA ReceiveLeaves ==
    ASSUME Stacks, NEW p \in Handlers, NEW kind \in DOMAIN Asks, Receive(p, kind)
    PROVE  Leaves(p)
<1>1. PICK g : g = S!Resolve(Asks[kind])
  OBVIOUS
<1>2. Asks[kind] \in Executors
  BY DEF Asks, Executors
<1>3. g \in S!Frames /\ g.at = "load"
  BY <1>1, <1>2, SomeValues DEF S!Resolve, S!Frame, S!Frames
<1>4. stack' = [stack EXCEPT ![p] = <<g>>] /\ UNCHANGED <<cache, runs, job>>
  BY <1>1 DEF Receive, S!Get, S!Begin
<1>5. <<g>> \in Seq(S!Frames) /\ Free(<<g>>)
  BY <1>3 DEF Free, Past
<1>6. stack' \in [Handlers -> Seq(S!Frames)] /\ stack'[p] = <<g>>
      /\ \A q \in Handlers \ {p} : stack'[q] = stack[q]
  BY <1>4, <1>5 DEF Stacks
<1>7. QED
  BY <1>4, <1>5, <1>6 DEF Stacks, Leaves

LEMMA HandleLeaves ==
    ASSUME Stacks, MaxCalls \in Nat, NEW p \in Handlers, Handle(p) PROVE Leaves(p)
<1>1. CASE \E kind \in DOMAIN Asks : Receive(p, kind)
  BY <1>1, ReceiveLeaves
<1>2. CASE Serve(p)
  <2>1. job[p].at = "idle" /\ S!Step(p)
    BY <1>2 DEF Stacks, S!NoJob, Serve
  <2>2. /\ \A e : ~S!UpdateSelf(p, e) /\ ~S!UpdateDependent(p, e) /\ ~S!UpdateStore(p, e)
        /\ \A e : ~S!UpdateDelete(p, e) /\ ~S!DisposeRun(p, e)
        /\ ~S!UpdateCancelled(p)
    BY <2>1 DEF S!UpdateSelf, S!UpdateDependent, S!UpdateStore, S!UpdateDelete,
       S!DisposeRun, S!UpdateCancelled
  <2>3. \/ S!Load(p) \/ S!Link(p) \/ S!PreResolve(p) \/ S!StoreValue(p)
        \/ S!FactoryGet(p) \/ S!FactoryFail(p) \/ S!FactoryDone(p)
    BY <2>1, <2>2 DEF S!Step
  <2>4. QED
    BY <2>3, LoadLeaves, LinkLeaves, PreResolveLeaves, StoreValueLeaves, FactoryGetLeaves,
       FactoryFailLeaves, FactoryDoneLeaves
<1>3. CASE UNCHANGED scope
  BY <1>3 DEF scope, Stacks, Leaves
<1>4. QED
  BY <1>1, <1>2, <1>3 DEF Handle, CreateUser, ListUsers, GetUser, LookUp, AddPost,
     ListPosts, GetPost, CountUsers, CountPosts, Calls

(* However many first requests came together: once a storage is cached and *)
(* nobody is about to cache another, it stays the cached one for good.     *)
THEOREM CachedStorageStays == ASSUME MaxCalls \in Nat PROVE ApiSpec => StorageSettles
<1>1. ApiInit => Stacks
  BY SomeValues DEF ApiInit, S!Init, Stacks
<1>2. Stacks /\ [ApiNext]_apiVars => Stacks'
  <2>1. ASSUME Stacks, UNCHANGED apiVars PROVE Stacks'
    BY <2>1 DEF apiVars, scope, Stacks
  <2>2. QED
    BY <2>1, HandleLeaves DEF ApiNext, Leaves
<1>3. ASSUME Stacks, Stacks', [ApiNext]_apiVars
      PROVE  [Settled => Settled' /\ UNCHANGED cache["Storage"]]_apiVars
  <2>1. ASSUME NEW p \in Handlers, Handle(p), Settled
        PROVE  Settled' /\ UNCHANGED cache["Storage"]
    <3>1. cache["Storage"].kind # "none" /\ \A q \in Handlers : Free(stack[q])
      BY <1>3, <2>1, SettledIsFree
    <3>2. Free(stack'[p]) /\ cache'["Storage"] = cache["Storage"]
          /\ \A q \in Handlers \ {p} : stack'[q] = stack[q]
      BY <1>3, <2>1, <3>1, HandleLeaves DEF Leaves
    <3>3. cache'["Storage"].kind # "none" /\ \A q \in Handlers : Free(stack'[q])
      BY <3>1, <3>2
    <3>4. Settled' <=> /\ cache'["Storage"].kind # "none"
                       /\ \A q \in Handlers : Free(stack'[q])
      <4>1. ASSUME NEW q \in Handlers
            PROVE  Free(stack'[q]) <=> \A f \in ToSet(stack'[q]) : Past(f)
        <5>1. stack'[q] \in Seq(S!Frames)
          BY <1>3 DEF Stacks
        <5>2. QED
          BY <5>1, FreeFrames
      <4>2. QED
        BY <4>1 DEF Settled, Past
    <3>5. QED
      BY <3>2, <3>3, <3>4
  <2>2. QED
    BY <1>3, <2>1 DEF ApiNext
<1>4. QED
  BY <1>1, <1>2, <1>3, PTL DEF ApiSpec, StorageSettles
=============================================================================
