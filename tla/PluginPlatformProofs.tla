------------------------ MODULE PluginPlatformProofs -------------------------
(***************************************************************************)
(* Proofs about PluginPlatform, for every set of plugins, whatever they    *)
(* contribute, whatever manifests and configuration a machine has and      *)
(* whatever the activation files say.                                      *)
(*                                                                         *)
(* The properties are not inductive by themselves.  That handlers are in   *)
(* service needs to know which statuses go with an instance (Living), and  *)
(* that a shutdown leaves nothing loaded, that plugins outside the         *)
(* registry never get a status (Absent).  That plugins come after what     *)
(* they need rests on what the search keeps while it goes on (SearchInv):  *)
(* the calls that wait form a chain of dependencies, and a plugin enters   *)
(* the order when the targets it needs are in it.                          *)
(***************************************************************************)
EXTENDS PluginPlatform, TLAPS, SequenceTheorems, WellFoundedInduction

-----------------------------------------------------------------------------
(* The search, for any manifests M and any targets T.                      *)

\* Of how many dependencies the loop of p's visit takes the k-th.
Dep(M, p, k) == ManifestOf(M, p).needs[k].id
Deps(M, p) == Len(ManifestOf(M, p).needs)

\* The targets are numbers, and their loops end.
Given(M, T) == T \in SUBSET Int /\ \A p \in T : Deps(M, p) \in Nat

\* The calls of visit that have not returned: of one plugin at most one, and
\* each was made for a dependency of the one before.
Nested(M) ==
  /\ \A i, j \in 1 .. Len(stack) : stack[i] = stack[j] => i = j
  /\ \A i \in 1 .. Len(stack) - 1 : \E k \in 1 .. Deps(M, stack[i]) :
       Dep(M, stack[i], k) = stack[i + 1]

\* The marks say where a target stands, and no target is forgotten.
Marked(T) ==
  /\ \A p \in T : p \in visiting <=> \E i \in 1 .. Len(stack) : stack[i] = p
  /\ \A p \in T : p \in visited <=> \E j \in 1 .. Len(order) : order[j] = p
  /\ visiting \cap visited = {}
  /\ T \subseteq roots \cup visiting \cup visited
  /\ \A p \in T \ (visiting \cup visited) : looked[p] = 0

\* What a call has taken up is done, but for the dependency it waits for.
TakenUp(M, T) ==
  \A i \in 1 .. Len(stack) :
    /\ looked[stack[i]] <= Deps(M, stack[i])
    /\ \A k \in 1 .. looked[stack[i]] : Dep(M, stack[i], k) \in T =>
         \/ Dep(M, stack[i], k) \in visited
         \/ i < Len(stack) /\ Dep(M, stack[i], k) = stack[i + 1]

\* The order so far: each plugin once, after all it needs.
Ordered(M, T) ==
  /\ \A i, j \in 1 .. Len(order) : order[i] = order[j] => i = j
  /\ \A j \in 1 .. Len(order) : \A k \in 1 .. Deps(M, order[j]) :
       Dep(M, order[j], k) \in T =>
         \E i \in 1 .. j - 1 : order[i] = Dep(M, order[j], k)

SearchInv(M, T) ==
  /\ Given(M, T) /\ SearchTypeOK(T)
  /\ Nested(M) /\ Marked(T) /\ TakenUp(M, T) /\ Ordered(M, T)

\* The search begins with nothing done.
LEMMA SearchBegins ==
  ASSUME NEW M, NEW T, Given(M, T), BeginSearch(T)
  PROVE  SearchInv(M, T)'
<1>1. /\ roots' = T /\ stack' = <<>> /\ order' = <<>>
      /\ looked' = [p \in T |-> 0] /\ visiting' = {} /\ visited' = {}
  BY DEF BeginSearch
<1>2. Len(<<>>) = 0 /\ <<>> \in Seq(T) /\ 1 .. 0 = {} /\ 1 .. -1 = {}
  OBVIOUS
<1>3. SearchTypeOK(T)'
  BY <1>1, <1>2 DEF SearchTypeOK
<1>4. Nested(M)' /\ TakenUp(M, T)' /\ Ordered(M, T)' /\ Marked(T)'
  BY <1>1, <1>2 DEF Nested, TakenUp, Ordered, Marked
<1>5. Given(M, T)'
  BY DEF Given, Deps, ManifestOf
<1> QED
  BY <1>3, <1>4, <1>5 DEF SearchInv

\* Who is where, and how many of each.
LEMMA SearchFacts ==
  ASSUME NEW M, NEW T, SearchInv(M, T)
  PROVE  /\ stack \in Seq(T) /\ Len(stack) \in Nat
         /\ order \in Seq(T) /\ Len(order) \in Nat
         /\ looked \in [T -> Nat]
         /\ roots \subseteq T /\ visiting \subseteq T /\ visited \subseteq T
         /\ \A i \in 1 .. Len(stack) : stack[i] \in T /\ stack[i] \in visiting
         /\ \A j \in 1 .. Len(order) : order[j] \in T /\ order[j] \in visited
         /\ \A q \in T : Deps(M, q) \in Nat
         /\ stack # <<>> => Len(stack) > 0 /\ Top = stack[Len(stack)] /\ Top \in T
<1>1. SearchTypeOK(T) /\ Given(M, T) /\ Marked(T)
  BY DEF SearchInv
<1>2. /\ stack \in Seq(T) /\ order \in Seq(T) /\ looked \in [T -> Nat]
      /\ roots \subseteq T /\ visiting \subseteq T /\ visited \subseteq T
  BY <1>1 DEF SearchTypeOK
<1>3. /\ Len(stack) \in Nat /\ Len(order) \in Nat
      /\ \A i \in 1 .. Len(stack) : stack[i] \in T
      /\ \A j \in 1 .. Len(order) : order[j] \in T
      /\ stack # <<>> => Len(stack) > 0
  BY <1>2
<1>4. /\ \A i \in 1 .. Len(stack) : stack[i] \in visiting
      /\ \A j \in 1 .. Len(order) : order[j] \in visited
  BY <1>1, <1>3 DEF Marked
<1>5. \A q \in T : Deps(M, q) \in Nat
  BY <1>1 DEF Given
<1>6. Top = stack[Len(stack)]
  BY DEF Top, Last
<1>7. stack # <<>> => Top \in T
  BY <1>3, <1>6
<1> QED
  BY <1>2, <1>3, <1>4, <1>5, <1>6, <1>7

\* A plugin that is met for the first time.
LEMMA DescendKeeps ==
  ASSUME NEW M, NEW T, SearchInv(M, T),
         NEW p \in T, p \notin visiting \cup visited, Descend(p),
         roots' \in SUBSET T, roots \ {p} \subseteq roots',
         visited' = visited, order' = order,
         \/ stack = <<>> /\ looked' = looked
         \/ /\ stack # <<>>
            /\ looked[Top] < Deps(M, Top)
            /\ Dep(M, Top, looked[Top] + 1) = p
            /\ looked' = [looked EXCEPT ![Top] = @ + 1]
  PROVE  SearchInv(M, T)'
<1> DEFINE n == Len(stack)
<1>1. /\ stack \in Seq(T) /\ n \in Nat /\ looked \in [T -> Nat]
      /\ \A i \in 1 .. n : stack[i] \in T /\ stack[i] \in visiting
      /\ order \in Seq(T) /\ visiting \subseteq T /\ visited \subseteq T
      /\ \A q \in T : Deps(M, q) \in Nat
  BY SearchFacts
<1>2. /\ stack' \in Seq(T) /\ Len(stack') = n + 1 /\ stack'[n + 1] = p
      /\ \A i \in 1 .. n : stack'[i] = stack[i]
      /\ visiting' = visiting \cup {p}
  BY <1>1, AppendProperties DEF Descend
<1>3. /\ looked' \in [T -> Nat] /\ looked'[p] = 0
      /\ \A q \in T : n = 0 \/ q # stack[n] => looked'[q] = looked[q]
      /\ n > 0 => /\ looked[stack[n]] < Deps(M, stack[n])
                  /\ Dep(M, stack[n], looked[stack[n]] + 1) = p
                  /\ looked'[stack[n]] = looked[stack[n]] + 1
  <2>1. looked[p] = 0
    BY DEF SearchInv, Marked
  <2>2. CASE stack = <<>>
    BY <1>1, <2>1, <2>2
  <2>3. CASE stack # <<>>
    <3>1. n > 0 /\ Top = stack[n] /\ Top \in T
      BY <2>3, SearchFacts
    <3>2. Top # p
      BY <1>1, <3>1
    <3>3. PICK t \in T : t = Top
      BY <3>1
    <3>4. /\ looked[t] < Deps(M, t) /\ Dep(M, t, looked[t] + 1) = p
          /\ looked' = [looked EXCEPT ![t] = looked[t] + 1]
      BY <2>3, <3>3
    <3>5. looked[t] + 1 \in Nat
      BY <1>1
    <3>6. /\ looked' \in [T -> Nat] /\ looked'[t] = looked[t] + 1
          /\ \A q \in T : q # t => looked'[q] = looked[q]
      BY <1>1, <3>4, <3>5
    <3> HIDE DEF n
    <3> QED
      BY <2>1, <3>1, <3>2, <3>3, <3>4, <3>6
  <2> QED
    BY <2>2, <2>3
<1> HIDE DEF n
<1>4. SearchTypeOK(T)'
  BY <1>1, <1>2, <1>3 DEF SearchInv, SearchTypeOK
<1>5. Nested(M)'
  <2>1. ASSUME NEW i \in 1 .. n + 1, NEW j \in 1 .. n + 1, stack'[i] = stack'[j]
        PROVE  i = j
    <3>1. \A x, y \in 1 .. n : stack[x] = stack[y] => x = y
      BY DEF SearchInv, Nested, n
    <3>2. \A x \in 1 .. n : stack'[x] # p
      BY <1>1, <1>2
    <3>3. \A x \in 1 .. n + 1 : x \in 1 .. n \/ x = n + 1
      BY <1>1
    <3>4. CASE i \in 1 .. n /\ j \in 1 .. n
      BY <1>2, <2>1, <3>1, <3>4
    <3> QED
      BY <1>2, <2>1, <3>2, <3>3, <3>4
  <2>2. ASSUME NEW i \in 1 .. n
        PROVE  \E k \in 1 .. Deps(M, stack'[i]) : Dep(M, stack'[i], k) = stack'[i + 1]
    <3>1. CASE i = n
      BY <1>1, <1>2, <1>3, <3>1
    <3>2. CASE i # n
      <4>1. i \in 1 .. n - 1 /\ i + 1 \in 1 .. n
        BY <1>1, <3>2
      <4>2. \E k \in 1 .. Deps(M, stack[i]) : Dep(M, stack[i], k) = stack[i + 1]
        BY <4>1 DEF SearchInv, Nested, n
      <4> QED
        BY <1>2, <4>1, <4>2
    <3> QED
      BY <3>1, <3>2
  <2>3. Len(stack') - 1 = n
    BY <1>1, <1>2
  <2> QED
    BY <1>2, <2>1, <2>2, <2>3 DEF Nested, Deps, Dep
<1>6. Marked(T)'
  <2>1. ASSUME NEW q \in T
        PROVE  q \in visiting' <=> \E i \in 1 .. n + 1 : stack'[i] = q
    <3>1. q \in visiting <=> \E i \in 1 .. n : stack[i] = q
      BY DEF SearchInv, Marked, n
    <3>2. CASE q = p
      BY <1>1, <1>2, <3>2
    <3>3. CASE q # p
      <4>1. \A x \in 1 .. n + 1 : x \in 1 .. n \/ x = n + 1
        BY <1>1
      <4>2. \A x \in 1 .. n : x \in 1 .. n + 1
        BY <1>1
      <4>3. q \in visiting' <=> q \in visiting
        BY <1>2, <3>3
      <4>4. (\E x \in 1 .. n + 1 : stack'[x] = q) <=> \E x \in 1 .. n : stack[x] = q
        BY <1>2, <3>3, <4>1, <4>2
      <4> QED
        BY <3>1, <4>3, <4>4
    <3> QED
      BY <3>2, <3>3
  <2>2. \A q \in T \ (visiting' \cup visited) : looked'[q] = 0
    BY <1>1, <1>2, <1>3 DEF SearchInv, Marked
  <2> QED
    BY <1>2, <2>1, <2>2 DEF SearchInv, Marked
<1>7. TakenUp(M, T)'
  <2>1. SUFFICES ASSUME NEW i \in 1 .. n + 1
                 PROVE  /\ looked'[stack'[i]] <= Deps(M, stack'[i])
                        /\ \A k \in 1 .. looked'[stack'[i]] :
                             Dep(M, stack'[i], k) \in T =>
                               \/ Dep(M, stack'[i], k) \in visited
                               \/ i < n + 1 /\ Dep(M, stack'[i], k) = stack'[i + 1]
    BY <1>2 DEF TakenUp, Dep, Deps
  <2>2. CASE i = n + 1
    BY <1>1, <1>2, <1>3, <2>2
  <2>3. CASE i \in 1 .. n
    <3>1. stack'[i] = stack[i] /\ stack[i] \in T
      BY <1>1, <1>2, <2>3
    <3>2. /\ looked[stack[i]] <= Deps(M, stack[i])
          /\ \A k \in 1 .. looked[stack[i]] : Dep(M, stack[i], k) \in T =>
               \/ Dep(M, stack[i], k) \in visited
               \/ i < n /\ Dep(M, stack[i], k) = stack[i + 1]
      BY <2>3 DEF SearchInv, TakenUp, n
    <3>3. CASE i = n
      <4>1. looked[stack[n]] \in Nat /\ Deps(M, stack[n]) \in Nat
        BY <1>1, <2>3, <3>3
      <4>2. \A k \in 1 .. looked[stack[n]] + 1 :
              k \in 1 .. looked[stack[n]] \/ k = looked[stack[n]] + 1
        BY <4>1
      <4>3. /\ looked'[stack[n]] = looked[stack[n]] + 1 /\ stack'[n] = stack[n]
            /\ looked[stack[n]] < Deps(M, stack[n]) /\ n < n + 1
            /\ Dep(M, stack[n], looked[stack[n]] + 1) = stack'[n + 1]
        BY <1>1, <1>2, <1>3, <2>3, <3>3
      <4>4. looked'[stack[n]] <= Deps(M, stack[n])
        BY <4>1, <4>3
      <4>5. \A k \in 1 .. looked[stack[n]] : Dep(M, stack[n], k) \in T =>
              Dep(M, stack[n], k) \in visited
        BY <1>1, <3>2, <3>3
      <4> QED
        BY <3>3, <4>2, <4>3, <4>4, <4>5
    <3>4. CASE i # n
      <4>1. i + 1 \in 1 .. n /\ i < n /\ n \in 1 .. n
        BY <1>1, <2>3, <3>4
      <4>2. stack[i] # stack[n] /\ stack'[i + 1] = stack[i + 1]
        BY <1>2, <2>3, <3>4, <4>1 DEF SearchInv, Nested, n
      <4>3. looked'[stack[i]] = looked[stack[i]]
        BY <1>3, <3>1, <4>2
      <4> QED
        BY <1>1, <3>1, <3>2, <4>1, <4>2, <4>3
    <3> QED
      BY <3>3, <3>4
  <2> QED
    BY <1>1, <2>2, <2>3
<1>8. Ordered(M, T)' /\ Given(M, T)'
  BY DEF SearchInv, Ordered, Given, Dep, Deps
<1> QED
  BY <1>4, <1>5, <1>6, <1>7, <1>8 DEF SearchInv

\* The outer loop takes up a target.
LEMMA VisitRootKeeps ==
  ASSUME NEW M, NEW T, SearchInv(M, T), NEW p, VisitRoot(p)
  PROVE  SearchInv(M, T)'
<1>1. /\ stack = <<>> /\ p \in roots /\ roots' = roots \ {p} /\ roots \subseteq T
      /\ looked' = looked /\ visited' = visited /\ order' = order
  BY DEF VisitRoot, SearchInv, SearchTypeOK
<1>2. p \notin visiting
  BY <1>1 DEF SearchInv, Marked
<1>3. CASE p \in visited
  <2>1. stack' = stack /\ visiting' = visiting
    BY <1>3 DEF VisitRoot
  <2> QED
    BY <1>1, <1>3, <2>1
    DEF SearchInv, Given, Deps, SearchTypeOK, Nested, Dep, Marked, TakenUp, Ordered
<1>4. CASE p \notin visited
  <2>1. Descend(p)
    BY <1>4 DEF VisitRoot
  <2> QED
    BY <1>1, <1>2, <1>4, <2>1, DescendKeeps
<1> QED
  BY <1>3, <1>4

\* The loop of a call takes up a dependency.
LEMMA LookAtNeedKeeps ==
  ASSUME NEW M, NEW T, SearchInv(M, T), LookAtNeed(M, T)
  PROVE  SearchInv(M, T)'
<1> DEFINE n == Len(stack)
           need == Dep(M, Top, looked[Top] + 1)
<1>1. /\ stack # <<>> /\ looked[Top] < Deps(M, Top)
      /\ need \notin T \cap visiting
      /\ roots' = roots /\ visited' = visited /\ order' = order
      /\ looked' = [looked EXCEPT ![Top] = @ + 1]
  BY DEF LookAtNeed, Looking, RingFound, NextNeed, Dep, Deps
<1>2. IF need \in T \ visited THEN Descend(need)
      ELSE stack' = stack /\ visiting' = visiting
  BY DEF LookAtNeed, NextNeed, Dep
<1>3. roots' \in SUBSET T
  BY <1>1 DEF SearchInv, SearchTypeOK
<1>4. CASE need \in T \ visited
  <2>1. need \in T /\ need \notin visiting \cup visited /\ Descend(need)
    BY <1>1, <1>2, <1>4
  <2>2. PICK p : p = need
    OBVIOUS
  <2> HIDE DEF need
  <2>3. p \in T /\ p \notin visiting \cup visited /\ Descend(p)
    BY <2>1, <2>2
  <2>4. Dep(M, Top, looked[Top] + 1) = p
    BY <2>2 DEF need
  <2>5. roots \ {p} \subseteq roots'
    BY <1>1
  <2> QED
    BY <1>1, <1>3, <2>3, <2>4, <2>5, DescendKeeps
<1>5. CASE need \notin T \ visited
  <2>1. stack' = stack /\ visiting' = visiting
    BY <1>2, <1>5
  <2>2. /\ n \in Nat /\ n > 0 /\ Top = stack[n] /\ stack[n] \in T
        /\ looked \in [T -> Nat]
        /\ \A i \in 1 .. n : stack[i] \in T
        /\ \A q \in T : Deps(M, q) \in Nat
    BY <1>1 DEF SearchInv, SearchTypeOK, Given, Top, Last
  <2> DEFINE t == stack[n]
  <2>3. /\ looked' \in [T -> Nat] /\ looked'[t] = looked[t] + 1
        /\ \A q \in T : q # t => looked'[q] = looked[q]
        /\ looked[t] < Deps(M, t)
        /\ Dep(M, t, looked[t] + 1) \in T => Dep(M, t, looked[t] + 1) \in visited
    BY <1>1, <1>5, <2>2
  <2>4. t \in visiting
    BY <2>2 DEF SearchInv, Marked
  <2> HIDE DEF need, n
  <2>5. SearchTypeOK(T)'
    BY <1>1, <2>1, <2>3 DEF SearchInv, SearchTypeOK
  <2>6. Marked(T)'
    BY <1>1, <2>1, <2>3, <2>4 DEF SearchInv, Marked
  <2>7. TakenUp(M, T)'
    <3>1. SUFFICES ASSUME NEW i \in 1 .. n
                   PROVE  /\ looked'[stack[i]] <= Deps(M, stack[i])
                          /\ \A k \in 1 .. looked'[stack[i]] :
                               Dep(M, stack[i], k) \in T =>
                                 \/ Dep(M, stack[i], k) \in visited
                                 \/ i < n /\ Dep(M, stack[i], k) = stack[i + 1]
      BY <1>1, <2>1 DEF TakenUp, Dep, Deps, n
    <3>2. /\ looked[stack[i]] <= Deps(M, stack[i])
          /\ \A k \in 1 .. looked[stack[i]] : Dep(M, stack[i], k) \in T =>
               \/ Dep(M, stack[i], k) \in visited
               \/ i < n /\ Dep(M, stack[i], k) = stack[i + 1]
      BY DEF SearchInv, TakenUp, n
    <3>3. CASE stack[i] = t
      <4>1. looked[t] \in Nat /\ Deps(M, t) \in Nat
        BY <2>2
      <4>2. \A k \in 1 .. looked[t] + 1 : k \in 1 .. looked[t] \/ k = looked[t] + 1
        BY <4>1
      <4> HIDE DEF t
      <4> QED
        BY <2>3, <3>2, <3>3, <4>1, <4>2
    <3>4. CASE stack[i] # t
      <4>1. looked'[stack[i]] = looked[stack[i]]
        BY <2>2, <2>3, <3>4
      <4> QED
        BY <3>2, <4>1
    <3> QED
      BY <3>3, <3>4
  <2>8. Nested(M)' /\ Ordered(M, T)' /\ Given(M, T)'
    BY <1>1, <2>1 DEF SearchInv, Nested, Ordered, Given, Dep, Deps
  <2> QED
    BY <2>5, <2>6, <2>7, <2>8 DEF SearchInv
<1> QED
  BY <1>4, <1>5

\* A call that returns has nothing left to wait for.
LEMMA FinishVisitKeeps ==
  ASSUME NEW M, NEW T, SearchInv(M, T), FinishVisit(M)
  PROVE  SearchInv(M, T)'
<1> DEFINE n == Len(stack)
           t == stack[n]
           m == Len(order)
<1>1. /\ stack # <<>> /\ ~(looked[Top] < Deps(M, Top))
      /\ roots' = roots /\ looked' = looked
      /\ visiting' = visiting \ {Top} /\ visited' = visited \cup {Top}
      /\ order' = Append(order, Top) /\ stack' = SubSeq(stack, 1, n - 1)
  BY DEF FinishVisit, Looking, Deps, Front
<1>2. /\ stack \in Seq(T) /\ n \in Nat /\ n > 0 /\ Top = t /\ t \in T
      /\ looked \in [T -> Nat] /\ order \in Seq(T) /\ m \in Nat
      /\ \A i \in 1 .. n : stack[i] \in T /\ stack[i] \in visiting
      /\ \A j \in 1 .. m : order[j] \in T /\ order[j] \in visited
      /\ \A q \in T : Deps(M, q) \in Nat
      /\ visiting \subseteq T /\ visited \subseteq T
  BY <1>1, SearchFacts
<1>3. /\ stack' \in Seq(T) /\ Len(stack') = n - 1
      /\ \A i \in 1 .. n - 1 : stack'[i] = stack[i]
  <2>1. \A i \in 1 .. n - 1 : stack[i] \in T
    BY <1>2
  <2>2. 1 \in Int /\ n - 1 \in Int
    BY <1>2
  <2>3. /\ SubSeq(stack, 1, n - 1) \in Seq(T)
        /\ Len(SubSeq(stack, 1, n - 1))
             = IF 1 <= n - 1 THEN n - 1 - 1 + 1 ELSE 0
        /\ \A i \in 1 .. n - 1 - 1 + 1 :
             SubSeq(stack, 1, n - 1)[i] = stack[1 + i - 1]
    BY <2>1, <2>2, SubSeqProperties
  <2>4. Len(SubSeq(stack, 1, n - 1)) = n - 1
    <3>1. \A x \in Nat :
            x > 0 => (IF 1 <= x - 1 THEN x - 1 - 1 + 1 ELSE 0) = x - 1
      OBVIOUS
    <3>2. n \in Nat /\ n > 0
      BY <1>2
    <3> HIDE DEF n
    <3> QED
      BY <2>3, <3>1, <3>2
  <2>5. \A i \in 1 .. n - 1 : i \in 1 .. n - 1 - 1 + 1 /\ 1 + i - 1 = i
    BY <1>2
  <2> HIDE DEF n
  <2> QED
    BY <1>1, <2>3, <2>4, <2>5
<1>4. /\ order' \in Seq(T) /\ Len(order') = m + 1 /\ order'[m + 1] = t
      /\ \A j \in 1 .. m : order'[j] = order[j]
  BY <1>1, <1>2, AppendProperties
<1>5. t \in visiting /\ t \notin visited
  BY <1>2 DEF SearchInv, Marked
<1>6. \A k \in 1 .. Deps(M, t) : Dep(M, t, k) \in T => Dep(M, t, k) \in visited
  <2>1. n \in 1 .. n /\ ~(n < n)
    BY <1>2
  <2>2. /\ looked[t] <= Deps(M, t)
        /\ \A k \in 1 .. looked[t] : Dep(M, t, k) \in T =>
             Dep(M, t, k) \in visited
    BY <2>1 DEF SearchInv, TakenUp
  <2>3. looked[t] \in Nat /\ Deps(M, t) \in Nat /\ ~(looked[t] < Deps(M, t))
    BY <1>1, <1>2
  <2>4. looked[t] = Deps(M, t)
    BY <2>2, <2>3
  <2> QED
    BY <2>2, <2>4
<1>7. /\ visiting' = visiting \ {t} /\ visited' = visited \cup {t}
      /\ roots' = roots /\ looked' = looked
  BY <1>1, <1>2
<1>8. /\ \A i \in 1 .. n : stack[i] = t => i = n
      /\ \A q \in T : q \in visiting <=> \E i \in 1 .. n : stack[i] = q
      /\ \A q \in T : q \in visited <=> \E j \in 1 .. m : order[j] = q
  <2>1. n \in 1 .. n
    BY <1>2
  <2>2. \A i \in 1 .. n : stack[i] = t => i = n
    BY <2>1 DEF SearchInv, Nested
  <2>3. /\ \A q \in T : q \in visiting <=> \E i \in 1 .. n : stack[i] = q
        /\ \A q \in T : q \in visited <=> \E j \in 1 .. m : order[j] = q
    BY DEF SearchInv, Marked
  <2> QED
    BY <2>2, <2>3
<1> HIDE DEF n, t, m
<1>9. SearchTypeOK(T)'
  BY <1>2, <1>3, <1>4, <1>7 DEF SearchInv, SearchTypeOK
<1>10. Nested(M)'
  <2>1. \A i, j \in 1 .. n : stack[i] = stack[j] => i = j
    BY DEF SearchInv, Nested, n
  <2>2. \A i \in 1 .. n - 1 : \E k \in 1 .. Deps(M, stack[i]) :
          Dep(M, stack[i], k) = stack[i + 1]
    BY DEF SearchInv, Nested, n
  <2>3. \A i \in 1 .. n - 1 - 1 : i \in 1 .. n - 1 /\ i + 1 \in 1 .. n - 1
    BY <1>2
  <2>4. \A i \in 1 .. n - 1 : i \in 1 .. n
    BY <1>2
  <2> QED
    BY <1>3, <2>1, <2>2, <2>3, <2>4 DEF Nested, Dep, Deps
<1>11. Marked(T)'
  <2>1. ASSUME NEW q \in T
        PROVE  q \in visiting' <=> \E i \in 1 .. n - 1 : stack'[i] = q
    <3>1. CASE q = t
      <4>1. q \notin visiting'
        BY <1>7, <3>1
      <4>2. \A i \in 1 .. n - 1 : i \in 1 .. n /\ i # n
        BY <1>2
      <4>3. \A i \in 1 .. n - 1 : stack'[i] # t
        BY <1>3, <1>8, <4>2
      <4> QED
        BY <3>1, <4>1, <4>3
    <3>2. CASE q # t
      <4>1. stack[n] = t
        BY DEF t
      <4>2. \A i \in 1 .. n : i = n \/ i \in 1 .. n - 1
        BY <1>2
      <4>3. \A i \in 1 .. n - 1 : i \in 1 .. n
        BY <1>2
      <4> QED
        BY <1>3, <1>7, <1>8, <3>2, <4>1, <4>2, <4>3
    <3> QED
      BY <3>1, <3>2
  <2>2. ASSUME NEW q \in T
        PROVE  q \in visited' <=> \E j \in 1 .. m + 1 : order'[j] = q
    <3>1. \A j \in 1 .. m + 1 : j \in 1 .. m \/ j = m + 1
      BY <1>2
    <3>2. m + 1 \in 1 .. m + 1 /\ \A j \in 1 .. m : j \in 1 .. m + 1
      BY <1>2
    <3>3. q \in visited <=> \E j \in 1 .. m : order[j] = q
      BY <1>8
    <3>4. q \in visited' <=> q \in visited \/ q = t
      BY <1>7
    <3> QED
      BY <1>4, <3>1, <3>2, <3>3, <3>4
  <2>3. /\ visiting' \cap visited' = {}
        /\ T \subseteq roots' \cup visiting' \cup visited'
        /\ \A q \in T \ (visiting' \cup visited') : looked'[q] = 0
    BY <1>5, <1>7 DEF SearchInv, Marked
  <2> QED
    BY <1>3, <1>4, <2>1, <2>2, <2>3 DEF Marked
<1>12. TakenUp(M, T)'
  <2>1. SUFFICES ASSUME NEW i \in 1 .. n - 1
                 PROVE  /\ looked[stack[i]] <= Deps(M, stack[i])
                        /\ \A k \in 1 .. looked[stack[i]] :
                             Dep(M, stack[i], k) \in T =>
                               \/ Dep(M, stack[i], k) \in visited'
                               \/ /\ i < n - 1
                                  /\ Dep(M, stack[i], k) = stack'[i + 1]
    BY <1>3, <1>7 DEF TakenUp, Dep, Deps
  <2>2. /\ looked[stack[i]] <= Deps(M, stack[i])
        /\ \A k \in 1 .. looked[stack[i]] : Dep(M, stack[i], k) \in T =>
             \/ Dep(M, stack[i], k) \in visited
             \/ i < n /\ Dep(M, stack[i], k) = stack[i + 1]
    BY <1>2 DEF SearchInv, TakenUp, n
  <2>3. CASE i = n - 1
    <3>1. stack[i + 1] = t
      BY <1>2, <2>3 DEF t
    <3> QED
      BY <1>7, <2>2, <3>1
  <2>4. CASE i # n - 1
    <3>1. i + 1 \in 1 .. n - 1 /\ i < n - 1
      BY <1>2, <2>4
    <3>2. stack'[i + 1] = stack[i + 1]
      BY <1>3, <3>1
    <3>3. visited \subseteq visited'
      BY <1>7
    <3> QED
      BY <2>2, <3>1, <3>2, <3>3
  <2> QED
    BY <2>3, <2>4
<1>13. Ordered(M, T)'
  <2>1. \A i, j \in 1 .. m : order[i] = order[j] => i = j
    BY DEF SearchInv, Ordered, m
  <2>2. \A j \in 1 .. m : \A k \in 1 .. Deps(M, order[j]) :
          Dep(M, order[j], k) \in T => \E i \in 1 .. j - 1 : order[i] = Dep(M, order[j], k)
    BY DEF SearchInv, Ordered, m
  <2>3. \A j \in 1 .. m : order[j] # t
    BY <1>2, <1>5
  <2>4. ASSUME NEW i \in 1 .. m + 1, NEW j \in 1 .. m + 1, order'[i] = order'[j]
        PROVE  i = j
    <3>1. \A x \in 1 .. m + 1 : x \in 1 .. m \/ x = m + 1
      BY <1>2
    <3>2. CASE i \in 1 .. m /\ j \in 1 .. m
      BY <1>4, <2>1, <2>4, <3>2
    <3> QED
      BY <1>4, <2>3, <2>4, <3>1, <3>2
  <2>5. ASSUME NEW j \in 1 .. m + 1, NEW k \in 1 .. Deps(M, order'[j]),
               Dep(M, order'[j], k) \in T
        PROVE  \E i \in 1 .. j - 1 : order'[i] = Dep(M, order'[j], k)
    <3>1. CASE j = m + 1
      <4>1. order'[j] = t /\ Dep(M, t, k) \in visited /\ Dep(M, t, k) \in T
        BY <1>4, <1>6, <2>5, <3>1
      <4>2. PICK i \in 1 .. m : order[i] = Dep(M, t, k)
        BY <1>8, <4>1
      <4>3. i \in 1 .. j - 1
        BY <1>2, <3>1
      <4> QED
        BY <1>4, <4>1, <4>2, <4>3
    <3>2. CASE j \in 1 .. m
      <4>1. order'[j] = order[j]
        BY <1>4, <3>2
      <4>2. PICK i \in 1 .. j - 1 : order[i] = Dep(M, order[j], k)
        BY <2>2, <2>5, <3>2, <4>1
      <4>3. i \in 1 .. m
        BY <1>2, <3>2
      <4> QED
        BY <1>4, <4>1, <4>2, <4>3
    <3> QED
      BY <1>2, <3>1, <3>2
  <2> QED
    BY <1>4, <2>4, <2>5 DEF Ordered, Dep, Deps
<1>14. Given(M, T)'
  BY DEF SearchInv, Given, Deps
<1> QED
  BY <1>9, <1>10, <1>11, <1>12, <1>13, <1>14 DEF SearchInv

\* A plugin needs what its loop takes up.
LEMMA NeedsAreDeps ==
  ASSUME NEW M, NEW p, ManifestOf(M, p).needs \in Seq(Requirement)
  PROVE  /\ Deps(M, p) \in Nat
         /\ Needs(M, p) = {Dep(M, p, k) : k \in 1 .. Deps(M, p)}
<1> DEFINE s == ManifestOf(M, p).needs
<1>1. DOMAIN s = 1 .. Len(s) /\ Len(s) \in Nat
  BY LenProperties
<1>2. Needs(M, p) = {s[k].id : k \in DOMAIN s}
  BY DEF Needs, ToSet
<1> QED
  BY <1>1, <1>2 DEF Dep, Deps

\* A ring the search comes upon is one.
LEMMA RingIsCircular ==
  ASSUME NEW M, NEW T, SearchInv(M, T), RingFound(M, T),
         \A p \in T : ManifestOf(M, p).needs \in Seq(Requirement)
  PROVE  Circular(M, T)
<1> DEFINE n == Len(stack)
           need == Dep(M, Top, looked[Top] + 1)
<1>1. /\ stack # <<>> /\ looked[Top] < Deps(M, Top) /\ need \in T \cap visiting
  BY DEF RingFound, Looking, NextNeed, Dep, Deps
<1>2. /\ n \in Nat /\ n > 0 /\ Top = stack[n] /\ \A i \in 1 .. n : stack[i] \in T
      /\ looked[Top] \in Nat
      /\ \A q \in T : Deps(M, q) \in Nat
  <2>1. n \in Nat /\ n > 0 /\ Top = stack[n] /\ Top \in T
    BY <1>1, SearchFacts
  <2>2. looked[Top] \in Nat
    <3>1. looked \in [T -> Nat]
      BY SearchFacts
    <3> QED
      BY <2>1, <3>1
  <2> QED
    BY <2>1, <2>2, SearchFacts
<1>3. PICK j \in 1 .. n : stack[j] = need
  BY <1>1 DEF SearchInv, Marked
<1> DEFINE ring == {stack[i] : i \in j .. n}
<1>4. ring \in SUBSET T /\ ring # {}
  BY <1>2
<1>5. \A i \in 1 .. n - 1 : stack[i + 1] \in Needs(M, stack[i])
  <2>1. TAKE i \in 1 .. n - 1
  <2>2. PICK k \in 1 .. Deps(M, stack[i]) : Dep(M, stack[i], k) = stack[i + 1]
    BY DEF SearchInv, Nested
  <2>3. ManifestOf(M, stack[i]).needs \in Seq(Requirement)
    BY <1>2
  <2>4. PICK p : p = stack[i]
    OBVIOUS
  <2>5. Needs(M, p) = {Dep(M, p, x) : x \in 1 .. Deps(M, p)}
    BY <2>3, <2>4, NeedsAreDeps
  <2> QED
    BY <2>2, <2>4, <2>5
<1>6. stack[j] \in Needs(M, stack[n])
  <2>1. looked[Top] + 1 \in 1 .. Deps(M, Top) /\ Top \in T
    BY <1>1, <1>2
  <2> QED
    BY <1>2, <1>3, <2>1, NeedsAreDeps
<1>7. ASSUME NEW p \in ring
      PROVE  Needs(M, p) \cap ring # {}
  <2>1. PICK i \in j .. n : p = stack[i]
    OBVIOUS
  <2>2. CASE i = n
    BY <1>2, <1>6, <2>1, <2>2
  <2>3. CASE i # n
    <3>1. i \in 1 .. n - 1 /\ i + 1 \in j .. n
      BY <1>2, <2>3
    <3> QED
      BY <1>5, <2>1, <3>1
  <2> QED
    BY <2>2, <2>3
<1> QED
  BY <1>4, <1>7 DEF Circular

\* A sequence is one over any set its elements are in.
LEMMA SeqWithin ==
  ASSUME NEW U, NEW S, NEW s \in Seq(U), NEW n \in Nat, Len(s) = n,
         \A i \in 1 .. n : s[i] \in S
  PROVE  s \in Seq(S)
<1>1. s \in [1 .. n -> U]
  BY LenProperties
<1>2. s \in [1 .. n -> S]
  BY <1>1
<1> QED
  BY <1>2, SeqDef

\* A set of numbers that is not empty has a least element.
LEMMA LeastNumber ==
  ASSUME NEW T \in SUBSET Nat, T # {}
  PROVE  \E n \in T : \A m \in T : n <= m
<1> DEFINE R == OpToRel(<, Nat)
<1>1. IsWellFoundedOn(R, Nat)
  BY NatLessThanWellFounded DEF OpToRel
<1>2. PICK x \in T : \A y \in T : ~(<<y, x>> \in R)
  <2> HIDE DEF R
  <2> QED
    BY <1>1, WFMin
<1>3. \A y \in T : ~(y < x)
  BY <1>2 DEF OpToRel
<1> QED
  BY <1>3

\* In sequence s every plugin has one turn, after those of s it needs.
OneTurnEach(s, M) ==
  /\ \A i, j \in 1 .. Len(s) : s[i] = s[j] => i = j
  /\ \A i, j \in 1 .. Len(s) : j <= i => s[i] \notin Needs(M, s[j])

\* Every plugin of S has.
InTurn(s, S, M) ==
  /\ s \in Seq(S)
  /\ \A p \in S : \E i \in 1 .. Len(s) : s[i] = p
  /\ OneTurnEach(s, M)

\* When the search is through every target is in order, and there is no ring:
\* the first of its plugins to be done would have had to wait for another.
LEMMA ExhaustedInTurn ==
  ASSUME NEW M, NEW T, SearchInv(M, T), Exhausted,
         \A p \in T : ManifestOf(M, p).needs \in Seq(Requirement)
  PROVE  InTurn(order, T, M) /\ ~Circular(M, T)
<1> DEFINE m == Len(order)
<1>1. /\ order \in Seq(T) /\ m \in Nat /\ \A j \in 1 .. m : order[j] \in T
      /\ stack = <<>> /\ roots = {}
  BY DEF SearchInv, SearchTypeOK, Exhausted
<1>2. \A p \in T : \E j \in 1 .. m : order[j] = p
  BY <1>1 DEF SearchInv, Marked
<1>3. \A i, j \in 1 .. m : order[i] = order[j] => i = j
  BY DEF SearchInv, Ordered
<1>4. ASSUME NEW j \in 1 .. m, NEW p \in T, p \in Needs(M, order[j])
      PROVE  \E i \in 1 .. j - 1 : order[i] = p
  <2>1. PICK k \in 1 .. Deps(M, order[j]) : p = Dep(M, order[j], k)
    BY <1>1, <1>4, NeedsAreDeps
  <2> QED
    BY <1>4, <2>1 DEF SearchInv, Ordered
<1> HIDE DEF m
<1>5. ASSUME NEW i \in 1 .. m, NEW j \in 1 .. m, j <= i
      PROVE  order[i] \notin Needs(M, order[j])
  <2>1. SUFFICES ASSUME order[i] \in Needs(M, order[j])
                 PROVE  FALSE
    OBVIOUS
  <2>2. PICK h \in 1 .. j - 1 : order[h] = order[i]
    BY <1>1, <1>4, <2>1
  <2>3. h \in 1 .. m /\ h < i
    BY <1>1, <1>5, <2>2
  <2> QED
    BY <1>3, <2>2, <2>3
<1>6. ~Circular(M, T)
  <2>1. SUFFICES ASSUME NEW ring \in SUBSET T, ring # {},
                        \A p \in ring : Needs(M, p) \cap ring # {}
                 PROVE  FALSE
    BY DEF Circular
  <2> DEFINE places == {j \in 1 .. m : order[j] \in ring}
  <2>2. places \in SUBSET Nat /\ places # {}
    <3>1. PICK p \in ring : p \in T
      BY <2>1
    <3>2. PICK j \in 1 .. m : order[j] = p
      BY <1>2, <3>1
    <3>3. 1 .. m \subseteq Nat
      BY <1>1
    <3> QED
      BY <3>2, <3>3
  <2>3. PICK j \in places : \A i \in places : j <= i
    <3> HIDE DEF places
    <3> QED
      BY <2>2, LeastNumber
  <2>4. PICK p \in ring : p \in Needs(M, order[j])
    BY <2>1
  <2>5. PICK i \in 1 .. j - 1 : order[i] = p
    BY <1>4, <2>1, <2>4
  <2>6. i \in places /\ i < j
    BY <1>1, <2>4, <2>5
  <2> QED
    BY <2>3, <2>6
<1> QED
  BY <1>1, <1>2, <1>3, <1>5, <1>6 DEF InTurn, OneTurnEach, m

-----------------------------------------------------------------------------
(* The invariant.                                                          *)

\* Types, and what is known of a plugin that has no turn yet or is in hand.
Typed ==
  /\ installation \in Installations
  /\ PlatformTypeOK

\* The plugin is loaded in the sense that its status says so.
Serving == {"initialized", "active"}

\* An instance lives from on_load to the unload, also where activation failed.
Living ==
  \A p \in Plugins :
    /\ status[p] \in Serving => live[p]
    /\ live[p] => status[p] \in Serving \cup {"failed"}
    /\ loads[p] = IF live[p] THEN 1 ELSE 0
    /\ status[p] = "active" => p \in merged

\* A plugin that is not in the registry has no record.
Absent == \A p \in Plugins : p \notin KnownIds => status[p] = "absent"

\* Nothing waits for its turn outside a start.
Started == phase \notin {"starting", "crashed"} => pending = <<>>

\* Without a runtime there is nothing.
Fresh ==
  phase = "down" =>
    /\ \A p \in Plugins : status[p] = "absent" /\ ~live[p] /\ loads[p] = 0
    /\ merged = {} /\ bus = {} /\ pending = <<>>

\* A shutdown that has ended has left no instance.
Stopped == phase = "stopped" => \A p \in Plugins : ~live[p]

\* What waits for its turn is in turn.
Queued == OneTurnEach(pending, Known)

\* While the search goes on it is as it should be, and no plugin is active.
Resolving ==
  phase = "resolving" =>
    /\ \A M, T : M = Known /\ T = Targets => SearchInv(M, T)
    /\ \A p \in Plugins : status[p] # "active"

IInv ==
  /\ Typed /\ Living /\ Absent /\ Started /\ Fresh /\ Stopped
  /\ Queued /\ Resolving /\ DependenciesFirst /\ HandlersInService

-----------------------------------------------------------------------------
(* Lemmas.                                                                 *)

\* The plugins of the registry are plugins, one manifest each.
LEMMA KnownUnique ==
  ASSUME installation \in Installations
  PROVE  /\ KnownIds \subseteq Plugins
         /\ \A m, n \in Known : m.id = n.id => m = n
<1> DEFINE here == installation.plugins[Config.plugin_paths]
<1>1. \A m, n \in here :
        /\ m.id \in Plugins /\ m.place \in Int
        /\ m.id = n.id /\ m.place = n.place => m = n
  BY ManifestsPlaced DEF Config
<1>2. Known \subseteq here
  BY DEF Known, Discovered
<1>3. ASSUME NEW m \in Known, NEW n \in Known, m.id = n.id
      PROVE  m = n
  <2>1. Known = Discovered(here)
    BY DEF Known
  <2>2. m.parses /\ n.parses /\ m.place <= n.place /\ n.place <= m.place
    BY <2>1, <1>3 DEF Discovered
  <2>3. m.place = n.place
    BY <1>1, <1>2, <2>2
  <2> QED
    BY <1>1, <1>2, <2>3, <1>3
<1> QED
  BY <1>1, <1>2, <1>3 DEF KnownIds

\* A status given by the selection is one of four.
LEMMA StatusSelectedType ==
  ASSUME NEW m, NEW activation
  PROVE  StatusSelected(m, activation)
           \in {"disabled", "discovered", "validated", "failed"}
BY DEF StatusSelected

\* What is selected is in the registry, and its status says so.
LEMMA SelectedValidated ==
  ASSUME installation \in Installations,
         NEW activation, NEW p \in Selected(Known, activation)
  PROVE  /\ p \in KnownIds
         /\ StatusSelected(ManifestOf(Known, p), activation) = "validated"
<1>1. PICK m \in Known : m.id = p /\ StatusSelected(m, activation) = "validated"
  BY DEF Selected
<1>2. ManifestOf(Known, p) = m
  <2>1. ManifestOf(Known, p) \in Known /\ ManifestOf(Known, p).id = p
    BY <1>1 DEF ManifestOf
  <2> QED
    BY <1>1, <2>1, KnownUnique
<1> QED
  BY <1>1, <1>2 DEF KnownIds

\* The plugins of the registry say what they need in a sequence.
LEMMA RequirementsGiven ==
  ASSUME installation \in Installations, NEW p \in KnownIds
  PROVE  p \in Int /\ ManifestOf(Known, p).needs \in Seq(Requirement)
<1>1. PICK m \in Known : m.id = p
  BY DEF KnownIds
<1>2. ManifestOf(Known, p) \in Known /\ ManifestOf(Known, p).id = p
  BY <1>1 DEF ManifestOf
<1>3. Known \subseteq installation.plugins[Config.plugin_paths]
  BY DEF Known, Discovered
<1>4. ManifestOf(Known, p).needs \in Seq(Requirement)
  BY <1>2, <1>3, ManifestsPlaced DEF Config
<1> QED
  BY <1>4, KnownUnique, PluginsAreNumbers

\* What is searched is plugins of the registry.
LEMMA TargetsKnown ==
  ASSUME installation \in Installations, Absent
  PROVE  /\ Targets \subseteq KnownIds /\ Chosen \subseteq KnownIds
         /\ Chosen \subseteq Plugins
BY DEF Targets, TargetsOf, Chosen, Absent

\* A step in which the search rests.
LEMMA SearchAside ==
  ASSUME SearchTyped, UNCHANGED search, phase' # "resolving"
  PROVE  SearchTyped' /\ Resolving'
<1>1. PICK targets \in SUBSET Plugins : SearchTypeOK(targets)
  BY DEF SearchTyped
<1>2. SearchTypeOK(targets)'
  BY <1>1 DEF SearchTypeOK, search
<1> QED
  BY <1>2 DEF SearchTyped, Resolving

\* What is searched is typed.
LEMMA SearchInvTyped ==
  ASSUME NEW M, NEW T \in SUBSET Plugins, SearchInv(M, T)'
  PROVE  SearchTyped'
BY DEF SearchInv, SearchTyped

\* Nothing waits.
LEMMA NothingQueued ==
  ASSUME pending' = <<>>
  PROVE  Queued' /\ DependenciesFirst' /\ \A S : pending' \in Seq(S)
<1>1. Len(<<>>) = 0 /\ 1 .. 0 = {} /\ ToSet(<<>>) = {} /\ \A S : <<>> \in Seq(S)
  BY DEF ToSet
<1> QED
  BY <1>1 DEF Queued, OneTurnEach, DependenciesFirst

-----------------------------------------------------------------------------
(* The invariant, action by action.                                        *)

\* A machine starts with nothing.
LEMMA InitIInv == Init => IInv
<1> SUFFICES ASSUME Init
             PROVE  IInv
  OBVIOUS
<1>1. Typed
  <2>1. SearchTypeOK({})
    BY DEF Init, SearchInit, SearchTypeOK
  <2>2. SearchTyped
    BY <2>1 DEF SearchTyped
  <2>3. pending \in Seq(Chosen)
    BY DEF Init
  <2> QED
    BY <2>2, <2>3 DEF Init, Typed, PlatformTypeOK, Phases, Statuses, InHand, NoWorkers
<1>2. Living /\ Absent /\ Started /\ Fresh /\ Stopped
  BY DEF Init, Living, Serving, Absent, Started, Fresh, Stopped
<1>3. Queued /\ Resolving
  BY DEF Init, Queued, OneTurnEach, Resolving
<1>4. DependenciesFirst /\ HandlersInService
  BY DEF Init, DependenciesFirst, HandlersInService, SubscriptionsOf
<1> QED
  BY <1>1, <1>2, <1>3, <1>4 DEF IInv

\* The registry depends on the machine alone.
LEMMA RegistryFixed ==
  ASSUME installation' = installation
  PROVE  /\ Known' = Known
         /\ KnownIds' = KnownIds
         /\ \A p : Needs(Known, p)' = Needs(Known, p)
<1>1. Known' = Known
  BY DEF Known, Config
<1> QED
  BY <1>1 DEF KnownIds, Needs

\* A step that neither selects nor takes anything leaves the queue alone.
LEMMA QueueStays ==
  ASSUME IInv, installation' = installation, pending' = pending,
         \A q \in Plugins : status'[q] = "validated" <=> status[q] = "validated"
  PROVE  pending' \in Seq(Chosen') /\ Queued'
<1>1. Chosen' = Chosen
  BY DEF Chosen
<1>2. pending \in Seq(Chosen)
  BY DEF IInv, Typed, PlatformTypeOK
<1>3. Queued'
  BY RegistryFixed DEF IInv, Queued, OneTurnEach
<1> QED
  BY <1>1, <1>2, <1>3

(***************************************************************************)
(* The start of a runtime: a search begins on what is selected.            *)
(***************************************************************************)
LEMMA StartRuntimeKeeps ==
  ASSUME IInv, StartRuntime
  PROVE  IInv'
<1> DEFINE selected == Selected(Known, Activation)
           targets == TargetsOf(selected)
           refused == \E p \in targets : Unmet(Known, p) # {}
<1>1. installation' = installation
  BY DEF StartRuntime
<1>2. /\ Known' = Known /\ KnownIds' = KnownIds
      /\ \A p : Needs(Known, p)' = Needs(Known, p)
  BY <1>1, RegistryFixed
<1>3. /\ phase = "down" /\ phase' = IF refused THEN "starting" ELSE "resolving"
      /\ status' = [p \in Plugins |->
             IF p \notin KnownIds THEN "absent"
             ELSE IF refused /\ p \in selected THEN "failed"
             ELSE StatusSelected(ManifestOf(Known, p), Activation)]
      /\ BeginSearch(IF refused THEN {} ELSE targets)
      /\ live' = live /\ merged' = merged /\ bus' = bus /\ loads' = loads
      /\ heard' = {} /\ pending' = pending
  BY DEF StartRuntime
<1>4. /\ \A p \in Plugins : ~live[p] /\ loads[p] = 0
      /\ merged = {} /\ bus = {} /\ pending = <<>>
  BY <1>3 DEF IInv, Fresh
<1>5. installation \in Installations /\ KnownIds \subseteq Plugins
  BY KnownUnique DEF IInv, Typed
<1>6. \A p \in Plugins :
        status'[p] \in {"absent", "failed", "disabled", "discovered", "validated"}
  BY <1>3, StatusSelectedType
<1>7. Queued' /\ DependenciesFirst' /\ pending' \in Seq(Chosen')
  BY <1>3, <1>4, NothingQueued
<1>8. workers' = RegisterWorkers(
                   RegisterWorkers(NoWorkers, ManifestWorkers, By("manifest", Unset)),
                   Mocks, By("mock", Unset))
  BY DEF StartRuntime
<1>9. \A w \in DOMAIN workers' : workers'[w].kind # "plugin"
  BY <1>8 DEF RegisterWorkers, NoWorkers, By
<1>10. ASSUME ~refused
       PROVE  Chosen' = selected /\ Targets' = targets
  <2>1. ASSUME NEW p \in Plugins
        PROVE  status'[p] = "validated" <=> p \in selected
    <3>1. CASE p \in KnownIds
      <4>1. status'[p] = StatusSelected(ManifestOf(Known, p), Activation)
        BY <1>3, <1>10, <3>1
      <4>2. ManifestOf(Known, p) \in Known /\ ManifestOf(Known, p).id = p
        BY <3>1 DEF KnownIds, ManifestOf
      <4>3. status'[p] = "validated" => p \in selected
        BY <4>1, <4>2 DEF Selected
      <4> QED
        BY <1>5, <4>1, <4>3, SelectedValidated
    <3>2. CASE p \notin KnownIds
      <4>1. status'[p] = "absent"
        BY <1>3, <3>2
      <4>2. p \notin selected
        BY <1>5, <3>2, SelectedValidated
      <4> QED
        BY <4>1, <4>2
    <3> QED
      BY <3>1, <3>2
  <2>2. selected \subseteq Plugins
    BY <1>5, SelectedValidated
  <2>3. Chosen' = {p \in Plugins : status'[p] = "validated"}
    BY DEF Chosen
  <2>4. Chosen' = selected
    BY <2>1, <2>2, <2>3
  <2> QED
    BY <1>2, <2>4 DEF Targets, TargetsOf
<1>11. SearchTyped' /\ Resolving'
  <2>1. CASE refused
    <3>1. SearchTypeOK({})'
      BY <1>3, <2>1 DEF BeginSearch, SearchTypeOK
    <3> QED
      BY <1>3, <2>1, <3>1 DEF SearchTyped, Resolving
  <2>2. CASE ~refused
    <3>1. targets \subseteq KnownIds
      BY <1>5, SelectedValidated DEF TargetsOf
    <3>2. PICK M, T : M = Known /\ T = targets
      OBVIOUS
    <3> HIDE DEF targets, refused
    <3>3. Given(M, T)
      <4>1. \A p \in T : p \in Int /\ ManifestOf(M, p).needs \in Seq(Requirement)
        BY <1>5, <3>1, <3>2, RequirementsGiven
      <4> QED
        BY <4>1, NeedsAreDeps DEF Given
    <3>4. BeginSearch(T)
      BY <1>3, <2>2, <3>2
    <3>5. SearchInv(M, T)'
      BY <3>3, <3>4, SearchBegins
    <3>6. Known' = M /\ Targets' = T /\ T \in SUBSET Plugins
      BY <1>2, <1>5, <1>10, <2>2, <3>1, <3>2
    <3>7. Resolving'
      BY <1>6, <3>5, <3>6 DEF Resolving
    <3> QED
      BY <3>5, <3>6, <3>7, SearchInvTyped
  <2> QED
    BY <2>1, <2>2
<1> HIDE DEF refused, targets
<1>12. Typed'
  <2>1. status' \in [Plugins -> Statuses]
    BY <1>3, <1>6 DEF Statuses
  <2>2. InHand' = {}
    BY <1>6 DEF InHand
  <2>3. live' \in [Plugins -> BOOLEAN] /\ loads' \in [Plugins -> 0 .. 1]
    BY <1>3 DEF IInv, Typed, PlatformTypeOK
  <2> QED
    BY <1>1, <1>3, <1>4, <1>5, <1>7, <1>9, <1>11, <2>1, <2>2, <2>3
    DEF Typed, PlatformTypeOK, Phases
<1>13. Living' /\ Started' /\ Fresh' /\ Stopped'
  BY <1>3, <1>4, <1>6 DEF Living, Serving, Started, Fresh, Stopped
<1>14. Absent'
  BY <1>2, <1>3 DEF Absent
<1>15. HandlersInService'
  BY <1>3, <1>4, <1>6 DEF HandlersInService, SubscriptionsOf
<1> QED
  BY <1>7, <1>11, <1>12, <1>13, <1>14, <1>15 DEF IInv

(***************************************************************************)
(* A step that touches neither the plugins nor what they contributed.      *)
(***************************************************************************)
LEMMA QuietKeeps ==
  ASSUME IInv,
         UNCHANGED <<installation, record, effects, loads>>,
         heard' = {} \/ heard' = heard,
         phase' \in Phases, SearchTyped', Resolving',
         InHand # {} => phase' = "starting",
         phase' = "down" => phase = "down",
         phase' \notin {"starting", "crashed"} => pending = <<>>,
         phase' = "stopped" => \A p \in Plugins : ~live[p]
  PROVE  IInv'
<1>1. /\ installation' = installation /\ status' = status /\ live' = live
      /\ pending' = pending /\ workers' = workers /\ merged' = merged
      /\ bus' = bus /\ loads' = loads
  BY DEF record, effects
<1>2. /\ Known' = Known /\ KnownIds' = KnownIds
      /\ \A p : Needs(Known, p)' = Needs(Known, p)
  BY <1>1, RegistryFixed
<1>3. pending' \in Seq(Chosen') /\ Queued'
  BY <1>1, QueueStays
<1>4. Typed'
  BY <1>1, <1>3 DEF IInv, Typed, PlatformTypeOK, InHand
<1>5. Living' /\ Absent' /\ Started' /\ Fresh' /\ Stopped'
  BY <1>1, <1>2 DEF IInv, Living, Serving, Absent, Started, Fresh, Stopped
<1>6. DependenciesFirst'
  BY <1>1, <1>2 DEF IInv, DependenciesFirst
<1>7. HandlersInService'
  BY <1>1 DEF IInv, HandlersInService, SubscriptionsOf
<1> QED
  BY <1>3, <1>4, <1>5, <1>6, <1>7 DEF IInv

(***************************************************************************)
(* A step of the search, for the plugins of the registry.                  *)
(***************************************************************************)
LEMMA SearchKeeps ==
  ASSUME IInv, Search
  PROVE  IInv'
<1>1. /\ phase = "resolving" /\ phase' = phase /\ SearchStep(Known, Targets)
      /\ UNCHANGED <<installation, record, effects, loads>> /\ heard' = {}
      /\ installation' = installation /\ status' = status
  BY DEF Search, record
<1>2. PICK M, T : M = Known /\ T = Targets
  OBVIOUS
<1>3. SearchInv(M, T)
  BY <1>1, <1>2 DEF IInv, Resolving
<1>4. SearchStep(M, T)
  BY <1>1, <1>2
<1>5. SearchInv(M, T)'
  BY <1>3, <1>4, VisitRootKeeps, LookAtNeedKeeps, FinishVisitKeeps DEF SearchStep
<1>6. Known' = M /\ Targets' = T
  BY <1>1, <1>2, RegistryFixed DEF Targets, TargetsOf, Chosen
<1>7. T \in SUBSET Plugins
  BY <1>2, TargetsKnown, KnownUnique DEF IInv, Typed
<1>8. Resolving' /\ SearchTyped'
  BY <1>1, <1>5, <1>6, <1>7, SearchInvTyped DEF IInv, Resolving
<1>9. /\ phase' \in Phases /\ pending = <<>> /\ InHand = {} /\ phase' # "stopped"
      /\ phase' # "down"
  BY <1>1 DEF IInv, Typed, PlatformTypeOK, Started
<1> QED
  BY <1>1, <1>8, <1>9, QuietKeeps

\* A ring fails what was selected, and nothing is queued.
LEMMA RefuseRingKeeps ==
  ASSUME IInv, RefuseRing
  PROVE  IInv'
<1>1. /\ phase = "resolving" /\ phase' = "starting"
      /\ status' = [p \in Plugins |-> IF p \in Chosen THEN "failed" ELSE status[p]]
      /\ BeginSearch({}) /\ installation' = installation /\ live' = live
      /\ pending' = pending /\ workers' = workers /\ merged' = merged
      /\ bus' = bus /\ loads' = loads /\ heard' = {}
  BY DEF RefuseRing, effects
<1>2. pending = <<>> /\ InHand = {} /\ status \in [Plugins -> Statuses]
  BY <1>1 DEF IInv, Typed, PlatformTypeOK, Started
<1>3. /\ status' \in [Plugins -> Statuses]
      /\ \A p \in Plugins :
           \/ status'[p] = status[p] /\ status[p] # "validated"
           \/ status'[p] = "failed" /\ status[p] = "validated"
  BY <1>1, <1>2 DEF Statuses, Chosen
<1>4. Queued' /\ DependenciesFirst' /\ pending' \in Seq(Chosen')
  BY <1>1, <1>2, NothingQueued
<1>5. SearchTyped' /\ Resolving'
  <2>1. SearchTypeOK({})'
    BY <1>1 DEF BeginSearch, SearchTypeOK
  <2> QED
    BY <1>1, <2>1 DEF SearchTyped, Resolving
<1>6. KnownIds' = KnownIds
  BY <1>1, RegistryFixed
<1>7. InHand' = {}
  BY <1>2, <1>3 DEF InHand
<1>8. Typed'
  BY <1>1, <1>3, <1>4, <1>5, <1>7 DEF IInv, Typed, PlatformTypeOK, Phases
<1>9. Living'
  BY <1>1, <1>3 DEF IInv, Living, Serving
<1>10. Absent'
  BY <1>3, <1>6 DEF IInv, Absent
<1>11. Started' /\ Fresh' /\ Stopped'
  BY <1>1 DEF Started, Fresh, Stopped
<1>12. HandlersInService'
  <2>1. {q \in Plugins : status'[q] = "active"} = {q \in Plugins : status[q] = "active"}
    BY <1>3
  <2> QED
    BY <1>1, <2>1 DEF IInv, HandlersInService, SubscriptionsOf
<1> QED
  BY <1>4, <1>5, <1>8, <1>9, <1>10, <1>11, <1>12 DEF IInv

\* What is searched when the search is through.
LEMMA OrderComplete ==
  ASSUME IInv, phase = "resolving", Exhausted
  PROVE  InTurn(order, Targets, Known) /\ ~Circular(Known, Targets)
<1>1. PICK M, T : M = Known /\ T = Targets
  OBVIOUS
<1>2. SearchInv(M, T)
  BY <1>1 DEF IInv, Resolving
<1>3. \A p \in T : ManifestOf(M, p).needs \in Seq(Requirement)
  BY <1>1, TargetsKnown, RequirementsGiven DEF IInv, Typed
<1>4. InTurn(order, T, M) /\ ~Circular(M, T)
  BY <1>2, <1>3, ExhaustedInTurn
<1> QED
  BY <1>1, <1>4

\* A ring that was found is one.
LEMMA RingThere ==
  ASSUME IInv, phase = "resolving", RingFound(Known, Targets)
  PROVE  Circular(Known, Targets)
<1>1. PICK M, T : M = Known /\ T = Targets
  OBVIOUS
<1>2. SearchInv(M, T) /\ RingFound(M, T)
  BY <1>1 DEF IInv, Resolving
<1>3. \A p \in T : ManifestOf(M, p).needs \in Seq(Requirement)
  BY <1>1, TargetsKnown, RequirementsGiven DEF IInv, Typed
<1>4. Circular(M, T)
  BY <1>2, <1>3, RingIsCircular
<1> QED
  BY <1>1, <1>4

\* What the search put in turn is queued.
LEMMA AcceptOrderKeeps ==
  ASSUME IInv, AcceptOrder
  PROVE  IInv'
<1>1. /\ phase = "resolving" /\ phase' = "starting" /\ Exhausted
      /\ pending' = IF Chosen = {} THEN <<>> ELSE order
      /\ BeginSearch({}) /\ installation' = installation /\ live' = live
      /\ status' = status /\ workers' = workers /\ merged' = merged
      /\ bus' = bus /\ loads' = loads /\ heard' = {}
  BY DEF AcceptOrder, effects
<1>2. InHand = {}
  BY <1>1 DEF IInv, Typed, PlatformTypeOK
<1>3. /\ Known' = Known /\ KnownIds' = KnownIds /\ Chosen' = Chosen
      /\ \A p : Needs(Known, p)' = Needs(Known, p)
  BY <1>1, RegistryFixed DEF Chosen
<1>4. Queued' /\ pending' \in Seq(Chosen')
  <2>1. CASE Chosen = {}
    BY <1>1, <2>1, NothingQueued
  <2>2. CASE Chosen # {}
    <3>1. InTurn(order, Targets, Known) /\ Targets = Chosen
      BY <1>1, <2>2, OrderComplete DEF Targets, TargetsOf
    <3>2. order \in Seq(Chosen) /\ OneTurnEach(order, Known)
      BY <3>1 DEF InTurn
    <3>3. OneTurnEach(pending, Known)'
      BY <1>1, <1>3, <2>2, <3>2 DEF OneTurnEach
    <3> QED
      BY <1>1, <1>3, <2>2, <3>2, <3>3 DEF Queued
  <2> QED
    BY <2>1, <2>2
<1>5. SearchTyped' /\ Resolving'
  <2>1. SearchTypeOK({})'
    BY <1>1 DEF BeginSearch, SearchTypeOK
  <2> QED
    BY <1>1, <2>1 DEF SearchTyped, Resolving
<1>6. DependenciesFirst'
  <2>1. \A p \in Plugins : status[p] \notin {"loaded", "initialized"}
    BY <1>2 DEF InHand
  <2>2. \A p \in Plugins : status[p] # "active"
    BY <1>1 DEF IInv, Resolving
  <2> QED
    BY <1>1, <2>1, <2>2 DEF DependenciesFirst
<1>7. Typed'
  BY <1>1, <1>2, <1>4, <1>5 DEF IInv, Typed, PlatformTypeOK, Phases, InHand
<1>8. Living' /\ Absent'
  BY <1>1, <1>3 DEF IInv, Living, Serving, Absent
<1>9. Started' /\ Fresh' /\ Stopped'
  BY <1>1 DEF Started, Fresh, Stopped
<1>10. HandlersInService'
  BY <1>1 DEF IInv, HandlersInService, SubscriptionsOf
<1> QED
  BY <1>4, <1>5, <1>6, <1>7, <1>8, <1>9, <1>10 DEF IInv

(***************************************************************************)
(* The plugin at the head of the queue needs nothing that is behind it.    *)
(***************************************************************************)
LEMMA LoadKeeps ==
  ASSUME IInv, NEW p \in Plugins, Load(p)
  PROVE  IInv'
<1>1. /\ installation' = installation /\ live' = live /\ loads' = loads
      /\ merged' = merged /\ bus' = bus /\ workers' = workers /\ heard' = {}
      /\ phase = "starting" /\ phase' \in {"starting", "crashed"}
      /\ pending # <<>> /\ p = Head(pending) /\ pending' = Tail(pending)
      /\ InHand = {} /\ UNCHANGED search
  BY DEF Load, effects
<1>2. status' \in {[status EXCEPT ![p] = "loaded"],
                   [status EXCEPT ![p] = "failed"], status}
  BY DEF Load, LoadResults
<1>3. phase' = "crashed" => status' = status
  BY DEF Load, LoadResults
<1>4. /\ Known' = Known /\ KnownIds' = KnownIds
      /\ \A q : Needs(Known, q)' = Needs(Known, q)
  BY <1>1, RegistryFixed
<1>5. /\ status \in [Plugins -> Statuses] /\ pending \in Seq(Chosen)
      /\ status[p] = "validated"
  <2>1. status \in [Plugins -> Statuses] /\ pending \in Seq(Chosen)
    BY DEF IInv, Typed, PlatformTypeOK
  <2>2. p \in Chosen
    BY <1>1, <2>1, HeadTailProperties
  <2> QED
    BY <2>1, <2>2 DEF Chosen
<1>6. /\ \A q \in Plugins \ {p} : status'[q] = status[q]
      /\ status'[p] \in {"loaded", "failed", "validated"}
      /\ status' \in [Plugins -> Statuses]
  BY <1>2, <1>5 DEF Statuses
<1>7. ~live[p] /\ p \in KnownIds
  BY <1>5 DEF IInv, Living, Serving, Absent
<1> DEFINE n == Len(pending)
<1>8. /\ n \in Nat /\ n > 0 /\ p = pending[1]
      /\ Tail(pending) \in Seq(Chosen) /\ Len(Tail(pending)) = n - 1
      /\ \A i \in 1 .. n - 1 : Tail(pending)[i] = pending[i + 1]
  <2>1. n \in Nat /\ n > 0 /\ p = pending[1]
    BY <1>1, <1>5
  <2>2. /\ Tail(pending) \in Seq(Chosen) /\ Len(Tail(pending)) = Len(pending) - 1
        /\ \A i \in 1 .. Len(Tail(pending)) : Tail(pending)[i] = pending[i + 1]
    BY <1>1, <1>5, HeadTailProperties
  <2> QED
    BY <2>1, <2>2
<1>9. /\ \A i, j \in 1 .. n : pending[i] = pending[j] => i = j
      /\ \A i, j \in 1 .. n : j <= i => pending[i] \notin Needs(Known, pending[j])
  BY DEF IInv, Queued, OneTurnEach
<1> HIDE DEF n
<1>10. \A i \in 1 .. n - 1 : i + 1 \in 1 .. n /\ i + 1 # 1 /\ 1 <= i + 1 /\ 1 \in 1 .. n
  BY <1>8
<1>11. Queued'
  <2>1. \A i, j \in 1 .. n - 1 : pending'[i] = pending'[j] => i = j
    <3>1. TAKE i, j \in 1 .. n - 1
    <3>2. pending'[i] = pending[i + 1] /\ pending'[j] = pending[j + 1]
      BY <1>1, <1>8
    <3>3. i + 1 = j + 1 => i = j
      BY <1>8
    <3> QED
      BY <1>9, <1>10, <3>2, <3>3
  <2>2. \A i, j \in 1 .. n - 1 : j <= i => pending'[i] \notin Needs(Known, pending'[j])
    <3>1. TAKE i, j \in 1 .. n - 1
    <3>2. pending'[i] = pending[i + 1] /\ pending'[j] = pending[j + 1]
      BY <1>1, <1>8
    <3>3. j <= i => j + 1 <= i + 1
      BY <1>8
    <3> QED
      BY <1>9, <1>10, <3>2, <3>3
  <2>3. OneTurnEach(Tail(pending), Known)
    BY <1>1, <1>8, <2>1, <2>2 DEF OneTurnEach
  <2> QED
    BY <1>1, <1>4, <1>8, <2>1, <2>2 DEF Queued, OneTurnEach
<1>12. pending' \in Seq(Chosen')
  <2>1. \A i \in 1 .. n - 1 : pending[i + 1] # p
    BY <1>8, <1>9, <1>10
  <2>2. Chosen \ {p} \subseteq Chosen'
    BY <1>6 DEF Chosen
  <2>3. \A i \in 1 .. n - 1 : Tail(pending)[i] \in Chosen'
    <3>1. TAKE i \in 1 .. n - 1
    <3>2. Tail(pending)[i] \in Chosen
      BY <1>8
    <3> QED
      BY <1>8, <2>1, <2>2, <3>2
  <2>4. PICK S, U, t, m : S = Chosen' /\ U = Chosen /\ t = Tail(pending) /\ m = n - 1
    OBVIOUS
  <2>5. m \in Nat /\ t \in Seq(U) /\ Len(t) = m /\ \A i \in 1 .. m : t[i] \in S
    BY <1>8, <2>3, <2>4
  <2>6. t \in Seq(S)
    BY <2>5, SeqWithin
  <2> QED
    BY <1>1, <2>4, <2>6
<1>13. Typed' /\ Resolving'
  <2>1. /\ InHand' \subseteq {p}
        /\ InHand' # {} => phase' = "starting"
    BY <1>1, <1>2, <1>3, <1>6 DEF InHand
  <2>2. SearchTyped' /\ Resolving'
    BY <1>1, SearchAside DEF IInv, Typed, PlatformTypeOK
  <2> QED
    BY <1>1, <1>6, <1>12, <2>1, <2>2 DEF IInv, Typed, PlatformTypeOK, Phases
<1>14. Living'
  BY <1>1, <1>6, <1>7 DEF IInv, Living, Serving
<1>15. Absent'
  BY <1>4, <1>6, <1>7 DEF IInv, Absent
<1>16. Started' /\ Fresh' /\ Stopped'
  BY <1>1 DEF Started, Fresh, Stopped
<1>17. DependenciesFirst'
  <2>1. ToSet(pending') = {pending[i + 1] : i \in 1 .. n - 1}
    <3>1. DOMAIN Tail(pending) = 1 .. n - 1
      BY <1>8
    <3> QED
      BY <1>1, <1>8, <3>1 DEF ToSet
  <2>2. ToSet(pending) = {pending[i] : i \in 1 .. n}
    BY <1>5, <1>8 DEF ToSet, n
  <2>3. ToSet(pending') \subseteq ToSet(pending)
    BY <1>10, <2>1, <2>2
  <2>4. Needs(Known, p) \cap ToSet(pending') = {}
    BY <1>8, <1>9, <1>10, <2>1
  <2>5. ASSUME NEW q \in Plugins, status'[q] \in {"loaded", "initialized", "active"}
        PROVE  Needs(Known, q) \cap ToSet(pending') = {}
    <3>1. CASE q = p
      BY <2>4, <3>1
    <3>2. CASE q # p
      <4>1. status[q] \in {"loaded", "initialized", "active"}
        BY <1>6, <2>5, <3>2
      <4> QED
        BY <2>3, <4>1 DEF IInv, DependenciesFirst
    <3> QED
      BY <3>1, <3>2
  <2> QED
    BY <1>4, <2>5 DEF DependenciesFirst
<1>18. HandlersInService'
  <2>1. {q \in Plugins : status'[q] = "active"} = {q \in Plugins : status[q] = "active"}
    BY <1>5, <1>6
  <2> QED
    BY <1>1, <2>1 DEF IInv, HandlersInService, SubscriptionsOf
<1> QED
  BY <1>11, <1>13, <1>14, <1>15, <1>16, <1>17, <1>18 DEF IInv

\* on_load gives a plugin its instance, or fails it.
LEMMA InitializeKeeps ==
  ASSUME IInv, NEW p \in Plugins, Initialize(p)
  PROVE  IInv'
<1>1. /\ installation' = installation /\ phase' = phase /\ pending' = pending
      /\ UNCHANGED search
      /\ merged' = merged /\ bus' = bus /\ workers' = workers /\ heard' = {}
      /\ phase = "starting" /\ status[p] = "loaded"
  BY DEF Initialize, effects
<1>2. \/ /\ status' = [status EXCEPT ![p] = "initialized"]
         /\ live' = [live EXCEPT ![p] = TRUE]
         /\ loads' = [loads EXCEPT ![p] = @ + 1]
      \/ /\ status' = [status EXCEPT ![p] = "failed"]
         /\ live' = live /\ loads' = loads
  BY DEF Initialize
<1>3. /\ Known' = Known /\ KnownIds' = KnownIds
      /\ \A q : Needs(Known, q)' = Needs(Known, q)
  BY <1>1, RegistryFixed
<1>4. /\ status \in [Plugins -> Statuses] /\ live \in [Plugins -> BOOLEAN]
      /\ loads \in [Plugins -> 0 .. 1]
  BY DEF IInv, Typed, PlatformTypeOK
<1>5. ~live[p] /\ loads[p] = 0 /\ p \in KnownIds
  BY <1>1, <1>4 DEF IInv, Living, Serving, Absent
<1>6. /\ \A q \in Plugins \ {p} :
           status'[q] = status[q] /\ live'[q] = live[q] /\ loads'[q] = loads[q]
      /\ \/ status'[p] = "initialized" /\ live'[p] = TRUE /\ loads'[p] = 1
         \/ status'[p] = "failed" /\ live'[p] = FALSE /\ loads'[p] = 0
      /\ status' \in [Plugins -> Statuses] /\ live' \in [Plugins -> BOOLEAN]
      /\ loads' \in [Plugins -> 0 .. 1]
  <2>1. "initialized" \in Statuses /\ "failed" \in Statuses
    BY DEF Statuses
  <2>2. loads' \in [Plugins -> 0 .. 1] /\ loads'[p] \in {loads[p], 1}
    <3>1. loads[p] + 1 = 1 /\ 1 \in 0 .. 1
      BY <1>5
    <3> QED
      BY <1>2, <1>4, <3>1
  <2>3. CASE status' = [status EXCEPT ![p] = "failed"] /\ live' = live /\ loads' = loads
    BY <1>4, <1>5, <2>1, <2>3
  <2>4. CASE /\ status' = [status EXCEPT ![p] = "initialized"]
             /\ live' = [live EXCEPT ![p] = TRUE]
             /\ loads' = [loads EXCEPT ![p] = @ + 1]
    <3>1. loads'[p] = 1
      BY <1>4, <1>5, <2>4
    <3>2. live' \in [Plugins -> BOOLEAN] /\ live'[p] = TRUE
      BY <1>4, <2>4
    <3> QED
      BY <1>4, <2>1, <2>2, <2>4, <3>1, <3>2
  <2> QED
    BY <1>2, <2>3, <2>4
<1>7. pending' \in Seq(Chosen') /\ Queued'
  BY <1>1, <1>6, QueueStays
<1>8. SearchTyped' /\ Resolving'
  BY <1>1, SearchAside DEF IInv, Typed, PlatformTypeOK
<1>9. Typed'
  <2>1. pending' \in Seq(Chosen') /\ SearchTyped'
    BY <1>7, <1>8
  <2>2. InHand' \subseteq InHand
    BY <1>1, <1>6 DEF InHand
  <2> QED
    BY <1>1, <1>6, <2>1, <2>2 DEF IInv, Typed, PlatformTypeOK
<1>10. Living'
  BY <1>1, <1>6 DEF IInv, Living, Serving
<1>11. Absent'
  BY <1>3, <1>5, <1>6 DEF IInv, Absent
<1>12. Started' /\ Fresh' /\ Stopped'
  BY <1>1 DEF Started, Fresh, Stopped
<1>13. DependenciesFirst'
  BY <1>1, <1>3, <1>6 DEF IInv, DependenciesFirst
<1>14. HandlersInService'
  <2>1. {q \in Plugins : status'[q] = "active"} = {q \in Plugins : status[q] = "active"}
    BY <1>1, <1>6
  <2> QED
    BY <1>1, <2>1 DEF IInv, HandlersInService, SubscriptionsOf
<1> QED
  BY <1>7, <1>8, <1>9, <1>10, <1>11, <1>12, <1>13, <1>14 DEF IInv

\* Workers registered for plugin p are p's, the others stay whose they were.
LEMMA RegisteredBy ==
  ASSUME NEW registry, NEW ids, NEW p, NEW q, NEW owners,
         \A w \in DOMAIN registry :
           registry[w].kind = "plugin" => registry[w].plugin \in owners,
         p \in owners
  PROVE  LET new == RegisterWorkers(registry, ids, By("plugin", p))
         IN  \A w \in DOMAIN new : new[w].kind = "plugin" => new[w].plugin \in owners
BY DEF RegisterWorkers, By

\* Who handles a published event is subscribed to it, and in service.
LEMMA HandlersLive ==
  ASSUME NEW subscriptions, NEW type, NEW statusThen,
         \A q \in Plugins : <<q, type>> \in subscriptions =>
           statusThen[q] = "active" /\ live[q],
         NEW h \in Handling(subscriptions, type, statusThen)
  PROVE  h.status = "active" /\ h.live
<1>1. PICK q \in {r \in Plugins : <<r, type>> \in subscriptions} :
        h = [plugin |-> q, status |-> statusThen[q], live |-> live[q]]
  BY Zenon DEF Handling
<1>2. h.status = statusThen[q] /\ h.live = live[q]
  BY <1>1, Zenon
<1>3. statusThen[q] = "active" /\ live[q]
  BY <1>1
<1> QED
  BY <1>2, <1>3, Zenon

\* Subscriptions are those of active plugins.
LEMMA SubscribersActive ==
  ASSUME IInv, NEW q \in Plugins, NEW type, <<q, type>> \in bus
  PROVE  status[q] = "active" /\ live[q]
<1>1. status[q] = "active"
  BY DEF IInv, HandlersInService, SubscriptionsOf
<1> QED
  BY <1>1 DEF IInv, Living, Serving

(***************************************************************************)
(* An activated plugin is subscribed and active in the same step; what is  *)
(* published meanwhile reaches plugins that are in service.                *)
(***************************************************************************)
LEMMA ActivateKeeps ==
  ASSUME IInv, NEW p \in Plugins, Activate(p)
  PROVE  IInv'
<1>1. /\ installation' = installation /\ phase' = phase /\ pending' = pending
      /\ UNCHANGED search
      /\ live' = live /\ loads' = loads
      /\ phase = "starting" /\ status[p] = "initialized"
      /\ merged' = merged \cup {p}
      /\ workers' = RegisterWorkers(workers, Contributes[p].workers, By("plugin", p))
      /\ bus' = bus \cup SubscriptionsOf(p)
      /\ status' = [status EXCEPT ![p] = "active"]
      /\ heard' \subseteq Handling(bus', "plugin_loaded", status')
                     \cup Handling(bus, "worker_registered", status)
  BY DEF Activate
<1>2. /\ Known' = Known /\ KnownIds' = KnownIds
      /\ \A q : Needs(Known, q)' = Needs(Known, q)
  BY <1>1, RegistryFixed
<1>3. status \in [Plugins -> Statuses] /\ live[p] /\ p \in KnownIds
  BY <1>1 DEF IInv, Typed, PlatformTypeOK, Living, Serving, Absent
<1>4. /\ \A q \in Plugins \ {p} : status'[q] = status[q]
      /\ status'[p] = "active" /\ status' \in [Plugins -> Statuses]
  BY <1>1, <1>3 DEF Statuses
<1>5. pending' \in Seq(Chosen') /\ Queued'
  BY <1>1, <1>4, QueueStays
<1>6. SearchTyped' /\ Resolving'
  BY <1>1, SearchAside DEF IInv, Typed, PlatformTypeOK
<1>7. Typed'
  <2>1. pending' \in Seq(Chosen') /\ SearchTyped'
    BY <1>5, <1>6
  <2>2. InHand' \subseteq InHand
    BY <1>1, <1>4 DEF InHand
  <2>3. \A w \in DOMAIN workers' :
          workers'[w].kind = "plugin" => workers'[w].plugin \in merged'
    <3>1. \A w \in DOMAIN workers :
            workers[w].kind = "plugin" => workers[w].plugin \in merged'
      BY <1>1 DEF IInv, Typed, PlatformTypeOK
    <3> QED
      BY <1>1, <3>1, RegisteredBy
  <2>4. bus' \subseteq merged' \X UNION {Contributes[q].hears : q \in Plugins}
    <3>1. SubscriptionsOf(p) \subseteq {p} \X UNION {Contributes[q].hears : q \in Plugins}
      BY DEF SubscriptionsOf
    <3>2. bus \subseteq merged \X UNION {Contributes[q].hears : q \in Plugins}
      BY DEF IInv, Typed, PlatformTypeOK
    <3> QED
      BY <1>1, <3>1, <3>2
  <2>5. merged' \subseteq Plugins
    BY <1>1 DEF IInv, Typed, PlatformTypeOK
  <2> QED
    BY <1>1, <1>4, <2>1, <2>2, <2>3, <2>4, <2>5 DEF IInv, Typed, PlatformTypeOK
<1>8. Living'
  BY <1>1, <1>3, <1>4 DEF IInv, Living, Serving
<1>9. Absent'
  BY <1>2, <1>3, <1>4 DEF IInv, Absent
<1>10. Started' /\ Fresh' /\ Stopped'
  BY <1>1 DEF Started, Fresh, Stopped
<1>11. DependenciesFirst'
  BY <1>1, <1>2, <1>4 DEF IInv, DependenciesFirst
<1>12. HandlersInService'
  <2>1. {q \in Plugins : status'[q] = "active"}
          = {q \in Plugins : status[q] = "active"} \cup {p}
    BY <1>4
  <2>2. bus' = UNION {SubscriptionsOf(q) : q \in {r \in Plugins : status'[r] = "active"}}
    BY <1>1, <2>1 DEF IInv, HandlersInService
  <2>3. \A q \in Plugins : \A type :
          <<q, type>> \in bus' => status'[q] = "active" /\ live[q]
    BY <1>1, <1>3, <1>4, SubscribersActive DEF SubscriptionsOf
  <2>4. \A h \in heard' : h.status = "active" /\ h.live
    <3>1. TAKE h \in heard'
    <3>2. CASE h \in Handling(bus', "plugin_loaded", status')
      BY <2>3, <3>2, HandlersLive
    <3>3. CASE h \in Handling(bus, "worker_registered", status)
      BY <3>3, HandlersLive, SubscribersActive
    <3> QED
      BY <1>1, <3>2, <3>3
  <2>5. \A q : SubscriptionsOf(q)' = SubscriptionsOf(q)
    BY DEF SubscriptionsOf
  <2> QED
    BY <2>2, <2>4, <2>5 DEF HandlersInService
<1> QED
  BY <1>5, <1>6, <1>7, <1>8, <1>9, <1>10, <1>11, <1>12 DEF IInv

(***************************************************************************)
(* A failed activation leaves what it merged and registered, but nobody    *)
(* subscribed and the instance there to be unloaded.                       *)
(***************************************************************************)
LEMMA FailActivationKeeps ==
  ASSUME IInv, NEW p \in Plugins, FailActivation(p)
  PROVE  IInv'
<1>1. /\ installation' = installation /\ phase' = phase /\ pending' = pending
      /\ UNCHANGED search
      /\ live' = live /\ loads' = loads /\ bus' = bus
      /\ phase = "starting" /\ status[p] = "initialized"
      /\ status' = [status EXCEPT ![p] = "failed"]
  BY DEF FailActivation
<1>2. /\ merged \subseteq merged' /\ merged' \subseteq merged \cup {p}
      /\ heard' \subseteq Handling(bus, "worker_registered", status)
      /\ \/ workers' = workers
         \/ /\ p \in merged'
            /\ \E some : workers' = RegisterWorkers(workers, some, By("plugin", p))
  BY DEF FailActivation
<1>3. /\ Known' = Known /\ KnownIds' = KnownIds
      /\ \A q : Needs(Known, q)' = Needs(Known, q)
  BY <1>1, RegistryFixed
<1>4. status \in [Plugins -> Statuses] /\ p \in KnownIds
  BY <1>1 DEF IInv, Typed, PlatformTypeOK, Absent
<1>5. /\ \A q \in Plugins \ {p} : status'[q] = status[q]
      /\ status'[p] = "failed" /\ status' \in [Plugins -> Statuses]
  BY <1>1, <1>4 DEF Statuses
<1>6. pending' \in Seq(Chosen') /\ Queued'
  BY <1>1, <1>5, QueueStays
<1>7. SearchTyped' /\ Resolving'
  BY <1>1, SearchAside DEF IInv, Typed, PlatformTypeOK
<1>8. Typed'
  <2>1. pending' \in Seq(Chosen') /\ SearchTyped'
    BY <1>6, <1>7
  <2>2. InHand' \subseteq InHand
    BY <1>1, <1>5 DEF InHand
  <2>3. \A w \in DOMAIN workers' :
          workers'[w].kind = "plugin" => workers'[w].plugin \in merged'
    <3>1. \A w \in DOMAIN workers :
            workers[w].kind = "plugin" => workers[w].plugin \in merged'
      BY <1>2 DEF IInv, Typed, PlatformTypeOK
    <3> QED
      BY <1>2, <3>1, RegisteredBy
  <2>4. /\ bus' \subseteq merged' \X UNION {Contributes[q].hears : q \in Plugins}
        /\ merged' \subseteq Plugins
    BY <1>1, <1>2 DEF IInv, Typed, PlatformTypeOK
  <2> QED
    BY <1>1, <1>5, <2>1, <2>2, <2>3, <2>4 DEF IInv, Typed, PlatformTypeOK
<1>9. Living'
  BY <1>1, <1>2, <1>5 DEF IInv, Living, Serving
<1>10. Absent'
  BY <1>3, <1>4, <1>5 DEF IInv, Absent
<1>11. Started' /\ Fresh' /\ Stopped'
  BY <1>1 DEF Started, Fresh, Stopped
<1>12. DependenciesFirst'
  BY <1>1, <1>3, <1>5 DEF IInv, DependenciesFirst
<1>13. HandlersInService'
  <2>1. {q \in Plugins : status'[q] = "active"} = {q \in Plugins : status[q] = "active"}
    BY <1>1, <1>5
  <2>2. \A h \in heard' : h.status = "active" /\ h.live
    BY <1>2, HandlersLive, SubscribersActive
  <2>3. \A q : SubscriptionsOf(q)' = SubscriptionsOf(q)
    BY DEF SubscriptionsOf
  <2> QED
    BY <1>1, <2>1, <2>2, <2>3 DEF IInv, HandlersInService
<1> QED
  BY <1>6, <1>7, <1>8, <1>9, <1>10, <1>11, <1>12, <1>13 DEF IInv

(***************************************************************************)
(* An unloaded plugin loses its subscriptions and its instance together.   *)
(***************************************************************************)
LEMMA UnloadKeeps ==
  ASSUME IInv, NEW p \in Plugins, Unload(p)
  PROVE  IInv'
<1>1. /\ installation' = installation /\ phase' = phase /\ pending' = pending
      /\ UNCHANGED search
      /\ merged' = merged /\ workers' = workers
      /\ phase = "unloading" /\ p \in Remaining
      /\ status' = [status EXCEPT ![p] = "unloaded"]
      /\ live' = [live EXCEPT ![p] = FALSE]
      /\ loads' = IF live[p] THEN [loads EXCEPT ![p] = @ - 1] ELSE loads
      /\ bus' = bus \ ({p} \X Contributes[p].hears)
      /\ heard' \subseteq Handling(bus, "plugin_unloaded", status)
  BY DEF Unload
<1>2. /\ Known' = Known /\ KnownIds' = KnownIds
      /\ \A q : Needs(Known, q)' = Needs(Known, q)
  BY <1>1, RegistryFixed
<1>3. /\ status \in [Plugins -> Statuses] /\ live \in [Plugins -> BOOLEAN]
      /\ loads \in [Plugins -> 0 .. 1] /\ p \in KnownIds /\ pending = <<>> /\ InHand = {}
      /\ loads[p] = IF live[p] THEN 1 ELSE 0
  BY <1>1 DEF IInv, Typed, PlatformTypeOK, Remaining, Started, Living
<1>4. /\ \A q \in Plugins \ {p} : status'[q] = status[q] /\ live'[q] = live[q]
      /\ status'[p] = "unloaded" /\ status' \in [Plugins -> Statuses]
      /\ live'[p] = FALSE /\ live' \in [Plugins -> BOOLEAN]
  BY <1>1, <1>3 DEF Statuses
<1>5. /\ \A q \in Plugins \ {p} : loads'[q] = loads[q]
      /\ loads'[p] = 0 /\ loads' \in [Plugins -> 0 .. 1]
  <2>1. 1 - 1 = 0 /\ 0 \in 0 .. 1
    OBVIOUS
  <2>2. CASE live[p]
    <3>1. loads' = [loads EXCEPT ![p] = 0]
      BY <1>1, <1>3, <2>1, <2>2
    <3> QED
      BY <1>3, <2>1, <3>1
  <2>3. CASE ~live[p]
    BY <1>1, <1>3, <2>3
  <2> QED
    BY <2>2, <2>3
<1>6. Typed'
  <2>1. InHand' = {}
    BY <1>3, <1>4 DEF InHand
  <2>2. bus' \subseteq merged' \X UNION {Contributes[q].hears : q \in Plugins}
    BY <1>1 DEF IInv, Typed, PlatformTypeOK
  <2>3. SearchTyped'
    BY <1>1, SearchAside DEF IInv, Typed, PlatformTypeOK
  <2>4. pending' \in Seq(Chosen')
    BY <1>1, <1>3, NothingQueued
  <2> QED
    BY <1>1, <1>3, <1>4, <1>5, <2>1, <2>2, <2>3, <2>4 DEF IInv, Typed, PlatformTypeOK
<1>7. Living'
  BY <1>1, <1>4, <1>5 DEF IInv, Living, Serving
<1>8. Absent'
  BY <1>2, <1>3, <1>4 DEF IInv, Absent
<1>9. Started' /\ Fresh' /\ Stopped'
  BY <1>1, <1>3 DEF Started, Fresh, Stopped
<1>10. Queued' /\ Resolving' /\ DependenciesFirst'
  BY <1>1, <1>3, NothingQueued DEF Resolving
<1>11. HandlersInService'
  <2>1. {q \in Plugins : status'[q] = "active"}
          = {q \in Plugins : status[q] = "active"} \ {p}
    BY <1>4
  <2>2. bus' = UNION {SubscriptionsOf(q) : q \in {r \in Plugins : status'[r] = "active"}}
    BY <1>1, <2>1 DEF IInv, HandlersInService, SubscriptionsOf
  <2>3. \A h \in heard' : h.status = "active" /\ h.live
    BY <1>1, HandlersLive, SubscribersActive
  <2>4. \A q : SubscriptionsOf(q)' = SubscriptionsOf(q)
    BY DEF SubscriptionsOf
  <2> QED
    BY <2>2, <2>3, <2>4 DEF HandlersInService
<1> QED
  BY <1>6, <1>7, <1>8, <1>9, <1>10, <1>11 DEF IInv

\* A process that ends takes everything with it.
LEMMA LeaveKeeps ==
  ASSUME IInv, Leave
  PROVE  IInv'
<1>1. /\ installation' = installation /\ phase' = "down" /\ pending' = <<>>
      /\ BeginSearch({})
      /\ status' = [q \in Plugins |-> "absent"]
      /\ live' = [q \in Plugins |-> FALSE] /\ loads' = [q \in Plugins |-> 0]
      /\ workers' = NoWorkers /\ merged' = {} /\ bus' = {} /\ heard' = {}
  BY DEF Leave
<1>2. Typed'
  <2>1. SearchTypeOK({})'
    BY <1>1 DEF BeginSearch, SearchTypeOK
  <2>2. SearchTyped' /\ pending' \in Seq(Chosen')
    BY <1>1, <2>1, NothingQueued DEF SearchTyped
  <2> QED
    BY <1>1, <2>2
    DEF IInv, Typed, PlatformTypeOK, Phases, Statuses, InHand, NoWorkers
<1>3. Living' /\ Absent' /\ Started' /\ Fresh' /\ Stopped'
  BY <1>1 DEF Living, Serving, Absent, Started, Fresh, Stopped
<1>4. Queued' /\ Resolving' /\ DependenciesFirst' /\ HandlersInService'
  BY <1>1, NothingQueued DEF Resolving, HandlersInService, SubscriptionsOf
<1> QED
  BY <1>2, <1>3, <1>4 DEF IInv

-----------------------------------------------------------------------------
(* The theorems.                                                           *)

LEMMA NextKeeps ==
  ASSUME IInv, [Next]_vars
  PROVE  IInv'
<1>1. /\ phase \in Phases
      /\ InHand # {} => phase = "starting"
      /\ phase \notin {"starting", "crashed"} => pending = <<>>
      /\ SearchTyped
      /\ phase = "stopped" => \A p \in Plugins : ~live[p]
  BY DEF IInv, Typed, PlatformTypeOK, Started, Stopped
<1>2. CASE StartRuntime
  BY <1>2, StartRuntimeKeeps
<1>3. CASE \E p \in Plugins :
             Load(p) \/ Initialize(p) \/ Activate(p) \/ FailActivation(p)
  BY <1>3, LoadKeeps, InitializeKeeps, ActivateKeeps, FailActivationKeeps
<1>4. CASE Wire
  <2>1. /\ UNCHANGED <<installation, record, effects, loads>> /\ heard' = {}
        /\ phase' \in {"crashed", "up"} /\ pending = <<>> /\ InHand = {}
        /\ UNCHANGED search
    BY <1>4 DEF Wire
  <2> QED
    BY <1>1, <2>1, SearchAside, QuietKeeps DEF Phases
<1>5. CASE \E p \in Toggled, useGlobal \in BOOLEAN :
             EnableCommand(p, useGlobal) \/ DisableCommand(p, useGlobal)
  <2>1. /\ UNCHANGED <<installation, record, effects, loads>> /\ heard' = {}
        /\ phase' = phase /\ phase = "up" /\ UNCHANGED search
    BY <1>5 DEF EnableCommand, DisableCommand
  <2> QED
    BY <1>1, <2>1, SearchAside, QuietKeeps
<1>6. CASE Shutdown
  <2>1. /\ UNCHANGED <<installation, record, effects, loads>> /\ heard' = {}
        /\ phase' = "unloading" /\ phase = "up" /\ UNCHANGED search
    BY <1>6 DEF Shutdown
  <2> QED
    BY <1>1, <2>1, SearchAside, QuietKeeps DEF Phases
<1>7. CASE \E p \in Plugins : Unload(p)
  BY <1>7, UnloadKeeps
<1>8. CASE EndShutdown
  <2>1. /\ UNCHANGED <<installation, record, effects, loads>> /\ heard' = {}
        /\ phase' = "stopped" /\ phase = "unloading" /\ Remaining = {}
        /\ UNCHANGED search
    BY <1>8 DEF EndShutdown
  <2>2. ASSUME NEW p \in Plugins
        PROVE  ~live[p]
    <3>1. status[p] \in {"absent", "unloaded"}
      BY <2>1 DEF Remaining, IInv, Absent
    <3> QED
      BY <3>1 DEF IInv, Living, Serving
  <2> QED
    BY <1>1, <2>1, <2>2, SearchAside, QuietKeeps DEF Phases
<1>9. CASE Leave
  BY <1>9, LeaveKeeps
<1>10. CASE UNCHANGED vars
  <2>1. /\ UNCHANGED <<installation, record, effects, loads>> /\ heard' = heard
        /\ phase' = phase /\ UNCHANGED search /\ installation' = installation
        /\ status' = status
    BY <1>10 DEF vars, record
  <2>2. SearchTyped'
    <3>1. PICK targets \in SUBSET Plugins : SearchTypeOK(targets)
      BY <1>1 DEF SearchTyped
    <3>2. SearchTypeOK(targets)'
      BY <2>1, <3>1 DEF SearchTypeOK, search
    <3> QED
      BY <3>2 DEF SearchTyped
  <2>3. Resolving'
    <3>1. Known' = Known /\ Targets' = Targets
      BY <2>1, RegistryFixed DEF Targets, TargetsOf, Chosen
    <3>2. ASSUME NEW M, NEW T, SearchInv(M, T)
          PROVE  SearchInv(M, T)'
      BY <2>1, <3>2 DEF SearchInv, Given, Deps, Dep, SearchTypeOK, Nested, Marked,
                        TakenUp, Ordered, search
    <3> QED
      BY <2>1, <3>1, <3>2 DEF IInv, Resolving
  <2>4. phase = "down" => phase = "down"
    OBVIOUS
  <2> QED
    BY <1>1, <2>1, <2>2, <2>3, QuietKeeps
<1>11. CASE Resolve
  BY <1>11, SearchKeeps, RefuseRingKeeps, AcceptOrderKeeps DEF Resolve
<1> QED
  BY <1>2, <1>3, <1>4, <1>5, <1>6, <1>7, <1>8, <1>9, <1>10, <1>11
  DEF Next, Start, Unloading

\* The strengthened invariant, of the platform as of every runtime built on it.
THEOREM Inductive == Spec => []IInv
<1>1. Init => IInv
  BY InitIInv
<1>2. IInv /\ [Next]_vars => IInv'
  BY NextKeeps
<1> QED
  BY <1>1, <1>2, PTL DEF Spec

(***************************************************************************)
(* Type correctness: in particular one plugin at a time is in hand, and a  *)
(* registered worker or a subscription is of a plugin that was merged      *)
(* (PluginPlatform.run).                                                   *)
(***************************************************************************)
THEOREM TypeCorrect == Spec => []PlatformTypeOK
<1>1. IInv => PlatformTypeOK
  BY DEF IInv, Typed
<1> QED
  BY <1>1, Inductive, PTL

\* A plugin runs only after the plugins it needs have had their turn
\* (resolve_dependencies), for every dependency relation.
THEOREM DependenciesOrdered == Spec => []DependenciesFirst
<1>1. IInv => DependenciesFirst
  BY DEF IInv
<1> QED
  BY <1>1, Inductive, PTL

\* Events reach plugins in service only (_activate, unload_all).
THEOREM HandlersServe == Spec => []HandlersInService
<1>1. IInv => HandlersInService
  BY DEF IInv
<1> QED
  BY <1>1, Inductive, PTL

\* What was loaded is unloaded once (unload_all).
THEOREM LoadsAndUnloadsPaired == Spec => []UnloadsPaired
<1>1. IInv => UnloadsPaired
  BY DEF IInv, Living, Stopped, UnloadsPaired
<1> QED
  BY <1>1, Inductive, PTL

\* The end of a search, and what follows from it.
LEMMA SearchEnds ==
  ASSUME IInv, [Next]_vars, phase = "resolving", phase' = "starting"
  PROVE  IF Circular(Known, Chosen)
           THEN pending' = <<>> /\ \A p \in Chosen : status'[p] = "failed"
           ELSE /\ status' = status
                /\ ToSet(pending') = Chosen
                /\ IsInjective(pending')
<1>1. pending = <<>> /\ status \in [Plugins -> Statuses] /\ Chosen \subseteq Plugins
  BY DEF IInv, Started, Typed, PlatformTypeOK, Chosen
<1>2. RefuseRing \/ AcceptOrder
  BY DEF Next, StartRuntime, Start, Resolve, Search, Load, Initialize, Activate,
         FailActivation, Wire, EnableCommand, DisableCommand, Shutdown, Unloading,
         Unload, EndShutdown, Leave, vars
<1>3. ToSet(<<>>) = {} /\ IsInjective(<<>>)
  BY DEF ToSet, IsInjective
<1>4. ~Circular(Known, {})
  BY DEF Circular
<1>5. Chosen # {} => Targets = Chosen
  BY DEF Targets, TargetsOf
<1>6. CASE RefuseRing
  <2>1. /\ status' = [p \in Plugins |-> IF p \in Chosen THEN "failed" ELSE status[p]]
        /\ pending' = <<>> /\ RingFound(Known, Targets)
    BY <1>1, <1>6 DEF RefuseRing
  <2>2. CASE Chosen = {}
    <3>1. status' = status
      BY <1>1, <2>1, <2>2
    <3> QED
      BY <1>3, <1>4, <2>1, <2>2, <3>1
  <2>3. CASE Chosen # {}
    <3>1. Circular(Known, Chosen)
      BY <1>5, <2>1, <2>3, RingThere
    <3> QED
      BY <1>1, <2>1, <3>1
  <2> QED
    BY <2>2, <2>3
<1>7. CASE AcceptOrder
  <2>1. /\ status' = status /\ Exhausted
        /\ pending' = IF Chosen = {} THEN <<>> ELSE order
    BY <1>7 DEF AcceptOrder
  <2>2. CASE Chosen = {}
    BY <1>3, <1>4, <2>1, <2>2
  <2>3. CASE Chosen # {}
    <3>1. InTurn(order, Chosen, Known) /\ ~Circular(Known, Chosen)
      BY <1>5, <2>1, <2>3, OrderComplete
    <3>2. order \in Seq(Chosen) /\ DOMAIN order = 1 .. Len(order)
      BY <3>1 DEF InTurn
    <3>3. ToSet(order) = Chosen
      BY <3>1, <3>2 DEF InTurn, ToSet
    <3>4. IsInjective(order)
      BY <3>1, <3>2 DEF InTurn, OneTurnEach, IsInjective
    <3> QED
      BY <2>1, <2>3, <3>1, <3>3, <3>4
  <2> QED
    BY <2>2, <2>3
<1> QED
  BY <1>2, <1>6, <1>7

\* So it is in every behaviour whose steps are steps of the platform.
LEMMA SearchesEnd == Init /\ [][Next]_vars => RingsRefused
<1>1. Init => IInv
  BY InitIInv
<1>2. IInv /\ [Next]_vars => IInv'
  BY NextKeeps
<1>3. IInv /\ [Next]_vars =>
        [phase = "resolving" /\ phase' = "starting" =>
           IF Circular(Known, Chosen)
             THEN pending' = <<>> /\ \A p \in Chosen : status'[p] = "failed"
             ELSE /\ status' = status
                  /\ ToSet(pending') = Chosen
                  /\ IsInjective(pending')]_vars
  BY SearchEnds
<1> QED
  BY <1>1, <1>2, <1>3, PTL DEF RingsRefused

(***************************************************************************)
(* The search finds a ring exactly where there is one, and otherwise gives *)
(* every selected plugin one turn, whatever the plugins need               *)
(* (resolve_dependencies, visit).                                          *)
(***************************************************************************)
THEOREM RingsAreRefused == Spec => RingsRefused
BY SearchesEnd DEF Spec

-----------------------------------------------------------------------------
(* Turning plugins on and off.                                             *)

\* Both activation files are there with two lists, or not there.
FilesTyped == files \in [{"global", "project"} -> {Unset} \cup ActivationFiles]

\* A file that is not there has no entries.
LEMMA EntriesTyped ==
  ASSUME NEW f \in {Unset} \cup ActivationFiles
  PROVE  Entries(f) \in ActivationFiles
BY DEF Entries, NoEntries, ActivationFiles

\* The files stay such files, whoever edits them.
LEMMA EditsTyped ==
  ASSUME NEW f \in {Unset} \cup ActivationFiles, NEW p \in Int
  PROVE  /\ EnablePlugin(f, p) \in ActivationFiles
         /\ DisablePlugin(f, p) \in ActivationFiles
BY EntriesTyped DEF EnablePlugin, DisablePlugin, ActivationFiles

\* Only the commands that edit the files change them.
LEMMA FilesKept ==
  ASSUME FilesTyped, [Next]_vars
  PROVE  FilesTyped'
<1>1. ASSUME NEW p \in Toggled, NEW useGlobal \in BOOLEAN,
             EnableCommand(p, useGlobal) \/ DisableCommand(p, useGlobal)
      PROVE  FilesTyped'
  <2>1. ActivationPath(useGlobal) \in {"global", "project"} /\ p \in Int
    BY ActivationsAssumption DEF ActivationPath
  <2> QED
    BY <1>1, <2>1, EditsTyped DEF EnableCommand, DisableCommand, FilesTyped
<1>2. CASE UNCHANGED files
  BY <1>2 DEF FilesTyped
<1>3. CASE Start \/ Unloading
  <2>1. UNCHANGED files
    BY <1>3 DEF Start, Unloading, Load, Initialize, Activate, FailActivation,
               Wire, Unload, EndShutdown, Resolve, Search, RefuseRing, AcceptOrder
  <2> QED
    BY <2>1, <1>2
<1> QED
  BY <1>1, <1>2, <1>3 DEF Next, StartRuntime, Shutdown, Leave, vars

\* The identifiers a start selects, each looked at alone.
LEMMA SelectedEach ==
  ASSUME NEW manifests, NEW a, NEW q
  PROVE  q \in Selected(manifests, a) <=>
           /\ q \notin a.disabled
           /\ a.enabled # {} => q \in a.enabled
           /\ \E m \in manifests : m.id = q /\ Valid(m)
BY DEF Selected, StatusSelected

\* Lists a and b are both empty or neither, and have the same of all but p.
Differ(a, b, p) ==
  /\ a.enabled = {} <=> b.enabled = {}
  /\ \A q : q # p => /\ q \in a.enabled <=> q \in b.enabled
                     /\ q \in a.disabled <=> q \in b.disabled

\* a is what the entries of the two files make together.
Merged(a, global, project) ==
  /\ a.enabled = IF project.enabled # {} THEN project.enabled ELSE global.enabled
  /\ a.disabled = global.disabled \cup project.disabled

\* What differs in p alone makes a difference to p alone.
LEMMA DifferMerged ==
  ASSUME NEW p, NEW a, NEW g, NEW h, Merged(a, g, h),
         NEW b, NEW g1, NEW h1, Merged(b, g1, h1),
         Differ(g, g1, p), Differ(h, h1, p)
  PROVE  Differ(a, b, p)
BY DEF Differ, Merged

\* Nor does it to what is selected.
LEMMA DifferSelected ==
  ASSUME NEW p, NEW a, NEW b, Differ(a, b, p), NEW manifests
  PROVE  Selected(manifests, a) \ {p} = Selected(manifests, b) \ {p}
<1>1. ASSUME NEW q, q # p
      PROVE  q \in Selected(manifests, a) <=> q \in Selected(manifests, b)
  BY <1>1, SelectedEach DEF Differ
<1> QED
  BY <1>1

\* The entries of file f that count, edited or not.
Counting(f) ==
  IF f = "project" /\ ~installation.inProject THEN NoEntries
  ELSE Entries(files[f])

\* The activation is made of what counts, before a step and after it.
LEMMA InForce ==
  /\ Merged(Activation, Counting("global"), Counting("project"))
  /\ Merged(Activation', Counting("global")', Counting("project")')
<1>1. Merged(Activation, Counting("global"), Counting("project"))
  BY DEF Activation, MergeActivation, Entries, Counting, Merged, NoEntries
<1>2. Merged(Activation', Counting("global")', Counting("project")')
  BY DEF Activation, MergeActivation, Entries, Counting, Merged, NoEntries
<1> QED
  BY <1>1, <1>2

\* An edit changes what counts in the edited file only.
LEMMA EditCounts ==
  ASSUME FilesTyped, NEW path \in {"global", "project"},
         path = "project" => installation.inProject,
         NEW edited \in ActivationFiles,
         files' = [files EXCEPT ![path] = edited],
         UNCHANGED installation
  PROVE  /\ Counting(path) = Entries(files[path])
         /\ Counting(path)' = edited
         /\ Entries(files'[path]) = edited
         /\ \A f \in {"global", "project"} :
              f # path => Counting(f)' = Counting(f)
<1>1. Entries(edited) = edited
  BY ActivationsAssumption DEF Entries
<1>2. files'[path] = edited
      /\ \A f \in {"global", "project"} : f # path => files'[f] = files[f]
  BY DEF FilesTyped
<1>3. Counting(path)' = edited
  BY <1>1, <1>2 DEF Counting
<1>4. \A f \in {"global", "project"} : f # path => Counting(f)' = Counting(f)
  BY <1>2 DEF Counting
<1> QED
  BY <1>1, <1>2, <1>3, <1>4 DEF Counting

\* An edit that concerns p alone changes what is selected of p alone.
LEMMA EditScoped ==
  ASSUME FilesTyped, NEW path \in {"global", "project"},
         path = "project" => installation.inProject,
         NEW edited \in ActivationFiles,
         files' = [files EXCEPT ![path] = edited],
         UNCHANGED installation,
         NEW p, Differ(Entries(files[path]), edited, p)
  PROVE  Selected(Known, Activation) \ {p} = Selected(Known, Activation') \ {p}
<1>1. \A f \in {"global", "project"} :
        IF f = path THEN Differ(Counting(f), Counting(f)', p)
        ELSE Counting(f)' = Counting(f)
  BY EditCounts
<1>2. \A x : Differ(x, x, p)
  BY DEF Differ
<1>3. /\ Differ(Counting("global"), Counting("global")', p)
      /\ Differ(Counting("project"), Counting("project")', p)
  BY <1>1, <1>2
<1>4. Differ(Activation, Activation', p)
  BY <1>3, InForce, DifferMerged
<1> QED
  BY <1>4, DifferSelected

\* The file a command edits is one that counts.
LEMMA PathCounts ==
  ASSUME NEW useGlobal \in BOOLEAN
  PROVE  /\ ActivationPath(useGlobal) \in {"global", "project"}
         /\ ActivationPath(useGlobal) = "project" => installation.inProject
         /\ ActivationPath(useGlobal) = "global" /\ ~useGlobal
              => ~installation.inProject
BY DEF ActivationPath

\* Turning p on has the effect it was asked for, and no other where a list was
\* in force.
LEMMA EnableScoped ==
  ASSUME FilesTyped, NEW p \in Toggled, NEW useGlobal \in BOOLEAN,
         EnableCommand(p, useGlobal)
  PROVE  Scoped(p, useGlobal)
<1> DEFINE before == Selected(Known, Activation)
           after == Selected(Known, Activation')
<1>1. PICK path \in {"global", "project"} :
        /\ path = ActivationPath(useGlobal)
        /\ path = "project" => installation.inProject
        /\ path = "global" /\ ~useGlobal => ~installation.inProject
  BY PathCounts
<1>2. PICK old \in ActivationFiles : old = Entries(files[path])
  BY EntriesTyped DEF FilesTyped
<1>3. PICK edited \in ActivationFiles :
        /\ edited = EnablePlugin(files[path], p)
        /\ edited.enabled = old.enabled \cup {p}
        /\ edited.disabled = old.disabled \ {p}
  <2>1. p \in Int /\ files[path] \in {Unset} \cup ActivationFiles
    BY ActivationsAssumption DEF FilesTyped
  <2>2. EnablePlugin(files[path], p) \in ActivationFiles
    BY <2>1, EditsTyped
  <2>3. /\ EnablePlugin(files[path], p).enabled = old.enabled \cup {p}
        /\ EnablePlugin(files[path], p).disabled = old.disabled \ {p}
    BY <1>2 DEF EnablePlugin
  <2> QED
    BY <2>2, <2>3
<1>4. files' = [files EXCEPT ![path] = edited] /\ UNCHANGED installation
  BY <1>1, <1>3 DEF EnableCommand
<1>5. ASSUME old.enabled # {}
      PROVE  before \ {p} = after \ {p}
  <2>1. Differ(old, edited, p)
    BY <1>3, <1>5 DEF Differ
  <2> QED
    BY <1>1, <1>2, <1>4, <2>1, EditScoped
<1>6. ASSUME ~useGlobal, p \in Selected(Known, NoEntries),
             \A f \in {"global", "project"} \ {path} :
               p \notin Entries(files[f]).disabled
      PROVE  p \in after
  <2>1. p \notin Activation'.disabled /\ p \in Activation'.enabled
    <3>1. Counting(path)' = edited
      BY <1>1, <1>4, EditCounts
    <3>2. \A f \in {"global", "project"} : f # path => Counting(f)' = Counting(f)
      BY <1>1, <1>4, EditCounts
    <3>3. Merged(Activation', Counting("global")', Counting("project")')
      BY InForce
    <3>4. CASE path = "project"
      <4>1. p \notin Counting("global").disabled
        BY <1>6, <3>4 DEF Counting
      <4> QED
        BY <1>3, <3>1, <3>2, <3>3, <3>4, <4>1 DEF Merged
    <3>5. CASE path = "global"
      <4>1. Counting("project") = NoEntries
        BY <1>1, <1>6, <3>5 DEF Counting
      <4>2. NoEntries.enabled = {} /\ NoEntries.disabled = {}
        BY DEF NoEntries
      <4> QED
        BY <1>3, <3>1, <3>2, <3>3, <3>5, <4>1, <4>2 DEF Merged
    <3> QED
      BY <3>4, <3>5
  <2>2. \E m \in Known : m.id = p /\ Valid(m)
    BY <1>6, SelectedEach
  <2> QED
    BY <2>1, <2>2, SelectedEach
<1>7. ~DisableCommand(p, useGlobal)
  <2>1. SUFFICES ASSUME DisableCommand(p, useGlobal)
                 PROVE  FALSE
    OBVIOUS
  <2>2. files'[path] = edited /\ files'[path] = DisablePlugin(files[path], p)
    BY <1>1, <1>4, <2>1 DEF DisableCommand, FilesTyped
  <2> QED
    BY <1>3, <2>2 DEF DisablePlugin
<1> QED
  BY <1>1, <1>2, <1>5, <1>6, <1>7 DEF Scoped

\* The same of turning p off.
LEMMA DisableScoped ==
  ASSUME FilesTyped, NEW p \in Toggled, NEW useGlobal \in BOOLEAN,
         DisableCommand(p, useGlobal)
  PROVE  Scoped(p, useGlobal)
<1> DEFINE before == Selected(Known, Activation)
           after == Selected(Known, Activation')
<1>1. PICK path \in {"global", "project"} :
        /\ path = ActivationPath(useGlobal)
        /\ path = "project" => installation.inProject
  BY PathCounts
<1>2. PICK old \in ActivationFiles : old = Entries(files[path])
  BY EntriesTyped DEF FilesTyped
<1>3. PICK edited \in ActivationFiles :
        /\ edited = DisablePlugin(files[path], p)
        /\ edited.enabled = old.enabled \ {p}
        /\ edited.disabled = old.disabled \cup {p}
  <2>1. p \in Int /\ files[path] \in {Unset} \cup ActivationFiles
    BY ActivationsAssumption DEF FilesTyped
  <2>2. DisablePlugin(files[path], p) \in ActivationFiles
    BY <2>1, EditsTyped
  <2>3. /\ DisablePlugin(files[path], p).enabled = old.enabled \ {p}
        /\ DisablePlugin(files[path], p).disabled = old.disabled \cup {p}
    BY <1>2 DEF DisablePlugin
  <2> QED
    BY <2>2, <2>3
<1>4. files' = [files EXCEPT ![path] = edited] /\ UNCHANGED installation
  BY <1>1, <1>3 DEF DisableCommand
<1>5. Counting(path)' = edited /\ Entries(files'[path]) = edited
  BY <1>1, <1>4, EditCounts
<1>6. ASSUME old.enabled = {} \/ edited.enabled # {}
      PROVE  before \ {p} = after \ {p}
  <2>1. Differ(old, edited, p)
    BY <1>3, <1>6 DEF Differ
  <2> QED
    BY <1>1, <1>2, <1>4, <2>1, EditScoped
<1>7. p \notin after
  <2>1. p \in Activation'.disabled
    BY <1>3, <1>5, InForce DEF Merged
  <2> QED
    BY <2>1, SelectedEach
<1>8. ~EnableCommand(p, useGlobal)
  <2>1. SUFFICES ASSUME EnableCommand(p, useGlobal)
                 PROVE  FALSE
    OBVIOUS
  <2>2. files'[path] = edited /\ files'[path] = EnablePlugin(files[path], p)
    BY <1>1, <1>4, <2>1 DEF EnableCommand, FilesTyped
  <2> QED
    BY <1>3, <2>2 DEF EnablePlugin
<1> QED
  BY <1>1, <1>2, <1>5, <1>6, <1>7, <1>8 DEF Scoped

\* Whatever the step, from files that are files.
LEMMA ToggleScopes ==
  ASSUME FilesTyped
  PROVE  \A p \in Toggled, useGlobal \in BOOLEAN : Scoped(p, useGlobal)
<1>1. ASSUME NEW p \in Toggled, NEW useGlobal \in BOOLEAN
      PROVE  Scoped(p, useGlobal)
  <2>1. CASE EnableCommand(p, useGlobal)
    BY <2>1, EnableScoped
  <2>2. CASE DisableCommand(p, useGlobal)
    BY <2>2, DisableScoped
  <2> QED
    BY <2>1, <2>2 DEF Scoped
<1> QED
  BY <1>1

(***************************************************************************)
(* A toggle has the effect it was asked for, and on the others none while  *)
(* a list stays in force, for all files, manifests and plugins             *)
(* (enable_plugin, disable_plugin, merge_activation).                      *)
(***************************************************************************)
THEOREM TogglesScoped == Spec => ToggleScoped
<1>1. Init => FilesTyped
  BY ActivationsAssumption DEF Init, FilesTyped
<1>2. FilesTyped /\ [Next]_vars => FilesTyped'
  BY FilesKept
<1>3. FilesTyped
        => [\A p \in Toggled, useGlobal \in BOOLEAN : Scoped(p, useGlobal)]_vars
  BY ToggleScopes
<1> QED
  BY <1>1, <1>2, <1>3, PTL DEF Spec, ToggleScoped

=============================================================================
