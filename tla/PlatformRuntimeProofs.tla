------------------------ MODULE PlatformRuntimeProofs ------------------------
(***************************************************************************)
(* The runtime with its AI workers implements the plugin platform, so what *)
(* is proved of the platform holds while tasks are at work as well. Then   *)
(* the chain of providers: what ResolveChain returns, and how far a task   *)
(* at work has come along it.                                              *)
(***************************************************************************)
EXTENDS PlatformRuntime, PluginPlatformProofs, FiniteSetTheorems

\* A step of the runtime is a step of the platform, or leaves it alone.
LEMMA StepRefines ==
  ASSUME [RuntimeNext]_rvars
  PROVE  [Next]_vars
<1>1. CASE Work
  BY <1>1 DEF Work, BeginTask, Ask
<1>2. CASE Platform
  BY <1>2 DEF Platform, Next
<1>3. CASE UNCHANGED rvars
  BY <1>3 DEF rvars
<1> QED
  BY <1>1, <1>2, <1>3 DEF RuntimeNext

\* Every behaviour of the runtime is one of the platform (its safety part).
THEOREM RuntimeImplementsPlatform == RuntimeSpec => Init /\ [][Next]_vars
<1>1. RuntimeInit => Init
  BY DEF RuntimeInit
<1>2. [RuntimeNext]_rvars => [Next]_vars
  BY StepRefines
<1> QED
  BY <1>1, <1>2, PTL DEF RuntimeSpec

(***************************************************************************)
(* In every runtime, tasks at work or not: types, dependencies in order,   *)
(* rings refused, events to plugins in service only, and every load        *)
(* unloaded once.                                                          *)
(***************************************************************************)
THEOREM RuntimeSafe ==
  RuntimeSpec =>
    /\ [](PlatformTypeOK /\ DependenciesFirst /\ HandlersInService /\ UnloadsPaired)
    /\ RingsRefused
<1>1. Init => IInv
  BY InitIInv
<1>2. IInv /\ [Next]_vars => IInv'
  BY NextKeeps
<1>3. IInv => PlatformTypeOK /\ DependenciesFirst /\ HandlersInService /\ UnloadsPaired
  BY DEF IInv, Typed, Living, Stopped, UnloadsPaired
<1> QED
  BY <1>1, <1>2, <1>3, RuntimeImplementsPlatform, SearchesEnd, PTL

-----------------------------------------------------------------------------
(* A finite set in order.                                                  *)

\* R orders the elements of S, one before the other.
Orders(R, S) ==
  /\ \A x \in S : <<x, x>> \notin R
  /\ \A x, y \in S : x = y \/ <<x, y>> \in R \/ <<y, x>> \in R
  /\ \A x, y, z \in S : <<x, y>> \in R /\ <<y, z>> \in R => <<x, z>> \in R

\* Sequence s is the elements of S in the order of R.
InOrderOf(s, S, R) ==
  /\ s \in [1 .. Cardinality(S) -> S]
  /\ \A i, j \in 1 .. Cardinality(S) : i < j => <<s[i], s[j]>> \in R

\* An order of the elements stays one on a part of them.
LEMMA OrdersPart ==
  ASSUME NEW R, NEW S, NEW T \in SUBSET S, Orders(R, S)
  PROVE  Orders(R, T)
BY DEF Orders

\* In order, every element comes once.
LEMMA InOrderFacts ==
  ASSUME NEW S, NEW R, NEW s, IsFiniteSet(S), Orders(R, S), InOrderOf(s, S, R)
  PROVE  /\ \A i, j \in 1 .. Cardinality(S) : s[i] = s[j] => i = j
         /\ \A x \in S : \E i \in 1 .. Cardinality(S) : s[i] = x
<1> DEFINE n == Cardinality(S)
<1>1. n \in Nat
  BY FS_CardinalityType
<1> HIDE DEF n
<1>2. s \in [1 .. n -> S] /\ \A i, j \in 1 .. n : i < j => <<s[i], s[j]>> \in R
  BY DEF InOrderOf, n
<1>3. ASSUME NEW i \in 1 .. n, NEW j \in 1 .. n, s[i] = s[j]
      PROVE  i = j
  <2>1. ~(i < j) /\ ~(j < i)
    BY <1>2, <1>3 DEF Orders
  <2> QED
    BY <2>1
<1>4. IsFiniteSet(1 .. n) /\ Cardinality(1 .. n) = n
  BY <1>1, FS_Interval
<1>5. s \in Injection(1 .. n, S)
  BY <1>2, <1>3 DEF Injection, IsInjective
<1>6. s \in Surjection(1 .. n, S)
  BY <1>4, <1>5, FS_Injection DEF n
<1>7. \A x \in S : \E i \in 1 .. n : s[i] = x
  BY <1>6 DEF Surjection
<1> QED
  BY <1>3, <1>7 DEF n

\* An element behind all others can be put at the end.
LEMMA LastAppended ==
  ASSUME NEW S, NEW R, NEW x \in S, NEW s, IsFiniteSet(S),
         InOrderOf(s, S \ {x}, R), \A y \in S \ {x} : <<y, x>> \in R
  PROVE  \E t : InOrderOf(t, S, R)
<1> DEFINE n == Cardinality(S)
           t == [i \in 1 .. n |-> IF i = n THEN x ELSE s[i]]
<1>1. n \in Nat /\ Cardinality(S \ {x}) = n - 1
  BY FS_CardinalityType, FS_RemoveElement
<1> HIDE DEF n
<1>2. /\ s \in [1 .. n - 1 -> S \ {x}]
      /\ \A i, j \in 1 .. n - 1 : i < j => <<s[i], s[j]>> \in R
  BY <1>1 DEF InOrderOf
<1>3. t \in [1 .. n -> S]
  BY <1>1, <1>2
<1>4. ASSUME NEW i \in 1 .. n, NEW j \in 1 .. n, i < j
      PROVE  <<t[i], t[j]>> \in R
  <2>1. i \in 1 .. n - 1 /\ t[i] = s[i]
    BY <1>1, <1>4
  <2>2. CASE j = n
    BY <1>2, <2>1, <2>2
  <2>3. CASE j # n
    BY <1>1, <1>2, <1>4, <2>1, <2>3
  <2> QED
    BY <2>2, <2>3
<1> QED
  BY <1>3, <1>4 DEF InOrderOf, n

(***************************************************************************)
(* The elements of a finite set can be put in order: a smallest set for    *)
(* which that fails would have a last element, and could do without it.    *)
(***************************************************************************)
LEMMA Sortable ==
  ASSUME NEW S, IsFiniteSet(S), NEW R, Orders(R, S)
  PROVE  \E s : InOrderOf(s, S, R)
<1> DEFINE Bad == {T \in SUBSET S : ~ \E s : InOrderOf(s, T, R)}
           Sizes == {n \in Nat : \E T \in Bad : Cardinality(T) = n}
<1>1. \A T \in SUBSET S : IsFiniteSet(T) /\ Cardinality(T) \in Nat
  BY FS_Subset, FS_CardinalityType
<1>2. SUFFICES ASSUME S \in Bad
               PROVE  FALSE
  OBVIOUS
<1>3. Sizes # {}
  BY <1>1, <1>2
<1>4. PICK n \in Sizes : \A m \in Sizes : n <= m
  <2> HIDE DEF Sizes
  <2> QED
    BY <1>3, LeastNumber DEF Sizes
<1>5. PICK T \in Bad : Cardinality(T) = n
  OBVIOUS
<1> DEFINE Sorted(U) == \E s : InOrderOf(s, U, R)
<1>6. ASSUME NEW U \in SUBSET T, Cardinality(U) < n
      PROVE  Sorted(U)
  BY <1>1, <1>4, <1>6
<1>7. T \in SUBSET S /\ IsFiniteSet(T) /\ n \in Nat /\ Orders(R, T) /\ ~Sorted(T)
  BY <1>1, <1>5, OrdersPart
<1> HIDE DEF Bad, Sizes
<1>8. ASSUME NEW x \in T
      PROVE  /\ IsFiniteSet(T \ {x}) /\ Cardinality(T \ {x}) = n - 1
             /\ Orders(R, T \ {x}) /\ Sorted(T \ {x})
  <2>1. IsFiniteSet(T \ {x}) /\ Cardinality(T \ {x}) = n - 1
    BY <1>5, <1>7, FS_RemoveElement
  <2>2. Orders(R, T \ {x})
    BY <1>7, OrdersPart
  <2> HIDE DEF Sorted
  <2> QED
    BY <1>6, <1>7, <2>1, <2>2
<1>9. PICK x \in T : TRUE
  <2>1. CASE T = {}
    <3>1. n = 0
      BY <1>5, <2>1, FS_EmptySet
    <3>2. InOrderOf([i \in 1 .. 0 |-> 0], T, R)
      BY <1>5, <3>1 DEF InOrderOf
    <3> QED
      BY <1>7, <3>2
  <2> QED
    BY <2>1
<1>10. PICK z \in T : \A y \in T \ {z} : <<y, z>> \in R
  <2>1. PICK s : InOrderOf(s, T \ {x}, R)
    BY <1>8
  <2>2. CASE n = 1
    <3>1. IsFiniteSet(T \ {x}) /\ Cardinality(T \ {x}) = 0
      BY <1>8, <2>2
    <3>2. T \ {x} = {}
      BY <3>1, FS_EmptySet
    <3> QED
      BY <3>2
  <2>3. CASE n # 1
    <3>1. n - 1 \in Nat /\ n - 1 >= 1
      <4>1. IsFiniteSet(T \ {x}) /\ Cardinality(T \ {x}) = n - 1
        BY <1>8
      <4>2. n - 1 \in Nat
        BY <4>1, FS_CardinalityType
      <4> QED
        BY <1>7, <2>3, <4>2
    <3> DEFINE w == s[n - 1]
    <3>2. w \in T \ {x} /\ \A y \in T \ {x} : y = w \/ <<y, w>> \in R
      <4>1. /\ s \in [1 .. n - 1 -> T \ {x}]
            /\ \A i, j \in 1 .. n - 1 : i < j => <<s[i], s[j]>> \in R
        BY <1>8, <2>1 DEF InOrderOf
      <4>2. \A y \in T \ {x} : \E i \in 1 .. n - 1 : s[i] = y
        BY <1>8, <2>1, InOrderFacts
      <4> QED
        BY <3>1, <4>1, <4>2
    <3> HIDE DEF w
    <3>3. CASE <<w, x>> \in R
      BY <1>7, <1>9, <3>2, <3>3 DEF Orders
    <3>4. CASE <<w, x>> \notin R
      BY <1>7, <1>9, <3>2, <3>4 DEF Orders
    <3> QED
      BY <3>3, <3>4
  <2> QED
    BY <2>2, <2>3
<1>11. PICK s : InOrderOf(s, T \ {z}, R)
  BY <1>8
<1>12. Sorted(T)
  BY <1>7, <1>10, <1>11, LastAppended
<1> QED
  BY <1>7, <1>12

-----------------------------------------------------------------------------
(* The chain of providers.                                                 *)

\* Sequence s is the numbers of S in ascending order, all of them.
Ascends(s, S) ==
  /\ Cardinality(S) \in Nat /\ s \in [1 .. Cardinality(S) -> S]
  /\ \A i, j \in 1 .. Cardinality(S) : i < j => s[i] < s[j]
  /\ \A x \in S : \E i \in 1 .. Cardinality(S) : s[i] = x

\* Ascending is what its name says, on finite sets of numbers.
LEMMA AscendingAscends ==
  ASSUME NEW S \in SUBSET Nat, IsFiniteSet(S)
  PROVE  Ascends(Ascending(S), S)
<1> DEFINE n == Cardinality(S)
           s == Ascending(S)
           R == {p \in S \X S : p[1] < p[2]}
<1>1. n \in Nat
  BY FS_CardinalityType
<1>2. Orders(R, S)
  BY DEF Orders
<1>3. \A x, y \in S : <<x, y>> \in R <=> x < y
  OBVIOUS
<1> HIDE DEF R
<1>4. PICK f : InOrderOf(f, S, R)
  BY <1>2, Sortable
<1>5. f \in [1 .. n -> S] /\ \A i, j \in 1 .. n : i < j => f[i] < f[j]
  BY <1>3, <1>4 DEF InOrderOf
<1>6. s \in [1 .. n -> S] /\ \A i, j \in 1 .. n : i < j => s[i] < s[j]
  BY <1>5 DEF Ascending, InOrder
<1> HIDE DEF n, s
<1>7. InOrderOf(s, S, R)
  BY <1>3, <1>6 DEF InOrderOf, n
<1>8. \A x \in S : \E i \in 1 .. n : s[i] = x
  BY <1>2, <1>7, InOrderFacts DEF n
<1>9. Ascends(s, S)
  BY <1>1, <1>6, <1>8 DEF Ascends, n
<1> QED
  BY <1>9 DEF s

\* The providers by priority: a sequence of all of them.
LEMMA AllByPriority ==
  ASSUME NEW registered \in SUBSET DOMAIN Provider
  PROVE  /\ ByPriority(registered) \in Seq(registered)
         /\ \A q \in registered : \E i \in 1 .. Len(ByPriority(registered)) :
              ByPriority(registered)[i] = q
<1> DEFINE n == Cardinality(registered)
           s == ByPriority(registered)
           R == {p \in registered \X registered : Outranks(p[1], p[2])}
<1>1. IsFiniteSet(registered) /\ n \in Nat
  BY ProvidersAreNumbers, FS_Subset, FS_CardinalityType
<1>2. /\ \A q \in registered : q \in Int /\ Provider[q].priority \in Int
  BY ProvidersAreNumbers
<1>3. Orders(R, registered)
  BY <1>2 DEF Orders, Outranks
<1>4. \A q, r \in registered : <<q, r>> \in R <=> Outranks(q, r)
  OBVIOUS
<1> HIDE DEF R
<1>5. PICK f : InOrderOf(f, registered, R)
  BY <1>1, <1>3, Sortable
<1>6. /\ f \in [1 .. n -> registered]
      /\ \A i, j \in 1 .. n : i < j => Outranks(f[i], f[j])
  BY <1>4, <1>5 DEF InOrderOf
<1>7. /\ s \in [1 .. n -> registered]
      /\ \A i, j \in 1 .. n : i < j => Outranks(s[i], s[j])
  BY <1>6 DEF ByPriority, InOrder
<1> HIDE DEF n, s
<1>8. InOrderOf(s, registered, R)
  BY <1>4, <1>7 DEF InOrderOf, n
<1>9. \A q \in registered : \E i \in 1 .. n : s[i] = q
  BY <1>1, <1>3, <1>8, InOrderFacts DEF n
<1>10. s \in Seq(registered) /\ Len(s) = n
  BY <1>1, <1>7
<1> QED
  BY <1>9, <1>10 DEF s

\* The chain made of the identifiers ids: those that are registered and have
\* capability c, each where it comes first.
Chained(chain, ids, registered, c) ==
  /\ chain \in Seq(registered)
  /\ \A k \in 1 .. Len(chain) : Supports(chain[k], c)
  /\ \A k, l \in 1 .. Len(chain) : chain[k] = chain[l] => k = l
  /\ \A i \in 1 .. Len(ids) :
       ids[i] \in registered /\ Supports(ids[i], c)
         => \E k \in 1 .. Len(chain) : chain[k] = ids[i]
  /\ \A k, l \in 1 .. Len(chain), m \in 1 .. Len(ids) :
       k < l /\ ids[m] = chain[l] => \E j \in 1 .. m - 1 : ids[j] = chain[k]

\* The loop over the identifiers is such a chain.
LEMMA UsableChained ==
  ASSUME NEW V, NEW ids \in Seq(V), NEW registered, NEW c
  PROVE  Chained(Usable(ids, registered, c), ids, registered, c)
<1> DEFINE kept == {i \in DOMAIN ids :
                      /\ ids[i] \in registered /\ Supports(ids[i], c)
                      /\ \A j \in 1 .. i - 1 : ids[j] # ids[i]}
           n == Cardinality(kept)
           place == Ascending(kept)
           chain == [k \in 1 .. n |-> ids[place[k]]]
<1>1. kept \in SUBSET Nat /\ IsFiniteSet(kept)
  <2>1. kept \in SUBSET (1 .. Len(ids)) /\ 1 .. Len(ids) \in SUBSET Nat
    OBVIOUS
  <2>2. IsFiniteSet(1 .. Len(ids))
    BY FS_Interval
  <2> HIDE DEF kept
  <2> QED
    BY <2>1, <2>2, FS_Subset
<1>2. Ascends(place, kept)
  <2> HIDE DEF kept
  <2> QED
    BY <1>1, AscendingAscends
<1>3. \A i \in kept :
        /\ i \in 1 .. Len(ids) /\ ids[i] \in registered /\ Supports(ids[i], c)
        /\ \A j \in 1 .. i - 1 : ids[j] # ids[i]
  OBVIOUS
<1>4. Usable(ids, registered, c) = chain
  BY DEF Usable
<1>5. ASSUME NEW i \in 1 .. Len(ids), ids[i] \in registered, Supports(ids[i], c)
      PROVE  \E p \in kept : ids[p] = ids[i]
  <2> DEFINE T == {j \in 1 .. Len(ids) : ids[j] = ids[i]}
  <2>1. T \in SUBSET Nat /\ T # {}
    OBVIOUS
  <2>2. PICK p \in T : \A j \in T : p <= j
    <3> HIDE DEF T
    <3> QED
      BY <2>1, LeastNumber
  <2>3. \A j \in 1 .. p - 1 : ids[j] # ids[p]
    BY <2>2
  <2>4. p \in kept
    BY <1>5, <2>3
  <2> QED
    BY <2>4
<1> HIDE DEF kept, place
<1>6. /\ n \in Nat /\ place \in [1 .. n -> kept]
      /\ \A i, j \in 1 .. n : i < j => place[i] < place[j]
      /\ \A x \in kept : \E i \in 1 .. n : place[i] = x
  BY <1>2 DEF Ascends
<1> HIDE DEF n
<1>7. chain \in Seq(registered) /\ Len(chain) = n
  BY <1>3, <1>6
<1>8. \A k \in 1 .. n : chain[k] = ids[place[k]] /\ place[k] \in kept
  BY <1>6
<1> HIDE DEF chain
<1>9. ASSUME NEW k \in 1 .. n, NEW i \in 1 .. Len(ids), ids[i] = chain[k]
      PROVE  place[k] <= i
  <2> DEFINE p == place[k]
  <2>1. p \in kept /\ p \in 1 .. Len(ids) /\ ids[p] = ids[i]
    BY <1>3, <1>8, <1>9
  <2>2. ~(i \in 1 .. p - 1)
    BY <1>3, <2>1
  <2> HIDE DEF p
  <2>3. p <= i
    BY <2>1, <2>2
  <2> QED
    BY <2>3 DEF p
<1>10. ASSUME NEW k \in 1 .. n, NEW l \in 1 .. n, chain[k] = chain[l]
       PROVE  k = l
  <2>1. place[k] <= place[l] /\ place[l] <= place[k]
    BY <1>3, <1>8, <1>9, <1>10
  <2>2. place[k] \in Nat /\ place[l] \in Nat
    BY <1>1, <1>8
  <2>3. ~(k < l) /\ ~(l < k)
    BY <1>6, <2>1, <2>2
  <2> QED
    BY <1>6, <2>3
<1>11. ASSUME NEW k \in 1 .. n, NEW l \in 1 .. n, NEW m \in 1 .. Len(ids),
              k < l, ids[m] = chain[l]
       PROVE  \E j \in 1 .. m - 1 : ids[j] = chain[k]
  <2>1. place[k] < place[l] /\ place[l] <= m
    BY <1>6, <1>9, <1>11
  <2>2. place[k] \in 1 .. Len(ids) /\ place[l] \in Nat /\ ids[place[k]] = chain[k]
    BY <1>1, <1>3, <1>8
  <2> QED
    BY <2>1, <2>2
<1>12. ASSUME NEW i \in 1 .. Len(ids), ids[i] \in registered, Supports(ids[i], c)
       PROVE  \E k \in 1 .. n : chain[k] = ids[i]
  <2>1. PICK p \in kept : ids[p] = ids[i]
    BY <1>5, <1>12
  <2> QED
    BY <1>6, <1>8, <2>1
<1>13. \A k \in 1 .. n : Supports(chain[k], c)
  BY <1>3, <1>8
<1>14. Chained(chain, ids, registered, c)
  BY <1>7, <1>10, <1>11, <1>12, <1>13 DEF Chained
<1> QED
  BY <1>4, <1>14

\* What a chain promises: all able providers, each once, the configured ones
\* before the others and the first of them at its head.
Resolved(chain, registered, c) ==
  LET configured == Configured(installation.ai, c) IN
  /\ chain \in Seq(registered)
  /\ \A k \in 1 .. Len(chain) : Supports(chain[k], c)
  /\ \A k, l \in 1 .. Len(chain) : chain[k] = chain[l] => k = l
  /\ \A q \in registered :
       Supports(q, c) => \E k \in 1 .. Len(chain) : chain[k] = q
  /\ \A k, l \in 1 .. Len(chain) :
       k < l /\ chain[l] \in ToSet(configured) => chain[k] \in ToSet(configured)
  /\ configured # <<>> /\ configured[1] \in registered /\ Supports(configured[1], c)
       => Len(chain) > 0 /\ chain[1] = configured[1]

\* A sequence of one element or of none.
LEMMA OneOrNone ==
  ASSUME NEW V, NEW x \in V
  PROVE  <<>> \in Seq(V) /\ <<x>> \in Seq(V) /\ Len(<<x>>) = 1 /\ <<x>>[1] = x
OBVIOUS

\* What the configuration says of a capability is a sequence.
LEMMA ConfiguredSeq ==
  ASSUME installation \in Installations, NEW c
  PROVE  /\ Configured(installation.ai, c) \in Seq(ToSet(Configured(installation.ai, c)))
         /\ LET routing == installation.ai.routing IN
            c \in DOMAIN routing /\ routing[c].preferred # NoProvider
              => /\ Configured(installation.ai, c) # <<>>
                 /\ Configured(installation.ai, c)[1] = routing[c].preferred
<1> DEFINE routing == installation.ai.routing
           s == Configured(installation.ai, c)
<1>1. CASE c \notin DOMAIN routing
  BY <1>1 DEF Configured, ToSet
<1>2. CASE c \in DOMAIN routing
  <2> DEFINE p == routing[c].preferred
             b == routing[c].fallback
             a == IF p = NoProvider THEN <<>> ELSE <<p>>
             V == Int \cup {p}
  <2>1. s = a \o b
    BY <1>2 DEF Configured
  <2>2. b \in Seq(V)
    <3>1. b \in Seq(Int)
      BY <1>2, RoutesAssumption
    <3> HIDE DEF b
    <3> QED
      BY <3>1
  <2>3. a \in Seq(V) /\ (p # NoProvider => Len(a) = 1 /\ a[1] = p)
    <3>1. p \in V
      OBVIOUS
    <3> HIDE DEF p, V
    <3>2. CASE p = NoProvider
      BY <3>1, <3>2, OneOrNone
    <3>3. CASE p # NoProvider
      BY <3>1, <3>3, OneOrNone
    <3> QED
      BY <3>2, <3>3
  <2> HIDE DEF s, p, a, b, V
  <2>4. s \in Seq(V) /\ (p # NoProvider => Len(s) > 0 /\ s[1] = p)
    BY <2>1, <2>2, <2>3
  <2>5. s \in Seq(ToSet(s))
    BY <2>4 DEF ToSet
  <2>6. p # NoProvider => s # <<>> /\ s[1] = p
    BY <2>4
  <2> QED
    BY <1>2, <2>5, <2>6 DEF s, p
<1> QED
  BY <1>1, <1>2

\* ResolveChain has every capable provider once, a fitting configured one first.
LEMMA ChainResolved ==
  ASSUME installation \in Installations, NEW c,
         NEW registered \in SUBSET DOMAIN Provider
  PROVE  Resolved(ResolveChain(installation.ai, registered, c), registered, c)
<1> DEFINE a == Configured(installation.ai, c)
           b == DefaultOf(installation.ai, registered)
           d == ByPriority(registered)
           ids == (a \o b) \o d
           V == ToSet(a) \cup registered
           chain == Usable(ids, registered, c)
<1>1. a \in Seq(V)
  <2>1. a \in Seq(ToSet(a))
    BY ConfiguredSeq
  <2> HIDE DEF a
  <2> QED
    BY <2>1
<1>2. b \in Seq(V)
  <2> DEFINE x == installation.ai.default
  <2>1. registered \subseteq V
    OBVIOUS
  <2>2. b = IF x \in registered THEN <<x>> ELSE <<>>
    BY DEF DefaultOf
  <2> HIDE DEF x, b, V
  <2>3. CASE x \in registered
    BY <2>1, <2>2, <2>3, OneOrNone
  <2>4. CASE x \notin registered
    BY <2>2, <2>4
  <2> QED
    BY <2>3, <2>4
<1>3. /\ d \in Seq(V)
      /\ \A q \in registered : \E i \in 1 .. Len(d) : d[i] = q
  <2>1. /\ d \in Seq(registered)
        /\ \A q \in registered : \E i \in 1 .. Len(d) : d[i] = q
    BY AllByPriority
  <2> HIDE DEF d
  <2> QED
    BY <2>1
<1>4. ResolveChain(installation.ai, registered, c) = chain
  BY DEF ResolveChain
<1> HIDE DEF a, b, d
<1>5. /\ a \o b \in Seq(V) /\ Len(a) <= Len(a \o b)
      /\ \A i \in 1 .. Len(a) : (a \o b)[i] = a[i]
  BY <1>1, <1>2
<1>6. /\ ids \in Seq(V) /\ Len(a) <= Len(ids)
      /\ \A i \in 1 .. Len(a) : ids[i] = a[i]
      /\ \A i \in 1 .. Len(d) :
           Len(a \o b) + i \in 1 .. Len(ids) /\ ids[Len(a \o b) + i] = d[i]
  BY <1>1, <1>3, <1>5
<1> HIDE DEF ids
<1>7. Chained(chain, ids, registered, c)
  BY <1>6, UsableChained
<1> HIDE DEF chain, V
<1>8. /\ chain \in Seq(registered)
      /\ \A k \in 1 .. Len(chain) : Supports(chain[k], c)
      /\ \A k, l \in 1 .. Len(chain) : chain[k] = chain[l] => k = l
  BY <1>7 DEF Chained
<1>9. ASSUME NEW q \in registered, Supports(q, c)
      PROVE  \E k \in 1 .. Len(chain) : chain[k] = q
  <2>1. PICK i \in 1 .. Len(ids) : ids[i] = q
    BY <1>3, <1>6
  <2> QED
    BY <1>7, <1>9, <2>1 DEF Chained
<1>10. Len(a) \in Nat /\ Len(ids) \in Nat /\ Len(a) <= Len(ids)
  BY <1>1, <1>6
<1>11. ASSUME NEW k \in 1 .. Len(chain), NEW l \in 1 .. Len(chain), k < l,
              chain[l] \in ToSet(a)
       PROVE  chain[k] \in ToSet(a)
  <2>1. PICK m \in 1 .. Len(a) : a[m] = chain[l]
    BY <1>1, <1>11 DEF ToSet
  <2>2. m \in 1 .. Len(ids) /\ ids[m] = chain[l]
    BY <1>6, <1>10, <2>1
  <2>3. PICK j \in 1 .. m - 1 : ids[j] = chain[k]
    BY <1>7, <1>11, <2>2 DEF Chained
  <2>4. j \in 1 .. Len(a) /\ a[j] = chain[k]
    BY <1>6, <1>10, <2>1, <2>3
  <2> QED
    BY <1>1, <2>4 DEF ToSet
<1>12. ASSUME a # <<>>, a[1] \in registered, Supports(a[1], c)
       PROVE  Len(chain) > 0 /\ chain[1] = a[1]
  <2>1. 1 \in 1 .. Len(a)
    BY <1>1, <1>12
  <2>2. 1 \in 1 .. Len(ids) /\ ids[1] = a[1]
    BY <1>6, <1>10, <2>1
  <2>3. PICK k \in 1 .. Len(chain) : chain[k] = ids[1]
    BY <1>7, <1>12, <2>2 DEF Chained
  <2>4. ~(1 < k)
    <3>1. SUFFICES ASSUME 1 < k
                   PROVE  FALSE
      OBVIOUS
    <3>2. 1 \in 1 .. Len(chain)
      BY <1>8, <2>3, <3>1
    <3>3. PICK j \in 1 .. 1 - 1 : ids[j] = chain[1]
      BY <1>7, <2>2, <2>3, <3>1, <3>2 DEF Chained
    <3> QED
      OBVIOUS
  <2>5. k = 1 /\ Len(chain) \in Nat /\ Len(chain) > 0
    BY <1>8, <2>3, <2>4
  <2> QED
    BY <2>2, <2>3, <2>5
<1>13. Resolved(chain, registered, c)
  BY <1>8, <1>9, <1>11, <1>12 DEF Resolved, a
<1> QED
  BY <1>4, <1>13

-----------------------------------------------------------------------------
(* The task at work.                                                       *)

\* The chain task.capability has now.
Route == ResolveChain(installation.ai, Registered, task.capability)

\* Sequences a and b make up R.
Splits(a, b, R, V) ==
  /\ a \in Seq(V) /\ b \in Seq(V) /\ Len(R) \in Nat
  /\ Len(a) + Len(b) = Len(R)
  /\ \A i \in 1 .. Len(a) : a[i] = R[i]
  /\ \A i \in 1 .. Len(b) : b[i] = R[Len(a) + i]

\* The head of b can be moved to the end of a.
LEMMA SplitsFurther ==
  ASSUME NEW V, NEW R, NEW a, NEW b, Splits(a, b, R, V), Len(b) > 0
  PROVE  /\ Splits(Append(a, Head(b)), Tail(b), R, V)
         /\ Len(Tail(b)) = Len(b) - 1 /\ Len(b) \in Nat
<1> DEFINE n == Len(a)
           a1 == Append(a, Head(b))
           b1 == Tail(b)
<1>1. /\ a \in Seq(V) /\ b \in Seq(V) /\ n \in Nat /\ Len(b) \in Nat
      /\ Len(R) \in Nat /\ n + Len(b) = Len(R)
      /\ \A i \in 1 .. n : a[i] = R[i]
      /\ \A i \in 1 .. Len(b) : b[i] = R[n + i]
  BY DEF Splits
<1>2. /\ a1 \in Seq(V) /\ Len(a1) = n + 1
      /\ \A i \in 1 .. n : a1[i] = a[i]
      /\ a1[n + 1] = b[1]
  BY <1>1
<1>3. /\ b1 \in Seq(V) /\ Len(b1) = Len(b) - 1
      /\ \A i \in 1 .. Len(b) - 1 : b1[i] = b[i + 1]
  BY <1>1
<1> HIDE DEF n, a1, b1
<1>4. ASSUME NEW i \in 1 .. n + 1
      PROVE  a1[i] = R[i]
  <2>1. CASE i = n + 1
    BY <1>1, <1>2, <2>1
  <2>2. CASE i # n + 1
    BY <1>1, <1>2, <2>2
  <2> QED
    BY <2>1, <2>2
<1>5. ASSUME NEW i \in 1 .. Len(b) - 1
      PROVE  b1[i] = R[(n + 1) + i]
  <2>1. i + 1 \in 1 .. Len(b) /\ n + (i + 1) = (n + 1) + i
    BY <1>1
  <2> QED
    BY <1>1, <1>3, <2>1
<1>6. (n + 1) + (Len(b) - 1) = Len(R)
  <2>1. \A x, y, z \in Nat : x + y = z => (x + 1) + (y - 1) = z
    OBVIOUS
  <2>2. n \in Nat /\ Len(b) \in Nat /\ Len(R) \in Nat /\ n + Len(b) = Len(R)
    BY <1>1
  <2> QED
    BY <2>1, <2>2, Zenon
<1>7. Splits(a1, b1, R, V)
  BY <1>1, <1>2, <1>3, <1>4, <1>5, <1>6 DEF Splits
<1> QED
  BY <1>1, <1>3, <1>7 DEF a1, b1

\* What has been asked and what is left make up the route, which was fixed
\* when the task began and is the same as long as the task is there.
OnRoute ==
  /\ Splits(task.asked, task.chain, Route, Registered)
  /\ task.result = "running" => Len(task.chain) > 0
  /\ task.result = "failure" => Len(task.chain) = 0

\* No provider is asked where there is no capability.
Unrouted ==
  task.asked = <<>> /\ task.chain = <<>> /\ task.result # "running"

Working ==
  /\ task = [capability |-> task.capability, chain |-> task.chain,
             asked |-> task.asked, result |-> task.result]
  /\ IF task.capability = NoCapability THEN Unrouted ELSE OnRoute

\* Registered providers are providers.
LEMMA RegisteredKnown == Registered \in SUBSET DOMAIN Provider
BY DEF Registered

\* A task leaves the machine and its plugins alone.
LEMMA SameRegistry ==
  ASSUME UNCHANGED vars
  PROVE  installation' = installation /\ Registered' = Registered
BY DEF vars, record, Registered, Providing

\* Without a task there is nothing to ask.
LEMMA NoTaskWorking ==
  ASSUME task' = NoTask
  PROVE  Working'
BY DEF NoTask, Working, Unrouted

\* A task begins before the whole of its route.
LEMMA BeginTaskWorking ==
  ASSUME IInv, NEW w, NEW request, BeginTask(w, request)
  PROVE  Working'
<1> DEFINE c == ResolveCapability(Append(request, AIWorkers[w]))
           R == ResolveChain(installation.ai, Registered, c)
           chain == IF c = NoCapability THEN <<>> ELSE R
<1>1. /\ task' = [capability |-> c, chain |-> chain, asked |-> <<>>,
                  result |-> IF chain = <<>> THEN "failure" ELSE "running"]
      /\ installation' = installation /\ Registered' = Registered
  BY SameRegistry DEF BeginTask
<1>2. R \in Seq(Registered)
  <2>1. Resolved(R, Registered, c)
    BY RegisteredKnown, ChainResolved DEF IInv, Typed
  <2> HIDE DEF R
  <2> QED
    BY <2>1 DEF Resolved
<1>3. Route' = R
  BY <1>1 DEF Route
<1> HIDE DEF c, R
<1>4. CASE c = NoCapability
  BY <1>1, <1>4 DEF Working, Unrouted
<1>5. CASE c # NoCapability
  <2>1. chain = R
    BY <1>5
  <2> HIDE DEF chain
  <2>2. R = <<>> <=> Len(R) = 0
    BY <1>2
  <2>3. Splits(<<>>, R, R, Registered)
    BY <1>2 DEF Splits
  <2>4. OnRoute'
    BY <1>1, <1>3, <2>1, <2>2, <2>3 DEF OnRoute
  <2> QED
    BY <1>1, <1>5, <2>4 DEF Working
<1> QED
  BY <1>4, <1>5

\* A provider that is asked moves from what is left to what was asked.
LEMMA AskWorking ==
  ASSUME Working, NEW answer \in Answers, Ask(answer)
  PROVE  Working'
<1> DEFINE result == CASE answer = "content" -> "success"
                       [] answer = "empty"   -> "empty"
                       [] answer = "raises"  -> IF Len(task.chain) = 1
                                                  THEN "failure"
                                                  ELSE "running"
<1>1. /\ task.result = "running" /\ task.capability # NoCapability /\ OnRoute
  BY DEF Ask, Working, Unrouted
<1>2. /\ task'.capability = task.capability
      /\ task'.chain = Tail(task.chain)
      /\ task'.asked = Append(task.asked, Head(task.chain))
      /\ task'.result = result
      /\ task' = [capability |-> task'.capability, chain |-> task'.chain,
                  asked |-> task'.asked, result |-> task'.result]
  <2>1. task = [capability |-> task.capability, chain |-> task.chain,
                asked |-> task.asked, result |-> task.result]
    BY DEF Working
  <2>2. task' = [task EXCEPT !.chain = Tail(@),
                             !.asked = Append(@, Head(task.chain)),
                             !.result = result]
    BY DEF Ask
  <2> HIDE DEF result
  <2> QED
    BY <2>1, <2>2
<1>3. installation' = installation /\ Registered' = Registered
  BY SameRegistry DEF Ask
<1>4. Route' = Route
  BY <1>2, <1>3 DEF Route
<1>5. Splits(task.asked, task.chain, Route, Registered) /\ Len(task.chain) > 0
  BY <1>1 DEF OnRoute
<1>6. /\ Splits(task'.asked, task'.chain, Route, Registered)
      /\ Len(task'.chain) = Len(task.chain) - 1 /\ Len(task.chain) \in Nat
  BY <1>2, <1>5, SplitsFurther
<1>7. /\ task'.result = "running" => Len(task.chain) # 1
      /\ task'.result = "failure" => Len(task.chain) = 1
  BY <1>2 DEF Answers
<1>8. /\ task'.result = "running" => Len(task'.chain) > 0
      /\ task'.result = "failure" => Len(task'.chain) = 0
  <2>1. \A x \in Nat : x > 0 /\ x # 1 => x - 1 > 0
    OBVIOUS
  <2>2. \A x \in Nat : x = 1 => x - 1 = 0
    OBVIOUS
  <2> QED
    BY <1>5, <1>6, <1>7, <2>1, <2>2, Zenon
<1>9. OnRoute'
  BY <1>3, <1>4, <1>6, <1>8 DEF OnRoute
<1> QED
  BY <1>1, <1>2, <1>9 DEF Working

\* The platform moves between tasks only.
LEMMA RuntimeWorking ==
  ASSUME IInv, Working, [RuntimeNext]_rvars
  PROVE  Working'
<1>1. CASE Work
  BY <1>1, BeginTaskWorking, AskWorking DEF Work
<1>2. CASE Platform
  BY <1>2, NoTaskWorking DEF Platform
<1>3. CASE UNCHANGED rvars
  <2>1. task' = task /\ installation' = installation /\ Registered' = Registered
    BY <1>3, SameRegistry DEF rvars
  <2> QED
    BY <2>1 DEF Working, OnRoute, Unrouted, Route
<1> QED
  BY <1>1, <1>2, <1>3 DEF RuntimeNext

\* The platform is as it should be, and the task at work is on its route.
THEOREM RuntimeInductive == RuntimeSpec => [](IInv /\ Working)
<1>1. RuntimeInit => IInv /\ Working
  BY InitIInv DEF RuntimeInit, NoTask, Working, Unrouted
<1>2. IInv /\ Working /\ [RuntimeNext]_rvars => (IInv /\ Working)'
  BY StepRefines, NextKeeps, RuntimeWorking
<1> QED
  BY <1>1, <1>2, PTL DEF RuntimeSpec

\* Nothing is left of the route of a task that failed.
LEMMA RouteExhausted ==
  ASSUME IInv, Working
  PROVE  FallbackExhaustive
<1> DEFINE c == task.capability
           able == {q \in Registered : Supports(q, c)}
           asked == ToSet(task.asked)
           configured == ToSet(Configured(installation.ai, c))
<1>1. CASE c = NoCapability
  <2>1. task.asked = <<>>
    BY <1>1 DEF Working, Unrouted
  <2>2. Len(<<>>) = 0 /\ ToSet(<<>>) = {} /\ Cardinality({}) = 0
    BY FS_EmptySet DEF ToSet
  <2>3. asked = {} /\ Len(task.asked) = 0 /\ Cardinality(asked) = 0
    BY <2>1, <2>2
  <2> QED
    BY <1>1, <2>3 DEF FallbackExhaustive
<1>2. CASE c # NoCapability
  <2> DEFINE R == Route
             n == Len(task.asked)
  <2>1. Resolved(R, Registered, c)
    BY RegisteredKnown, ChainResolved DEF IInv, Typed, Route
  <2> HIDE DEF R
  <2>2. /\ task.asked \in Seq(Registered) /\ n \in Nat
        /\ n <= Len(R) /\ Len(R) \in Nat
        /\ \A i \in 1 .. n : i \in 1 .. Len(R) /\ task.asked[i] = R[i]
        /\ task.result = "failure" => n = Len(R)
    BY <1>2, <2>1 DEF Working, OnRoute, Splits, Resolved, R
  <2>3. asked = {R[i] : i \in 1 .. n}
    BY <2>2 DEF ToSet
  <2>4. /\ \A k \in 1 .. Len(R) : R[k] \in Registered /\ Supports(R[k], c)
        /\ \A k, l \in 1 .. Len(R) : R[k] = R[l] => k = l
        /\ \A q \in able : \E k \in 1 .. Len(R) : R[k] = q
        /\ \A k, l \in 1 .. Len(R) :
             k < l /\ R[l] \in configured => R[k] \in configured
    BY <2>1 DEF Resolved
  <2> HIDE DEF asked, configured
  <2>5. asked \subseteq able
    BY <2>2, <2>3, <2>4
  <2>6. task.result = "failure" => asked = able
    BY <2>2, <2>3, <2>4, <2>5
  <2> HIDE DEF able
  <2>7. Cardinality(asked) = n
    <3> DEFINE f == [i \in 1 .. n |-> R[i]]
    <3>1. f \in Surjection(1 .. n, asked)
      BY <2>3 DEF Surjection
    <3>2. f \in Injection(1 .. n, asked)
      BY <2>2, <2>3, <2>4 DEF Injection, IsInjective
    <3>3. n \in Nat
      BY <2>2
    <3> HIDE DEF f, n
    <3>4. IsFiniteSet(1 .. n) /\ Cardinality(1 .. n) = n
      BY <3>3, FS_Interval
    <3> QED
      BY <3>1, <3>2, <3>4, FS_Surjection
  <2>8. ASSUME asked \ configured # {}, NEW q \in able \cap configured
        PROVE  q \in asked
    <3>1. PICK i \in 1 .. n : R[i] \notin configured
      BY <2>3, <2>8
    <3>2. PICK j \in 1 .. Len(R) : R[j] = q
      BY <2>4, <2>8
    <3>3. ~(i < j)
      BY <2>2, <2>4, <2>8, <3>1, <3>2
    <3>4. j \in 1 .. n
      BY <2>2, <3>1, <3>2, <3>3
    <3> QED
      BY <2>3, <3>2, <3>4
  <2> QED
    BY <2>5, <2>6, <2>7, <2>8 DEF FallbackExhaustive, able, asked, configured
<1> QED
  BY <1>1, <1>2

\* A provider nothing is to be remarked on is the first to be asked.
LEMMA RouteValidated ==
  ASSUME IInv
  PROVE  ValidatedRoutesUsed
<1> DEFINE ai == installation.ai
           remarks == ValidatePlatform(ai, Registered)
<1>1. SUFFICES ASSUME NEW c \in DOMAIN ai.routing,
                      NothingRegistered \notin remarks, [entry |-> c] \notin remarks,
                      ai.routing[c].preferred # NoProvider
               PROVE  Head(ResolveChain(ai, Registered, c)) = ai.routing[c].preferred
  BY Zenon DEF ValidatedRoutesUsed
<1> DEFINE a == Configured(ai, c)
           R == ResolveChain(ai, Registered, c)
<1>2. Resolved(R, Registered, c)
  BY RegisteredKnown, ChainResolved DEF IInv, Typed
<1>3. a \in Seq(ToSet(a)) /\ a # <<>> /\ a[1] = ai.routing[c].preferred
  BY <1>1, ConfiguredSeq DEF IInv, Typed
<1>4. a[1] \in ToSet(a)
  <2> HIDE DEF a
  <2> QED
    BY <1>3 DEF ToSet
<1>5. a[1] \in Registered /\ Supports(a[1], c)
  BY <1>1, <1>4 DEF ValidatePlatform, NothingRegistered
<1>6. R \in Seq(Registered) /\ Len(R) > 0 /\ R[1] = a[1]
  BY <1>2, <1>3, <1>5 DEF Resolved
<1> HIDE DEF R
<1>7. Head(R) = R[1]
  BY <1>6
<1> QED
  BY <1>3, <1>6, <1>7 DEF R

(***************************************************************************)
(* A task with a capability that fails has asked every provider that has   *)
(* it, whatever the providers, their priorities and the routes             *)
(* (_generate_with_fallback).                                              *)
(***************************************************************************)
THEOREM FallbackAsksAll == RuntimeSpec => []FallbackExhaustive
<1>1. IInv /\ Working => FallbackExhaustive
  BY RouteExhausted
<1> QED
  BY <1>1, RuntimeInductive, PTL

(***************************************************************************)
(* A capability that passes validation is served by the provider preferred *)
(* for it first, as long as that provider is there (resolve_chain).        *)
(***************************************************************************)
THEOREM ValidatedFirst == RuntimeSpec => []ValidatedRoutesUsed
<1>1. IInv /\ Working => ValidatedRoutesUsed
  BY RouteValidated
<1> QED
  BY <1>1, RuntimeInductive, PTL

\* Turning plugins on and off keeps to the plugin also while tasks are at work.
THEOREM RuntimeTogglesScoped == RuntimeSpec => ToggleScoped
<1>1. Init => FilesTyped
  BY ActivationsAssumption DEF Init, FilesTyped
<1>2. FilesTyped /\ [Next]_vars => FilesTyped'
  BY FilesKept
<1>3. FilesTyped
        => [\A p \in Toggled, useGlobal \in BOOLEAN : Scoped(p, useGlobal)]_vars
  BY ToggleScopes
<1> QED
  BY <1>1, <1>2, <1>3, RuntimeImplementsPlatform, PTL DEF ToggleScoped

=============================================================================
