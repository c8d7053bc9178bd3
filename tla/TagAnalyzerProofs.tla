--------------------------- MODULE TagAnalyzerProofs ---------------------------
(***************************************************************************)
(* What the tag analyzer finds in any answer to any operation: every key   *)
(* that is shown, a hole whenever there is one, and no key that is shared  *)
(* by answers without an object in common.  The paths along which it       *)
(* searches are compared with the selection by induction over the fields,  *)
(* in the order in which the walker visits them.                           *)
(***************************************************************************)
EXTENDS TagAnalyzer, FiniteSetTheorems, NaturalsInduction, WellFoundedInduction, TLAPS

-----------------------------------------------------------------------------
\* Induction over the naturals.
LEMMA FromZero ==
    ASSUME NEW T \in SUBSET Nat, 0 \in T, \A n \in T : n + 1 \in T
    PROVE  T = Nat
  <1> DEFINE D == Nat \ T
  <1> SUFFICES ASSUME D # {}
               PROVE  FALSE
    OBVIOUS
  <1>1. D \in SUBSET Nat
    OBVIOUS
  <1> HIDE DEF D
  <1>2. PICK x \in D : \A y \in D : ~(<<y, x>> \in OpToRel(<, Nat))
    BY <1>1, NatLessThanWellFounded, WFMin
  <1>3. \A y \in D : ~(y < x)
    BY <1>1, <1>2 DEF OpToRel
  <1>4. x \in Nat /\ x \notin T /\ x # 0
    BY <1>1 DEF D
  <1>5. x - 1 \in Nat /\ x - 1 < x /\ (x - 1) + 1 = x
    BY <1>4
  <1> QED
    BY <1>3, <1>4, <1>5 DEF D

\* The function of Reached exists: it can be prolonged by one step.
ReachedBy(f, path, a, m) ==
    f = [n \in 0..m |-> IF n = 0 THEN Spread(a) ELSE Below(f[n - 1], path[n])]

LEMMA ReachedExists ==
    ASSUME NEW path, NEW a, NEW m \in Nat
    PROVE  \E f : ReachedBy(f, path, a, m)
  <1> DEFINE T == {k \in Nat : \E f : ReachedBy(f, path, a, k)}
  <1>1. 0 \in T
    <2>1. ReachedBy([n \in 0..0 |-> Spread(a)], path, a, 0)
      BY DEF ReachedBy
    <2> QED
      BY <2>1
  <1>2. ASSUME NEW k \in T
        PROVE  k + 1 \in T
    <2>1. PICK f : ReachedBy(f, path, a, k)
      OBVIOUS
    <2> DEFINE g == [n \in 0..(k + 1) |-> IF n = k + 1 THEN Below(f[k], path[n]) ELSE f[n]]
    <2>2. ASSUME NEW n \in 0..(k + 1)
          PROVE  g[n] = IF n = 0 THEN Spread(a) ELSE Below(g[n - 1], path[n])
      <3>1. CASE n = k + 1
        <4>1. n # 0 /\ n - 1 = k /\ k \in 0..(k + 1) /\ k # k + 1
          BY <3>1
        <4>2. g[n - 1] = f[k]
          BY <4>1
        <4> QED
          BY <3>1, <4>1, <4>2
      <3>2. CASE n # k + 1
        <4>1. n \in 0..k /\ n - 1 # k + 1 /\ (n # 0 => n - 1 \in 0..(k + 1))
          BY <3>2
        <4>2. f[n] = IF n = 0 THEN Spread(a) ELSE Below(f[n - 1], path[n])
          BY <2>1, <4>1 DEF ReachedBy
        <4> QED
          BY <3>2, <4>1, <4>2
      <3> QED
        BY <3>1, <3>2
    <2>3. ReachedBy(g, path, a, k + 1)
      <3>1. g = [n \in 0..(k + 1) |-> g[n]]
        OBVIOUS
      <3> HIDE DEF g
      <3> QED
        BY <2>2, <3>1 DEF ReachedBy
    <2>4. k + 1 \in Nat
      OBVIOUS
    <2> HIDE DEF g
    <2> QED
      BY <2>3, <2>4
  <1>3. T = Nat
    <2> HIDE DEF T
    <2> QED
      BY <1>1, <1>2, FromZero DEF T
  <1> QED
    BY <1>3

LEMMA ReachedIs ==
    ASSUME NEW S, NEW path \in Seq(S), path # <<>>, NEW a
    PROVE  \E f : ReachedBy(f, path, a, Len(path) - 1) /\ Reached(path, a) = f[Len(path) - 1]
  <1>1. Len(path) - 1 \in Nat
    OBVIOUS
  <1>2. \E f : ReachedBy(f, path, a, Len(path) - 1)
    BY <1>1, ReachedExists
  <1> QED
    BY <1>2, Zenon DEF Reached, ReachedBy

\* Two paths that begin alike reach the same on their common steps.
LEMMA SameReached ==
    ASSUME NEW path, NEW longer, NEW a, NEW f, NEW g, NEW m \in Nat,
           \A n \in 1..m : path[n] = longer[n],
           ReachedBy(f, path, a, m), ReachedBy(g, longer, a, m + 1)
    PROVE  f[m] = g[m]
  <1> DEFINE T == {n \in Nat : n <= m => f[n] = g[n]}
  <1>1. 0 \in T
    BY DEF ReachedBy
  <1>2. ASSUME NEW n \in T
        PROVE  n + 1 \in T
    <2> SUFFICES ASSUME n + 1 <= m
                 PROVE  f[n + 1] = g[n + 1]
      OBVIOUS
    <2>1. n + 1 \in 0..m /\ n + 1 \in 0..(m + 1) /\ n + 1 # 0 /\ (n + 1) - 1 = n /\ n + 1 \in 1..m
      OBVIOUS
    <2>2. f[n] = g[n]
      OBVIOUS
    <2>3. f[n + 1] = Below(f[n], path[n + 1])
      BY <2>1 DEF ReachedBy
    <2>4. g[n + 1] = Below(g[n], longer[n + 1])
      BY <2>1 DEF ReachedBy
    <2> QED
      BY <2>1, <2>2, <2>3, <2>4
  <1>3. T = Nat
    <2> HIDE DEF T
    <2> QED
      BY <1>1, <1>2, FromZero DEF T
  <1> QED
    BY <1>3

\* A path of one alias starts at the answer's root, and a longer one goes on
\* where the path without its last alias ends.
LEMMA ReachedFirst ==
    ASSUME NEW S, NEW name \in S, NEW a
    PROVE  Reached(<<name>>, a) = Spread(a)
  <1>1. <<name>> \in Seq(S) /\ <<name>> # <<>> /\ Len(<<name>>) - 1 = 0
    OBVIOUS
  <1>2. PICK f : ReachedBy(f, <<name>>, a, 0) /\ Reached(<<name>>, a) = f[0]
    BY <1>1, ReachedIs
  <1> QED
    BY <1>2 DEF ReachedBy

LEMMA ReachedNext ==
    ASSUME NEW S, NEW path \in Seq(S), path # <<>>, NEW name \in S, NEW a
    PROVE  Reached(Append(path, name), a) = Below(Reached(path, a), Last(path))
  <1> DEFINE longer == Append(path, name)
             m == Len(path) - 1
  <1>1. /\ longer \in Seq(S) /\ longer # <<>> /\ Len(longer) - 1 = m + 1
        /\ m \in Nat /\ \A n \in 1..(m + 1) : path[n] = longer[n]
    OBVIOUS
  <1>2. Last(path) = longer[m + 1]
    BY <1>1 DEF Last
  <1> HIDE DEF longer
  <1>3. PICK f : ReachedBy(f, path, a, m) /\ Reached(path, a) = f[m]
    BY ReachedIs
  <1>4. PICK g : ReachedBy(g, longer, a, m + 1) /\ Reached(longer, a) = g[m + 1]
    BY <1>1, ReachedIs
  <1> HIDE DEF m
  <1>5. f[m] = g[m]
    <2>1. m \in Nat /\ \A n \in 1..m : path[n] = longer[n]
      BY <1>1
    <2>2. ReachedBy(f, path, a, m) /\ ReachedBy(g, longer, a, m + 1)
      BY <1>3, <1>4
    <2> QED
      BY <2>1, <2>2, SameReached
  <1>6. g[m + 1] = Below(g[m], longer[m + 1])
    <2>1. m + 1 \in 0..(m + 1) /\ m + 1 # 0 /\ (m + 1) - 1 = m
      BY <1>1
    <2> QED
      BY <1>4, <2>1 DEF ReachedBy
  <1> QED
    BY <1>2, <1>3, <1>4, <1>5, <1>6 DEF longer

-----------------------------------------------------------------------------
\* What the walker says of field i of d.
LEMMA FieldTyped ==
    ASSUME NEW d \in Docs, NEW i \in DOMAIN Fields[d]
    PROVE  /\ i \in Nat /\ i # 0 /\ i <= Len(Fields[d]) /\ Len(Fields[d]) \in Nat
           /\ DOMAIN Fields[d] = 1..Len(Fields[d])
           /\ Fields[d][i] \in ToSet(Fields[d])
           /\ Fields[d][i].parent \in Nat /\ Fields[d][i].parent < i
           /\ Fields[d][i].parent # 0 => Fields[d][i].parent \in DOMAIN Fields[d]
           /\ Fields[d][i].path \in Seq(STRING) /\ Fields[d][i].path # <<>>
           /\ Alias(Fields[d][i]) \in STRING
           /\ Fields[d][i].path = Append(PathOf(d, Fields[d][i].parent), Alias(Fields[d][i]))
  <1> DEFINE F == Fields[d]
             Refs == [on : STRING, name : STRING, path : Seq(STRING), parent : Nat]
  <1>1. F \in Seq(Refs)
    BY WalkerAssumption
  <1>2. F[i].parent < i /\ F[i].path = Append(PathOf(d, F[i].parent), Alias(F[i]))
    BY WalkerAssumption
  <1>3. DOMAIN F = 1..Len(F) /\ Len(F) \in Nat
    BY <1>1
  <1>4. \A j \in DOMAIN F : F[j] \in Refs
    <2> HIDE DEF F, Refs
    <2> QED
      BY <1>1
  <1>5. i \in Nat /\ i # 0 /\ i <= Len(F)
    BY <1>3
  <1>6. F[i].parent \in Nat /\ F[i].path \in Seq(STRING)
    BY <1>4
  <1>7. F[i].parent # 0 => F[i].parent \in DOMAIN F
    BY <1>2, <1>3, <1>5, <1>6
  <1>8. PathOf(d, F[i].parent) \in Seq(STRING)
    <2>1. CASE F[i].parent = 0
      BY <2>1 DEF PathOf
    <2>2. CASE F[i].parent # 0
      <3>1. F[F[i].parent].path \in Seq(STRING)
        BY <1>4, <1>7, <2>2
      <3> QED
        BY <2>2, <3>1 DEF PathOf
    <2> QED
      BY <2>1, <2>2
  <1>9. F[i].path # <<>>
    <2> DEFINE before == PathOf(d, F[i].parent)
               name == Alias(F[i])
               S == STRING \cup {name}
    <2>1. before \in Seq(STRING) /\ F[i].path = Append(before, name)
      BY <1>2, <1>8
    <2>2. before \in Seq(S) /\ name \in S
      BY <2>1
    <2> HIDE DEF before, name, S
    <2> QED
      BY <2>1, <2>2
  <1>10. Alias(F[i]) \in STRING
    <2> DEFINE path == F[i].path
    <2>1. path \in Seq(STRING) /\ path # <<>>
      BY <1>6, <1>9
    <2>2. Alias(F[i]) = path[Len(path)]
      BY DEF Alias, Last
    <2> HIDE DEF path
    <2> QED
      BY <2>1, <2>2
  <1>11. F[i] \in ToSet(F)
    BY DEF ToSet
  <1> QED
    BY <1>2, <1>3, <1>5, <1>6, <1>7, <1>9, <1>10, <1>11

\* The function of Met exists: a field is visited after its parent.
MetBy(m, d, a, k) ==
    m = [p \in 0..k |-> IF p = 0 THEN Spread(a)
                        ELSE Below({x \in m[Fields[d][p].parent] : Chosen(Fields[d][p], x)}, Alias(Fields[d][p]))]

LEMMA MetExists ==
    ASSUME NEW d \in Docs, NEW a, NEW k \in Nat, k <= Len(Fields[d])
    PROVE  \E m : MetBy(m, d, a, k)
  <1> DEFINE F == Fields[d]
             In(m, p) == Below({x \in m[F[p].parent] : Chosen(F[p], x)}, Alias(F[p]))
             T == {n \in Nat : n <= Len(F) => \E m : MetBy(m, d, a, n)}
  <1>1. 0 \in T
    <2>1. MetBy([p \in 0..0 |-> Spread(a)], d, a, 0)
      BY DEF MetBy
    <2> QED
      BY <2>1
  <1>2. ASSUME NEW n \in T
        PROVE  n + 1 \in T
    <2> SUFFICES ASSUME n + 1 <= Len(F)
                 PROVE  \E m : MetBy(m, d, a, n + 1)
      OBVIOUS
    <2>1. \A p \in 1..(n + 1) : p \in DOMAIN F
      BY WalkerAssumption
    <2>2. n \in Nat /\ n <= Len(F)
      BY WalkerAssumption
    <2>3. PICK m : MetBy(m, d, a, n)
      BY <2>2
    <2> DEFINE g == [p \in 0..(n + 1) |-> IF p = n + 1 THEN In(m, p) ELSE m[p]]
    <2>4. ASSUME NEW p \in 1..(n + 1)
          PROVE  F[p].parent \in 0..n
      <3>1. F[p].parent \in Nat /\ F[p].parent < p
        BY <2>1, FieldTyped
      <3> QED
        BY <2>2, <3>1
    <2>5. ASSUME NEW p \in 0..n
          PROVE  g[p] = m[p]
      BY <2>2
    <2>6. ASSUME NEW p \in 0..(n + 1)
          PROVE  g[p] = IF p = 0 THEN Spread(a) ELSE In(g, p)
      <3> HIDE DEF In, g
      <3>1. CASE p = 0
        <4>1. 0 \in 0..n
          BY <2>2
        <4>2. m[0] = Spread(a)
          BY <2>3, <4>1 DEF MetBy
        <4> QED
          BY <2>5, <3>1, <4>1, <4>2
      <3>2. CASE p # 0
        <4>1. p \in 1..(n + 1) /\ F[p].parent \in 0..n
          BY <2>2, <2>4, <3>2
        <4>2. In(g, p) = In(m, p)
          BY <2>5, <4>1 DEF In
        <4>3. g[p] = In(m, p)
          <5>1. CASE p = n + 1
            BY <5>1 DEF g
          <5>2. CASE p # n + 1
            <6>1. p \in 0..n
              BY <2>2, <5>2
            <6>2. m[p] = In(m, p)
              BY <2>3, <3>2, <6>1 DEF MetBy, In
            <6> QED
              BY <2>5, <6>1, <6>2
          <5> QED
            BY <5>1, <5>2
        <4> QED
          BY <3>2, <4>2, <4>3
      <3> QED
        BY <3>1, <3>2
    <2>7. MetBy(g, d, a, n + 1)
      <3>1. g = [p \in 0..(n + 1) |-> g[p]]
        OBVIOUS
      <3> HIDE DEF g
      <3> QED
        BY <2>6, <3>1 DEF MetBy
    <2> HIDE DEF g
    <2> QED
      BY <2>7
  <1>3. T = Nat
    <2> HIDE DEF T
    <2> QED
      BY <1>1, <1>2, FromZero DEF T
  <1> QED
    BY <1>3

LEMMA MetIs ==
    ASSUME NEW d \in Docs, NEW a
    PROVE  /\ Met(d, a)[0] = Spread(a)
           /\ \A p \in DOMAIN Fields[d] :
                 Met(d, a)[p] = Below({x \in On(d, a, Fields[d][p]) : Chosen(Fields[d][p], x)}, Alias(Fields[d][p]))
  <1> DEFINE k == Len(Fields[d])
  <1>1. k \in Nat /\ DOMAIN Fields[d] = 1..k
    BY WalkerAssumption
  <1>2. \E m : MetBy(m, d, a, k)
    <2>1. k <= Len(Fields[d])
      BY <1>1
    <2> HIDE DEF k
    <2> QED
      BY <1>1, <2>1, MetExists
  <1>3. MetBy(Met(d, a), d, a, k)
    BY <1>2, Zenon DEF Met, MetBy
  <1> HIDE DEF k
  <1>4. 0 \in 0..k /\ \A p \in DOMAIN Fields[d] : p \in 0..k /\ p # 0
    BY <1>1
  <1>5. Met(d, a)[0] = Spread(a)
    BY <1>3, <1>4 DEF MetBy
  <1>6. ASSUME NEW p \in DOMAIN Fields[d]
        PROVE  Met(d, a)[p] = Below({x \in On(d, a, Fields[d][p]) : Chosen(Fields[d][p], x)}, Alias(Fields[d][p]))
    BY <1>3, <1>4 DEF MetBy, On
  <1> QED
    BY <1>5, <1>6

-----------------------------------------------------------------------------
\* One step further along a path, and along the selection.
LEMMA PathGoesOn ==
    ASSUME NEW d \in Docs, NEW i \in DOMAIN Fields[d], NEW a
    PROVE  LET f == Fields[d][i]
               g == Fields[d][f.parent]
           IN  /\ f.parent = 0 => Reached(f.path, a) = Spread(a) /\ On(d, a, f) = Spread(a)
               /\ f.parent # 0 => /\ Reached(f.path, a) = Below(Reached(g.path, a), Alias(g))
                                  /\ On(d, a, f) = Below({x \in On(d, a, g) : Chosen(g, x)}, Alias(g))
  <1> DEFINE f == Fields[d][i]
             g == Fields[d][f.parent]
  <1>1. f.path = Append(PathOf(d, f.parent), Alias(f)) /\ Alias(f) \in STRING
    BY FieldTyped
  <1>2. ASSUME f.parent = 0
        PROVE  Reached(f.path, a) = Spread(a) /\ On(d, a, f) = Spread(a)
    <2>1. f.path = <<Alias(f)>>
      BY <1>1, <1>2 DEF PathOf
    <2>2. Reached(<<Alias(f)>>, a) = Spread(a)
      BY <1>1, ReachedFirst
    <2>3. Met(d, a)[0] = Spread(a)
      BY MetIs
    <2> QED
      BY <1>2, <2>1, <2>2, <2>3 DEF On
  <1>3. ASSUME f.parent # 0
        PROVE  /\ Reached(f.path, a) = Below(Reached(g.path, a), Alias(g))
               /\ On(d, a, f) = Below({x \in On(d, a, g) : Chosen(g, x)}, Alias(g))
    <2>1. f.parent \in DOMAIN Fields[d]
      BY <1>3, FieldTyped
    <2>2. g.path \in Seq(STRING) /\ g.path # <<>>
      BY <2>1, FieldTyped
    <2>3. f.path = Append(g.path, Alias(f)) /\ Last(g.path) = Alias(g)
      BY <1>1, <1>3 DEF PathOf, Alias
    <2>4. Reached(Append(g.path, Alias(f)), a) = Below(Reached(g.path, a), Last(g.path))
      BY <1>1, <2>2, ReachedNext
    <2>5. Met(d, a)[f.parent] = Below({x \in On(d, a, g) : Chosen(g, x)}, Alias(g))
      BY <2>1, MetIs
    <2> QED
      BY <2>3, <2>4, <2>5 DEF On
  <1> QED
    BY <1>2, <1>3

LEMMA BelowMore ==
    ASSUME NEW A, NEW B, NEW name, A \subseteq B
    PROVE  Below(A, name) \subseteq Below(B, name)
  BY DEF Below

\* Along its path the analyzer reaches whatever a field is selected on.
LEMMA OnIsReached ==
    ASSUME NEW d \in Docs, NEW a, NEW j \in DOMAIN Fields[d]
    PROVE  On(d, a, Fields[d][j]) \subseteq Reached(Fields[d][j].path, a)
  <1> DEFINE F == Fields[d]
             Good(i) == On(d, a, F[i]) \subseteq Reached(F[i].path, a)
             T == {n \in Nat : \A i \in DOMAIN F : i <= n => Good(i)}
  <1>1. \A i \in DOMAIN F : i \in Nat /\ i # 0
    BY FieldTyped
  <1>2. 0 \in T
    <2>1. \A i \in DOMAIN F : ~(i <= 0)
      BY <1>1
    <2> HIDE DEF Good
    <2> QED
      BY <2>1
  <1>3. ASSUME NEW n \in T
        PROVE  n + 1 \in T
    <2> SUFFICES ASSUME NEW i \in DOMAIN F, i <= n + 1
                 PROVE  Good(i)
      <3> HIDE DEF Good
      <3> QED
        OBVIOUS
    <2> DEFINE g == F[F[i].parent]
    <2>1. CASE F[i].parent = 0
      <3>1. Reached(F[i].path, a) = Spread(a) /\ On(d, a, F[i]) = Spread(a)
        BY <2>1, PathGoesOn, Zenon
      <3> QED
        BY <3>1
    <2>2. CASE F[i].parent # 0
      <3>1. F[i].parent \in DOMAIN F /\ F[i].parent <= n
        BY <1>1, <2>2, FieldTyped
      <3>2. Good(F[i].parent)
        <4> HIDE DEF Good
        <4> QED
          BY <3>1
      <3>3. {x \in On(d, a, g) : Chosen(g, x)} \subseteq Reached(g.path, a)
        BY <3>2
      <3>4. Below({x \in On(d, a, g) : Chosen(g, x)}, Alias(g)) \subseteq Below(Reached(g.path, a), Alias(g))
        <4> DEFINE chosen == {x \in On(d, a, g) : Chosen(g, x)}
        <4> HIDE DEF chosen
        <4> QED
          BY <3>3, BelowMore DEF chosen
      <3>5. /\ Reached(F[i].path, a) = Below(Reached(g.path, a), Alias(g))
            /\ On(d, a, F[i]) = Below({x \in On(d, a, g) : Chosen(g, x)}, Alias(g))
        BY <2>2, PathGoesOn, Zenon
      <3> QED
        BY <3>4, <3>5, Zenon
    <2> QED
      BY <2>1, <2>2
  <1>4. T = Nat
    <2> HIDE DEF T
    <2> QED
      BY <1>2, <1>3, FromZero DEF T
  <1>5. j \in T /\ j <= j
    BY <1>1, <1>4
  <1> HIDE DEF Good
  <1>6. Good(j)
    BY <1>5
  <1> QED
    BY <1>6 DEF Good

\* What an object has under the alias of a field was selected on its type.
LEMMA ChosenHere ==
    ASSUME NEW d \in Docs, NEW a \in Answers[d], OnePathOneType(d), NEW i \in DOMAIN Fields[d],
           NEW x \in On(d, a, Fields[d][i]), Has(x, Alias(Fields[d][i]))
    PROVE  Chosen(Fields[d][i], x)
  <1> DEFINE f == Fields[d][i]
  <1>1. f \in ToSet(Fields[d]) /\ f.path = Append(PathOf(d, f.parent), Alias(f))
    BY FieldTyped
  <1>2. PICK g \in ToSet(Fields[d]) : g.parent = f.parent /\ Alias(g) = Alias(f) /\ Chosen(g, x)
    BY <1>1, UpstreamAssumption DEF Has
  <1>3. PICK k \in DOMAIN Fields[d] : g = Fields[d][k]
    BY <1>2 DEF ToSet
  <1>4. g.path = Append(PathOf(d, g.parent), Alias(g))
    BY <1>3, FieldTyped
  <1>5. g.path = f.path
    BY <1>1, <1>2, <1>4
  <1>6. g.on = f.on
    BY <1>1, <1>2, <1>5 DEF OnePathOneType
  <1> QED
    BY <1>2, <1>6 DEF Chosen, Selects

\* It reaches nothing else, if no path leads to several types: the answer has
\* under an alias what was selected on the object's type, so that another field
\* of the path that was selected there is of the same type as the field.
LEMMA ReachedIsOn ==
    ASSUME NEW d \in Docs, NEW a \in Answers[d], OnePathOneType(d), NEW j \in DOMAIN Fields[d]
    PROVE  Reached(Fields[d][j].path, a) \subseteq On(d, a, Fields[d][j])
  <1> DEFINE F == Fields[d]
             Good(i) == Reached(F[i].path, a) \subseteq On(d, a, F[i])
             T == {n \in Nat : \A i \in DOMAIN F : i <= n => Good(i)}
  <1>1. \A i \in DOMAIN F : i \in Nat /\ i # 0
    BY FieldTyped
  <1>2. 0 \in T
    <2>1. \A i \in DOMAIN F : ~(i <= 0)
      BY <1>1
    <2> HIDE DEF Good
    <2> QED
      BY <2>1
  <1>3. ASSUME NEW n \in T
        PROVE  n + 1 \in T
    <2> SUFFICES ASSUME NEW i \in DOMAIN F, i <= n + 1
                 PROVE  Good(i)
      <3> HIDE DEF Good
      <3> QED
        OBVIOUS
    <2> DEFINE g == F[F[i].parent]
    <2>1. CASE F[i].parent = 0
      <3>1. Reached(F[i].path, a) = Spread(a) /\ On(d, a, F[i]) = Spread(a)
        BY <2>1, PathGoesOn, Zenon
      <3> QED
        BY <3>1
    <2>2. CASE F[i].parent # 0
      <3>1. F[i].parent \in DOMAIN F /\ F[i].parent <= n
        BY <1>1, <2>2, FieldTyped
      <3>2. Good(F[i].parent)
        <4> HIDE DEF Good
        <4> QED
          BY <3>1
      <3>3. ASSUME NEW x \in Reached(g.path, a), Has(x, Alias(g))
            PROVE  x \in On(d, a, g) /\ Chosen(g, x)
        BY <3>1, <3>2, <3>3, ChosenHere
      <3>4. Below(Reached(g.path, a), Alias(g)) \subseteq Below({x \in On(d, a, g) : Chosen(g, x)}, Alias(g))
        BY <3>3 DEF Below
      <3>5. /\ Reached(F[i].path, a) = Below(Reached(g.path, a), Alias(g))
            /\ On(d, a, F[i]) = Below({x \in On(d, a, g) : Chosen(g, x)}, Alias(g))
        BY <2>2, PathGoesOn, Zenon
      <3> QED
        BY <3>4, <3>5, Zenon
    <2> QED
      BY <2>1, <2>2
  <1>4. T = Nat
    <2> HIDE DEF T
    <2> QED
      BY <1>2, <1>3, FromZero DEF T
  <1>5. j \in T /\ j <= j
    BY <1>1, <1>4
  <1> HIDE DEF Good
  <1>6. Good(j)
    BY <1>5
  <1> QED
    BY <1>6 DEF Good

-----------------------------------------------------------------------------
\* The tags of the first n fields of d in a, as far as the types cover them, and
\* whether all keys among them are texts.
Visited(d, types, n) == {f \in ToSet(Fields[d]) : CoveredBy(types, f.on)
                           /\ \E i \in DOMAIN Fields[d] : f = Fields[d][i] /\ i <= n}

TagsUpTo(d, a, types, n) == UNION {TagsFor(f, a) : f \in Visited(d, types, n)}

HasHole(f, a) == \E v \in KeyValues(f, a) : ~IsKey(v)

\* What is known of the analysis at hand.
AtHand ==
    /\ stage \in {"idle", "walk", "found", "failed"}
    /\ stage = "idle" => doc = NoDoc /\ only = EveryType /\ next = 1 /\ tags = {}
    /\ stage # "idle" =>
          /\ doc \in Docs /\ answer \in Answers[doc]
          /\ only \in RuleTypes \cup {EveryType}
          /\ Operation[doc] = "mutation" => only = EveryType
          /\ next \in Nat \ {0}
          /\ tags \ {SchemaTag, OperationTag(doc)} \subseteq TagsUpTo(doc, answer, only, next - 1)
    /\ stage \in {"walk", "found"} =>
          /\ TagsUpTo(doc, answer, only, next - 1) \subseteq tags
          /\ \A f \in Visited(doc, only, next - 1) : ~HasHole(f, answer)
    /\ stage = "found" => next > Len(Fields[doc]) /\ SchemaTag \in tags
    /\ stage = "failed" /\ HasData(answer) =>
          \E f \in ToSet(Fields[doc]) : CoveredBy(only, f.on) /\ HasHole(f, answer)

\* A stored result has the tags of all its fields that its rules cover, besides
\* its schema's and its operation's.
StoredTagged ==
    \A r \in stored :
        /\ r.doc \in Docs /\ Operation[r.doc] = "query" /\ SchemaTag \in r.tags
        /\ r.answer \in Answers[r.doc]
        /\ TagsUpTo(r.doc, r.answer, r.only, Len(Fields[r.doc])) \subseteq r.tags
        /\ r.tags \ {SchemaTag, OperationTag(r.doc)} \subseteq
              TagsUpTo(r.doc, r.answer, r.only, Len(Fields[r.doc]))

StoredFew == IsFiniteSet(stored) /\ Cardinality(stored) <= MaxStored

Inv == AtHand /\ StoredTagged /\ StoredFew

-----------------------------------------------------------------------------
LEMMA NothingVisited ==
    ASSUME NEW d \in Docs, NEW types
    PROVE  Visited(d, types, 0) = {}
  <1>1. \A i \in DOMAIN Fields[d] : i \in Nat /\ ~(i <= 0)
    BY FieldTyped
  <1> QED
    BY <1>1 DEF Visited

LEMMA VisitedNext ==
    ASSUME NEW d \in Docs, NEW types, NEW n \in DOMAIN Fields[d]
    PROVE  /\ CoveredBy(types, Fields[d][n].on) =>
                 Visited(d, types, n) = Visited(d, types, n - 1) \cup {Fields[d][n]}
           /\ ~CoveredBy(types, Fields[d][n].on) => Visited(d, types, n) = Visited(d, types, n - 1)
  <1>1. \A i \in DOMAIN Fields[d] : i \in Nat /\ Fields[d][i] \in ToSet(Fields[d])
    BY FieldTyped
  <1>2. \A i \in DOMAIN Fields[d] : i <= n <=> i = n \/ i <= n - 1
    BY <1>1
  <1> QED
    BY <1>1, <1>2 DEF Visited

LEMMA AllVisited ==
    ASSUME NEW d \in Docs, NEW types, NEW n \in Nat, n >= Len(Fields[d])
    PROVE  Visited(d, types, n) = {f \in ToSet(Fields[d]) : CoveredBy(types, f.on)}
  <1>1. \A i \in DOMAIN Fields[d] : i <= n
    <2>1. \A i \in DOMAIN Fields[d] : i \in Nat /\ i <= Len(Fields[d]) /\ Len(Fields[d]) \in Nat
      BY FieldTyped
    <2> QED
      BY <2>1
  <1>2. \A f \in ToSet(Fields[d]) : \E i \in DOMAIN Fields[d] : f = Fields[d][i]
    BY DEF ToSet
  <1> QED
    BY <1>1, <1>2 DEF Visited

\* Every tag has a prefix; only those of keys have that of keys.
LEMMA TagPrefixes ==
    ASSUME NEW f, NEW a, NEW t \in TagsFor(f, a)
    PROVE  /\ t[1] \in {"type", "field", "key"}
           /\ t[1] = "key" => \E v \in KeyValues(f, a) : IsKey(v) /\ t = KeyTag(f.on, Alias(f), KeyText(v))
           /\ t # SchemaTag /\ \A d : t # OperationTag(d)
  <1>1. CASE t = TypeTag(f.on) \/ t = FieldTag(f.on, f.name)
    BY <1>1 DEF TypeTag, FieldTag, SchemaTag, OperationTag
  <1>2. CASE \E v \in KeyValues(f, a) : IsKey(v) /\ t = KeyTag(f.on, Alias(f), KeyText(v))
    BY <1>2 DEF KeyTag, SchemaTag, OperationTag
  <1> QED
    BY <1>1, <1>2 DEF TagsFor

\* A key that a covered field shows plainly is among the tags.
LEMMA ShownIsTagged ==
    ASSUME NEW d \in Docs, NEW a, NEW types, NEW s \in Shown(d, a, TRUE), CoveredBy(types, s.type),
           NEW n \in Nat, n >= Len(Fields[d])
    PROVE  KeyTag(s.type, s.key, KeyText(s.val)) \in TagsUpTo(d, a, types, n)
  <1>1. PICK f \in ToSet(Fields[d]) : \E x \in {y \in On(d, a, f) : ShowsKey(f, y, TRUE)} :
          s = [type |-> x.type, key |-> f.name, val |-> x.val[Alias(f)]]
    BY Zenon DEF Shown
  <1>2. PICK x \in On(d, a, f) : /\ ShowsKey(f, x, TRUE)
          /\ s = [type |-> x.type, key |-> f.name, val |-> x.val[Alias(f)]]
    BY <1>1
  <1> DEFINE v == x.val[Alias(f)]
  <1>3. /\ Has(x, Alias(f)) /\ f.name \in KeysOf(f.on) /\ IsKey(v)
        /\ f.on = x.type /\ Alias(f) = f.name
    BY <1>2 DEF ShowsKey, Chosen
  <1>4. /\ s.type = f.on /\ s.key = Alias(f) /\ s.val = v
    BY <1>2, <1>3
  <1>5. x \in Reached(f.path, a)
    <2>1. PICK j \in DOMAIN Fields[d] : f = Fields[d][j]
      BY DEF ToSet
    <2> QED
      BY <1>2, <2>1, OnIsReached
  <1>6. v \in KeyValues(f, a)
    BY <1>3, <1>5 DEF KeyValues, Collect, KeyAt, Alias
  <1>7. KeyTag(f.on, Alias(f), KeyText(v)) \in TagsFor(f, a)
    BY <1>3, <1>6 DEF TagsFor
  <1>8. f \in Visited(d, types, n)
    BY <1>4, AllVisited
  <1> QED
    BY <1>4, <1>7, <1>8, Zenon DEF TagsUpTo

\* A key tag is of a key that the answer shows in that very field, under the
\* field's alias, if no path leads to several types.
LEMMA TaggedIsShown ==
    ASSUME NEW d \in Docs, NEW a \in Answers[d], OnePathOneType(d),
           NEW f \in ToSet(Fields[d]), NEW t \in TagsFor(f, a), t[1] = "key", t[2] \notin DOMAIN Union
    PROVE  /\ f.on = t[2] /\ Alias(f) = t[3] /\ f.name \in KeysOf(f.on)
           /\ \E s \in Shown(d, a, FALSE) : s.type = f.on /\ s.key = f.name /\ KeyText(s.val) = t[4]
  <1>1. PICK v \in KeyValues(f, a) : IsKey(v) /\ t = KeyTag(f.on, Alias(f), KeyText(v))
    BY TagPrefixes
  <1>2. /\ f.name \in KeysOf(f.on) /\ v \in Collect(f.path, a)
        /\ t[2] = f.on /\ t[3] = Alias(f) /\ t[4] = KeyText(v)
    BY <1>1 DEF KeyValues, KeyTag
  <1>3. PICK x \in Reached(f.path, a) : v = KeyAt(x, Alias(f))
    BY <1>2 DEF Collect, Alias
  <1>4. Has(x, Alias(f)) /\ v = x.val[Alias(f)]
    BY <1>1, <1>3 DEF KeyAt, Null, IsKey
  <1>5. x \in On(d, a, f) /\ Chosen(f, x)
    <2>1. PICK j \in DOMAIN Fields[d] : f = Fields[d][j]
      BY DEF ToSet
    <2>2. x \in On(d, a, f)
      BY <1>3, <2>1, ReachedIsOn
    <2> QED
      BY <1>4, <2>1, <2>2, ChosenHere
  <1>6. x.type = f.on
    BY <1>2, <1>5 DEF Chosen, Selects
  <1>7. ShowsKey(f, x, FALSE)
    BY <1>1, <1>2, <1>4, <1>5, <1>6 DEF ShowsKey
  <1> DEFINE s == [type |-> x.type, key |-> f.name, val |-> x.val[Alias(f)]]
  <1>8. s \in Shown(d, a, FALSE)
    <2> HIDE DEF s
    <2> DEFINE shown == {y \in On(d, a, f) : ShowsKey(f, y, FALSE)}
               keys(g, X) == {[type |-> y.type, key |-> g.name, val |-> y.val[Alias(g)]] : y \in X}
    <2>1. x \in shown
      BY <1>5, <1>7
    <2>2. s \in keys(f, shown)
      <3> HIDE DEF shown
      <3> QED
        BY <2>1 DEF s
    <2> QED
      BY <2>2, Zenon DEF Shown
  <1>9. s.type = f.on /\ s.key = f.name /\ KeyText(s.val) = t[4]
    BY <1>2, <1>4, <1>6
  <1> QED
    BY <1>2, <1>8, <1>9

\* A hole of the selection is one of the analysis, and, if no path leads to
\* several types, the other way round.
LEMMA HolesFound ==
    ASSUME NEW d \in Docs, NEW a, NEW types, Holes(d, a, types)
    PROVE  \E f \in ToSet(Fields[d]) : CoveredBy(types, f.on) /\ HasHole(f, a)
  <1>1. PICK f \in ToSet(Fields[d]) : \E x \in On(d, a, f) :
          f.name \in KeysOf(f.on) /\ CoveredBy(types, f.on) /\ ~IsKey(KeyAt(x, Alias(f)))
    BY DEF Holes
  <1>2. PICK x \in On(d, a, f) :
          f.name \in KeysOf(f.on) /\ CoveredBy(types, f.on) /\ ~IsKey(KeyAt(x, Alias(f)))
    BY <1>1
  <1>3. PICK j \in DOMAIN Fields[d] : f = Fields[d][j]
    BY DEF ToSet
  <1>4. x \in Reached(f.path, a)
    BY <1>2, <1>3, OnIsReached
  <1> QED
    BY <1>2, <1>4 DEF HasHole, KeyValues, Collect, Alias

LEMMA FoundHoles ==
    ASSUME NEW d \in Docs, NEW a \in Answers[d], NEW types, OnePathOneType(d),
           NEW f \in ToSet(Fields[d]), CoveredBy(types, f.on), HasHole(f, a)
    PROVE  Holes(d, a, types)
  <1>1. f.name \in KeysOf(f.on) /\ \E v \in Collect(f.path, a) : ~IsKey(v)
    BY DEF HasHole, KeyValues
  <1>2. PICK x \in Reached(f.path, a) : ~IsKey(KeyAt(x, Alias(f)))
    BY <1>1 DEF Collect, Alias
  <1>3. PICK j \in DOMAIN Fields[d] : f = Fields[d][j]
    BY DEF ToSet
  <1>4. x \in On(d, a, f)
    BY <1>2, <1>3, ReachedIsOn
  <1> QED
    BY <1>1, <1>2, <1>4 DEF Holes

-----------------------------------------------------------------------------
\* The actions.
LEMMA InitHolds == Init => Inv
  <1> SUFFICES ASSUME Init
               PROVE  Inv
    OBVIOUS
  <1>1. AtHand
    BY DEF Init, AtHand
  <1>2. StoredTagged
    BY DEF Init, StoredTagged
  <1>3. StoredFew
    BY FS_EmptySet, BoundAssumption DEF Init, StoredFew
  <1> QED
    BY <1>1, <1>2, <1>3 DEF Inv

\* After Forget nothing is at hand.
LEMMA Forgotten ==
    ASSUME Forget
    PROVE  AtHand'
  BY DEF Forget, AtHand

LEMMA AnalyzeResultKeeps ==
    ASSUME Inv, NEW d \in Docs, NEW types \in RuleTypes \cup {EveryType}, NEW a \in Answers[d],
           AnalyzeResult(d, types, a)
    PROVE  Inv'
  <1>1. /\ next' = 1 /\ tags' = {} /\ doc' = d /\ only' = types /\ answer' = a
        /\ stage' = IF HasData(a) THEN "walk" ELSE "failed"
        /\ Operation[d] = "mutation" => types = EveryType
        /\ stored' = stored
    BY DEF Inv, AtHand, AnalyzeResult
  <1>2. Visited(d, types, next' - 1) = {}
    BY <1>1, NothingVisited
  <1>3. TagsUpTo(d, a, types, next' - 1) = {}
    BY <1>2, Zenon DEF TagsUpTo
  <1>4. AtHand'
    BY <1>1, <1>2, <1>3 DEF AtHand
  <1> QED
    BY <1>1, <1>4 DEF Inv, StoredTagged, StoredFew

LEMMA SkipFieldKeeps ==
    ASSUME Inv, SkipField
    PROVE  Inv'
  <1>1. /\ stage = "walk" /\ next \in DOMAIN Fields[doc] /\ doc \in Docs /\ next \in Nat \ {0}
        /\ ~CoveredBy(only, Fields[doc][next].on)
        /\ next' = next + 1 /\ UNCHANGED <<stored, doc, only, answer, stage, tags>>
    BY DEF Inv, AtHand, SkipField, AtField, AtRef
  <1>2. next' \in Nat \ {0} /\ next' - 1 = next
    BY <1>1
  <1>3. Visited(doc, only, next' - 1) = Visited(doc, only, next - 1)
    BY <1>1, <1>2, VisitedNext
  <1>4. TagsUpTo(doc, answer, only, next' - 1) = TagsUpTo(doc, answer, only, next - 1)
    BY <1>3 DEF TagsUpTo
  <1>5. AtHand'
    BY <1>1, <1>2, <1>3, <1>4 DEF Inv, AtHand
  <1> QED
    BY <1>1, <1>5 DEF Inv, StoredTagged, StoredFew

LEMMA EnterFieldKeeps ==
    ASSUME Inv, EnterField
    PROVE  Inv'
  <1> DEFINE f == Fields[doc][next]
  <1>1. /\ stage = "walk" /\ next \in DOMAIN Fields[doc] /\ doc \in Docs /\ next \in Nat \ {0}
        /\ CoveredBy(only, f.on)
        /\ tags' = tags \cup TagsFor(f, answer)
        /\ next' = next + 1 /\ stage' = (IF HasHole(f, answer) THEN "failed" ELSE stage)
        /\ UNCHANGED <<stored, doc, only, answer>>
    BY DEF Inv, AtHand, EnterField, AtField, AtRef, HasHole
  <1>2. next' \in Nat \ {0} /\ next' - 1 = next
    BY <1>1
  <1>3. Visited(doc, only, next' - 1) = Visited(doc, only, next - 1) \cup {f}
    BY <1>1, <1>2, VisitedNext
  <1>4. TagsUpTo(doc, answer, only, next' - 1) = TagsUpTo(doc, answer, only, next - 1) \cup TagsFor(f, answer)
    <2> HIDE DEF f
    <2> QED
      BY <1>3, Zenon DEF TagsUpTo
  <1>5. SchemaTag \notin TagsFor(f, answer) /\ OperationTag(doc) \notin TagsFor(f, answer)
    BY TagPrefixes
  <1>6. f \in ToSet(Fields[doc])
    BY <1>1, FieldTyped
  <1> HIDE DEF f
  <1>7. AtHand'
    BY <1>1, <1>2, <1>3, <1>4, <1>5, <1>6 DEF Inv, AtHand
  <1> QED
    BY <1>1, <1>7 DEF Inv, StoredTagged, StoredFew

LEMMA WalkDoneKeeps ==
    ASSUME Inv, WalkDone
    PROVE  Inv'
  <1>1. /\ stage = "walk" /\ next \notin DOMAIN Fields[doc] /\ doc \in Docs /\ next \in Nat \ {0}
        /\ stage' = "found" /\ tags' = tags \cup {SchemaTag, OperationTag(doc)}
        /\ UNCHANGED <<stored, doc, only, answer, next>>
    BY DEF Inv, AtHand, WalkDone, AtField
  <1>2. next > Len(Fields[doc])
    <2>1. Fields[doc] \in Seq([on : STRING, name : STRING, path : Seq(STRING), parent : Nat])
      BY <1>1, WalkerAssumption
    <2> QED
      BY <1>1, <2>1
  <1>3. AtHand'
    BY <1>1, <1>2 DEF Inv, AtHand
  <1> QED
    BY <1>1, <1>3 DEF Inv, StoredTagged, StoredFew

LEMMA StoreResultKeeps ==
    ASSUME Inv, StoreResult
    PROVE  Inv'
  <1> DEFINE result == [doc |-> doc, tags |-> tags, only |-> only, answer |-> answer]
             others == {r \in stored : r.doc # doc}
  <1>1. /\ stage = "found" /\ Operation[doc] = "query" /\ Cardinality(others) < MaxStored
        /\ stored' = others \cup {result} /\ Forget
    BY DEF StoreResult
  <1>2. /\ doc \in Docs /\ next > Len(Fields[doc]) /\ next \in Nat /\ SchemaTag \in tags
        /\ TagsUpTo(doc, answer, only, next - 1) \subseteq tags
        /\ tags \ {SchemaTag, OperationTag(doc)} \subseteq TagsUpTo(doc, answer, only, next - 1)
        /\ answer \in Answers[doc]
    BY <1>1 DEF Inv, AtHand
  <1>3. /\ TagsUpTo(doc, answer, only, Len(Fields[doc])) \subseteq tags
        /\ tags \ {SchemaTag, OperationTag(doc)} \subseteq TagsUpTo(doc, answer, only, Len(Fields[doc]))
    <2>1. Fields[doc] \in Seq([on : STRING, name : STRING, path : Seq(STRING), parent : Nat])
      BY <1>2, WalkerAssumption
    <2>2. Len(Fields[doc]) \in Nat /\ next - 1 \in Nat /\ next - 1 >= Len(Fields[doc])
      BY <1>2, <2>1
    <2>3. Visited(doc, only, Len(Fields[doc])) = Visited(doc, only, next - 1)
      <3>1. Len(Fields[doc]) >= Len(Fields[doc])
        BY <2>2
      <3> DEFINE all == {f \in ToSet(Fields[doc]) : CoveredBy(only, f.on)}
      <3> HIDE DEF all
      <3>2. Visited(doc, only, Len(Fields[doc])) = all
        BY <1>2, <2>2, <3>1, AllVisited, Zenon DEF all
      <3>3. Visited(doc, only, next - 1) = all
        BY <1>2, <2>2, AllVisited, Zenon DEF all
      <3> QED
        BY <3>2, <3>3
    <2> QED
      BY <1>2, <2>3 DEF TagsUpTo
  <1>4. AtHand'
    BY <1>1, Forgotten
  <1>5. StoredTagged'
    <2>1. others \subseteq stored
      OBVIOUS
    <2>2. result.doc = doc /\ result.tags = tags /\ result.only = only /\ result.answer = answer
      OBVIOUS
    <2> HIDE DEF result, others
    <2> QED
      BY <1>1, <1>2, <1>3, <2>1, <2>2 DEF Inv, StoredTagged
  <1>6. StoredFew'
    <2>1. IsFiniteSet(stored) /\ others \subseteq stored
      BY DEF Inv, StoredFew
    <2> HIDE DEF result, others
    <2>2. IsFiniteSet(others) /\ Cardinality(others) \in Nat
      BY <2>1, FS_Subset, FS_CardinalityType
    <2>3. /\ IsFiniteSet(others \cup {result})
          /\ Cardinality(others \cup {result}) <= Cardinality(others) + 1
      BY <2>2, FS_AddElement
    <2>4. Cardinality(others \cup {result}) \in Nat
      BY <2>3, FS_CardinalityType
    <2> QED
      BY <1>1, <2>2, <2>3, <2>4, BoundAssumption DEF StoredFew
  <1> QED
    BY <1>4, <1>5, <1>6 DEF Inv

LEMMA PurgeResultsKeeps ==
    ASSUME Inv, PurgeResults
    PROVE  Inv'
  <1>1. stored' \subseteq stored /\ Forget
    BY DEF PurgeResults
  <1>2. AtHand'
    BY <1>1, Forgotten
  <1>3. StoredTagged'
    BY <1>1 DEF Inv, StoredTagged
  <1>4. StoredFew'
    <2>1. IsFiniteSet(stored') /\ Cardinality(stored') <= Cardinality(stored)
      BY <1>1, FS_Subset DEF Inv, StoredFew
    <2>2. Cardinality(stored') \in Nat /\ Cardinality(stored) \in Nat
      BY <2>1, FS_CardinalityType DEF Inv, StoredFew
    <2> QED
      BY <2>1, <2>2, BoundAssumption DEF Inv, StoredFew
  <1> QED
    BY <1>2, <1>3, <1>4 DEF Inv

LEMMA GiveUpKeeps ==
    ASSUME Inv, GiveUp
    PROVE  Inv'
  <1>1. AtHand' /\ stored' = stored
    BY Forgotten DEF GiveUp
  <1> QED
    BY <1>1 DEF Inv, StoredTagged, StoredFew

LEMMA StepKeeps == Inv /\ [Next]_vars => Inv'
  <1> SUFFICES ASSUME Inv, [Next]_vars
               PROVE  Inv'
    OBVIOUS
  <1>1. CASE \E d \in Docs, types \in RuleTypes \cup {EveryType} :
               \E a \in Answers[d] : AnalyzeResult(d, types, a)
    BY <1>1, AnalyzeResultKeeps
  <1>2. CASE SkipField
    BY <1>2, SkipFieldKeeps
  <1>3. CASE EnterField
    BY <1>3, EnterFieldKeeps
  <1>4. CASE WalkDone
    BY <1>4, WalkDoneKeeps
  <1>5. CASE StoreResult
    BY <1>5, StoreResultKeeps
  <1>6. CASE PurgeResults
    BY <1>6, PurgeResultsKeeps
  <1>7. CASE GiveUp
    BY <1>7, GiveUpKeeps
  <1>8. CASE UNCHANGED vars
    BY <1>8 DEF vars, Inv, AtHand, StoredTagged, StoredFew
  <1> QED
    BY <1>1, <1>2, <1>3, <1>4, <1>5, <1>6, <1>7, <1>8 DEF Next

\* Between the steps of a walk the tags are those of the fields visited so far,
\* and a stored result has the tags of all its fields (AnalyzeResult, EnterField,
\* cachingQueryResult).
THEOREM InvariantHolds == Spec => []Inv
  BY InitHolds, StepKeeps, PTL DEF Spec

-----------------------------------------------------------------------------
\* The analyzer's and the store's state is well-formed, and every stored result
\* is of a query and can be purged with the schema (addTagForSchema).
THEOREM TypeCorrect == Spec => []TypeOK
  <1>1. Inv => TypeOK
    <2> SUFFICES ASSUME Inv
                 PROVE  TypeOK
      OBVIOUS
    <2>1. \A t \in tags : t[1] \in {"schema", "operation", "type", "field", "key"}
      <3> SUFFICES ASSUME NEW t \in tags
                   PROVE  t[1] \in {"schema", "operation", "type", "field", "key"}
        OBVIOUS
      <3>1. CASE t \in {SchemaTag, OperationTag(doc)}
        BY <3>1 DEF SchemaTag, OperationTag
      <3>2. CASE t \notin {SchemaTag, OperationTag(doc)}
        <4>1. t \in TagsUpTo(doc, answer, only, next - 1)
          BY <3>2 DEF Inv, AtHand
        <4>2. PICK f \in Visited(doc, only, next - 1) : t \in TagsFor(f, answer)
          BY <4>1, Zenon DEF TagsUpTo
        <4> QED
          BY <4>2, TagPrefixes
      <3> QED
        BY <3>1, <3>2
    <2>2. /\ doc \in Docs \cup {NoDoc} /\ stage \in {"idle", "walk", "found", "failed"}
          /\ stage = "idle" <=> doc = NoDoc
          /\ only \in RuleTypes \cup {EveryType} /\ next \in Nat \ {0}
      BY DocsAssumption DEF Inv, AtHand
    <2> QED
      BY <2>1, <2>2 DEF Inv, TypeOK, StoredTagged, StoredFew
  <1> QED
    BY <1>1, InvariantHolds, PTL

\* A mutation whose answer could be analyzed shares a key tag with every stored
\* result that shows one of its objects under the key's own name and type
\* (AnalyzeResult on both sides, purgeQueryResultByTags).
THEOREM PurgesMeetResults == Spec => []PurgeMeetsResults
  <1>1. Inv => PurgeMeetsResults
    <2> SUFFICES ASSUME Inv, stage = "found", Operation[doc] = "mutation", NEW r \in stored,
                        NEW s \in Shown(doc, answer, TRUE), NEW t \in Shown(r.doc, r.answer, TRUE),
                        SameObject(s, t), CoveredBy(r.only, t.type)
                 PROVE  r.tags \cap filterWithPrefix(tags, "key") # {}
      BY DEF PurgeMeetsResults
    <2>1. /\ doc \in Docs /\ only = EveryType /\ next \in Nat /\ next > Len(Fields[doc])
          /\ TagsUpTo(doc, answer, only, next - 1) \subseteq tags
      BY DEF Inv, AtHand
    <2>2. /\ r.doc \in Docs
          /\ TagsUpTo(r.doc, r.answer, r.only, Len(Fields[r.doc])) \subseteq r.tags
      BY DEF Inv, StoredTagged
    <2> DEFINE tag == KeyTag(s.type, s.key, KeyText(s.val))
    <2>3. tag = KeyTag(t.type, t.key, KeyText(t.val)) /\ tag[1] = "key"
      BY DEF SameObject, KeyTag
    <2> HIDE DEF tag
    <2>4. tag \in tags
      <3>1. /\ CoveredBy(only, s.type) /\ next - 1 \in Nat /\ next - 1 >= Len(Fields[doc])
        <4>1. Len(Fields[doc]) \in Nat
          BY <2>1, FieldTyped, WalkerAssumption
        <4> QED
          BY <2>1, <4>1 DEF CoveredBy
      <3>2. tag \in TagsUpTo(doc, answer, only, next - 1)
        BY <2>1, <3>1, ShownIsTagged DEF tag
      <3> QED
        BY <2>1, <3>2
    <2>5. tag \in r.tags
      <3>1. Len(Fields[r.doc]) \in Nat /\ Len(Fields[r.doc]) >= Len(Fields[r.doc])
        BY <2>2, WalkerAssumption
      <3>2. tag \in TagsUpTo(r.doc, r.answer, r.only, Len(Fields[r.doc]))
        BY <2>2, <2>3, <3>1, ShownIsTagged
      <3> QED
        BY <2>2, <3>2
    <2> QED
      BY <2>3, <2>4, <2>5 DEF filterWithPrefix
  <1> QED
    BY <1>1, InvariantHolds, PTL

\* A mutation's answer and a result that it is about to purge show an object of
\* the same type with the same key, unless a path leads to several types, an
\* alias disguises a key or the type is abstract (collectTypeKeyTags,
\* addTagForTypeKey, purgeQueryResultByTags).
THEOREM OnlySharedPurged == Spec => []PurgesOnlyShared
  <1>1. Inv => PurgesOnlyShared
    <2> SUFFICES ASSUME Inv, stage = "found", OnePathOneType(doc),
                        NEW r \in stored, OnePathOneType(r.doc), KeepKeysApart(doc, r.doc),
                        NEW t \in r.tags, t \in tags, t[1] = "key", t[2] \notin DOMAIN Union
                 PROVE  \E s \in Shown(doc, answer, FALSE), u \in Shown(r.doc, r.answer, FALSE) :
                           SameKey(s, u) /\ KeyText(s.val) = t[4]
      BY DEF PurgesOnlyShared, filterWithPrefix
    <2>1. /\ doc \in Docs /\ answer \in Answers[doc]
          /\ tags \ {SchemaTag, OperationTag(doc)} \subseteq TagsUpTo(doc, answer, only, next - 1)
      BY DEF Inv, AtHand
    <2>2. t # SchemaTag /\ \A d : t # OperationTag(d)
      BY DEF SchemaTag, OperationTag
    <2>3. t \in TagsUpTo(doc, answer, only, next - 1)
      BY <2>1, <2>2
    <2>4. PICK f \in Visited(doc, only, next - 1) : t \in TagsFor(f, answer)
      BY <2>3, Zenon DEF TagsUpTo
    <2>5. f \in ToSet(Fields[doc])
      BY <2>4 DEF Visited
    <2>6. /\ r.doc \in Docs /\ r.answer \in Answers[r.doc]
          /\ t \in TagsUpTo(r.doc, r.answer, r.only, Len(Fields[r.doc]))
      BY <2>2 DEF Inv, StoredTagged
    <2>7. PICK g \in Visited(r.doc, r.only, Len(Fields[r.doc])) : t \in TagsFor(g, r.answer)
      BY <2>6, Zenon DEF TagsUpTo
    <2>8. g \in ToSet(Fields[r.doc])
      BY <2>7 DEF Visited
    <2>9. /\ f.on = t[2] /\ Alias(f) = t[3] /\ f.name \in KeysOf(f.on)
          /\ \E s \in Shown(doc, answer, FALSE) : s.type = f.on /\ s.key = f.name /\ KeyText(s.val) = t[4]
      BY <2>1, <2>4, <2>5, TaggedIsShown
    <2>10. /\ g.on = t[2] /\ Alias(g) = t[3] /\ g.name \in KeysOf(g.on)
           /\ \E u \in Shown(r.doc, r.answer, FALSE) : u.type = g.on /\ u.key = g.name /\ KeyText(u.val) = t[4]
      BY <2>6, <2>7, <2>8, TaggedIsShown
    <2>11. f.name = g.name
      BY <2>5, <2>8, <2>9, <2>10 DEF KeepKeysApart
    <2> QED
      BY <2>9, <2>10, <2>11 DEF SameKey
  <1> QED
    BY <1>1, InvariantHolds, PTL

\* An analysis that ends well met no hole, and one that fails on an answer with
\* data met one, unless a path leads to several types (EnterField,
\* collectTypeKeyTags).
THEOREM FailsOnlyAtHoles == Spec => []FailsAtHoles
  <1>1. Inv => FailsAtHoles
    <2> SUFFICES ASSUME Inv, HasData(answer)
                 PROVE  /\ stage = "found" => ~Holes(doc, answer, only)
                        /\ stage = "failed" /\ OnePathOneType(doc) => Holes(doc, answer, only)
      BY DEF FailsAtHoles
    <2>1. ASSUME stage = "found", Holes(doc, answer, only)
          PROVE  FALSE
      <3>1. /\ doc \in Docs /\ next \in Nat /\ next > Len(Fields[doc])
            /\ \A f \in Visited(doc, only, next - 1) : ~HasHole(f, answer)
        BY <2>1 DEF Inv, AtHand
      <3>2. next - 1 \in Nat /\ next - 1 >= Len(Fields[doc])
        <4>1. Len(Fields[doc]) \in Nat
          BY <3>1, WalkerAssumption
        <4> QED
          BY <3>1, <4>1
      <3>3. Visited(doc, only, next - 1) = {f \in ToSet(Fields[doc]) : CoveredBy(only, f.on)}
        BY <3>1, <3>2, AllVisited
      <3> QED
        BY <2>1, <3>1, <3>3, HolesFound
    <2>2. ASSUME stage = "failed", OnePathOneType(doc)
          PROVE  Holes(doc, answer, only)
      <3>1. /\ doc \in Docs /\ answer \in Answers[doc]
            /\ \E f \in ToSet(Fields[doc]) : CoveredBy(only, f.on) /\ HasHole(f, answer)
        BY <2>2 DEF Inv, AtHand
      <3> QED
        BY <2>2, <3>1, FoundHoles
    <2> QED
      BY <2>1, <2>2
  <1> QED
    BY <1>1, InvariantHolds, PTL
=============================================================================
