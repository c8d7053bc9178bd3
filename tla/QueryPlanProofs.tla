---------------------------- MODULE QueryPlanProofs ----------------------------
(***************************************************************************)
(* Every plan follows the rules of its instance, and every result key      *)
(* tells apart what these vary on, for any number of rules in any order,   *)
(* and any number of requests, configurations and varies.                  *)
(***************************************************************************)
EXTENDS QueryPlan, NaturalsInduction, WellFoundedInduction, TLAPS

\* The rules of c that match q, without those that are left.
Visited(q, c, rest) == {Rules[c][r] : r \in Matching(q, c) \ rest}

\* What Follows says of all the rules that match, of some of them: the smallest
\* max_age and the smallest swr that is not zero are among them.
SaysMaxAge(pl, rules) ==
    /\ rules = {} => pl.maxAge = 0
    /\ rules # {} => \E rule \in rules : pl.maxAge = rule.maxAge
    /\ \A rule \in rules : pl.maxAge <= rule.maxAge

SaysSwr(pl, rules) ==
    /\ pl.swr # 0 => \E rule \in rules : pl.swr = rule.swr
    /\ \A rule \in rules : rule.swr # 0 => pl.swr # 0 /\ pl.swr <= rule.swr

SaysTypes(pl, rules) ==
    pl.types = IF \E rule \in rules : rule.types = AllTypes THEN AllTypes
               ELSE UNION {DOMAIN rule.types : rule \in rules}

SaysVaries(pl, rules) == ToSet(pl.varyNames) = UNION {ToSet(rule.varies) : rule \in rules}

Says(pl, rules) ==
    /\ pl.passthrough = (rules = {})
    /\ SaysMaxAge(pl, rules) /\ SaysSwr(pl, rules)
    /\ SaysTypes(pl, rules) /\ SaysVaries(pl, rules)

\* A stored plan says what the rules of every instance say whose checksums it
\* has, and a request's plan what those say that it has visited.
StoredRight ==
    \A q \in Queries, c \in Configs : Current(plans[q], c) => Says(plans[q], Visited(q, c, {}))

InHandRight ==
    \A p \in Procs :
        /\ pc[p] \in {"compute", "save", "key", "planned"} =>
              plan[p].rulesHash = RulesHash(config[p]) /\ plan[p].variesHash = VariesHash(config[p])
        /\ pc[p] = "compute" => Says(plan[p], Visited(query[p], config[p], left[p]))
        /\ pc[p] \in {"save", "key", "planned"} => Says(plan[p], Visited(query[p], config[p], {}))

\* The rules left are some configuration's, and none outside the loop.
LeftRight ==
    /\ left \in [Procs -> SUBSET UNION {DOMAIN Rules[c] : c \in Configs}]
    /\ \A p \in Procs : pc[p] # "compute" => left[p] = {}

Inv == TypeOK /\ LeftRight /\ StoredRight /\ InHandRight /\ NoUnknownVary

\* The key of a result is of the names in the plan and of what was sent.
KeysRight ==
    /\ DOMAIN resultKey = Procs
    /\ \A p \in Procs : pc[p] = "planned" =>
          resultKey[p] = ResultKey(query[p], plan[p].varyNames, Varies[config[p]], sent[p])

\* The inputs of the varies of c with these names, and what is hashed of inputs.
InputsOf(c, names) == UNION {ToSet(Varies[c][name]) : name \in ToSet(names)}

PartsOf(inputs, values) == {Part(i, values[i]) : i \in inputs}

\* A part is a text that begins with a head, ends with a ";" and has no ";"
\* followed by a head in it.
Letters == Marks \cup Inputs \cup Tokens

AllParts == {x \in Seq(Letters) : Len(x) > 0 /\ x[1] \in Heads /\ x[Len(x)] = Semicolon /\ Uncut(x)}

\* The inputs whose values do not look like parts.
Plain(inputs, values) == \A i \in inputs \cap Headers : Uncut(Read(i, values[i]))

\* A rule of some configuration.
RuleTyped(rule) ==
    /\ rule.maxAge \in Nat \ {0} /\ rule.swr \in Nat
    /\ rule.varies \in Seq(VaryNames)
    /\ rule.types # AllTypes => DOMAIN rule.types \subseteq TypeNames

-----------------------------------------------------------------------------
LEMMA RulesTyped == \A c \in Configs : \A r \in DOMAIN Rules[c] : RuleTyped(Rules[c][r])
  <1> SUFFICES ASSUME NEW c \in Configs, NEW r \in DOMAIN Rules[c]
               PROVE  RuleTyped(Rules[c][r])
    OBVIOUS
  <1>1. RuleOK(Rules[c][r]) /\ Rules[c][r].varies \in Seq(DOMAIN Varies[c])
    BY ValidConfigs
  <1>2. DOMAIN Varies[c] \subseteq VaryNames
    BY DEF VaryNames
  <1>3. Seq(DOMAIN Varies[c]) \subseteq Seq(VaryNames)
    BY <1>2
  <1>4. ASSUME Rules[c][r].types # AllTypes
        PROVE  DOMAIN Rules[c][r].types \subseteq TypeNames
    <2>1. r \in {x \in DOMAIN Rules[c] : Rules[c][x].types # AllTypes}
      BY <1>4
    <2>2. DOMAIN Rules[c][r].types \subseteq ListedTypes(c)
      BY <2>1, Zenon DEF ListedTypes
    <2>3. ListedTypes(c) \subseteq UNION {ListedTypes(d) : d \in Configs}
      BY Zenon
    <2>4. UNION {ListedTypes(d) : d \in Configs} \subseteq TypeNames
      BY Zenon DEF TypeNames
    <2> QED
      BY <2>2, <2>3, <2>4, Zenon
  <1> QED
    BY <1>1, <1>3, <1>4 DEF RuleOK, RuleTyped

\* The elements of two sequences, one after the other.
LEMMA ConcatElements ==
    ASSUME NEW S, NEW s \in Seq(S), NEW t \in Seq(S)
    PROVE  ToSet(s \o t) = ToSet(s) \cup ToSet(t)
  <1>1. ASSUME NEW i \in DOMAIN (s \o t)
        PROVE  (s \o t)[i] \in ToSet(s) \cup ToSet(t)
    <2>1. CASE i <= Len(s)
      BY <2>1 DEF ToSet
    <2>2. CASE i > Len(s)
      <3>1. i - Len(s) \in DOMAIN t /\ (s \o t)[i] = t[i - Len(s)]
        BY <2>2
      <3> QED
        BY <3>1 DEF ToSet
    <2> QED
      BY <2>1, <2>2
  <1>2. ASSUME NEW i \in DOMAIN s
        PROVE  s[i] \in ToSet(s \o t)
    <2>1. i \in DOMAIN (s \o t) /\ (s \o t)[i] = s[i]
      OBVIOUS
    <2> QED
      BY <2>1 DEF ToSet
  <1>3. ASSUME NEW i \in DOMAIN t
        PROVE  t[i] \in ToSet(s \o t)
    <2>1. i + Len(s) \in DOMAIN (s \o t) /\ (s \o t)[i + Len(s)] = t[i]
      OBVIOUS
    <2> QED
      BY <2>1 DEF ToSet
  <1> QED
    BY <1>1, <1>2, <1>3 DEF ToSet

\* Induction over the naturals.
LEMMA FromZero ==
    ASSUME NEW T \in SUBSET Nat, 0 \in T, \A n \in T : n + 1 \in T
    PROVE  T = Nat
  <1> DEFINE D == Nat \ T
  <1> SUFFICES ASSUME D # {}
               PROVE  FALSE
    OBVIOUS
  <1>1. D \in SUBSET Nat
    OBVIOUS
  <1> HIDE DEF D
  <1>2. PICK x \in D : \A y \in D : ~(<<y, x>> \in OpToRel(<, Nat))
    BY <1>1, NatLessThanWellFounded, WFMin
  <1>3. \A y \in D : ~(y < x)
    BY <1>1, <1>2 DEF OpToRel
  <1>4. x \in Nat /\ x \notin T /\ x # 0
    BY <1>1 DEF D
  <1>5. x - 1 \in Nat /\ x - 1 < x /\ (x - 1) + 1 = x
    BY <1>4
  <1> QED
    BY <1>3, <1>4, <1>5 DEF D

\* The recursive function of FlattenSeq exists.
LEMMA FlattenExists ==
    ASSUME NEW seqs, NEW n \in Nat
    PROVE  \E f : f = [i \in 1..(n + 1) |-> IF i = 1 THEN seqs[i] ELSE f[i-1] \o seqs[i]]
  <1> DEFINE Good(f, k) == f = [i \in 1..(k + 1) |-> IF i = 1 THEN seqs[i] ELSE f[i-1] \o seqs[i]]
             T == {k \in Nat : \E f : Good(f, k)}
  <1>1. 0 \in T
    <2>1. Good([i \in 1..1 |-> seqs[i]], 0)
      OBVIOUS
    <2> QED
      BY <2>1
  <1>2. ASSUME NEW k \in T
        PROVE  k + 1 \in T
    <2>1. PICK f : Good(f, k)
      OBVIOUS
    <2> DEFINE g == [i \in 1..(k + 2) |-> IF i = k + 2 THEN f[k + 1] \o seqs[i] ELSE f[i]]
    <2>2. ASSUME NEW i \in 1..(k + 2)
          PROVE  g[i] = IF i = 1 THEN seqs[i] ELSE g[i-1] \o seqs[i]
      <3>1. CASE i = k + 2
        <4>1. i # 1 /\ i - 1 = k + 1 /\ k + 1 \in 1..(k+2) /\ k + 1 # k + 2
          BY <3>1
        <4>2. g[i - 1] = f[k + 1]
          BY <4>1
        <4>. QED
          BY <3>1, <4>1, <4>2
      <3>2. CASE i # k + 2
        <4>1. i \in 1..(k + 1) /\ i - 1 # k + 2 /\ (i # 1 => i - 1 \in 1..(k + 2))
          BY <3>2
        <4>2. f[i] = IF i = 1 THEN seqs[i] ELSE f[i-1] \o seqs[i]
          BY <2>1, <4>1
        <4>. QED
          BY <3>2, <4>1, <4>2
      <3> QED
        BY <3>1, <3>2
    <2>3. Good(g, k + 1)
      <3>1. DOMAIN g = 1..(k + 2) /\ (k + 1) + 1 = k + 2
        OBVIOUS
      <3>2. g = [i \in 1..(k + 2) |-> g[i]]
        OBVIOUS
      <3> HIDE DEF g
      <3>3. g = [i \in 1..(k + 2) |-> IF i = 1 THEN seqs[i] ELSE g[i-1] \o seqs[i]]
        BY <2>2, <3>2
      <3> QED
        BY <3>1, <3>3
    <2>4. k + 1 \in Nat
      OBVIOUS
    <2> HIDE DEF g, Good
    <2> QED
      BY <2>3, <2>4
  <1>3. T = Nat
    <2> HIDE DEF T
    <2> QED
      BY <1>1, <1>2, FromZero DEF T
  <1> QED
    BY <1>3

LEMMA FlattenIs ==
    ASSUME NEW seqs, NEW n \in Nat, Len(seqs) = n + 1
    PROVE  \E f : /\ f = [i \in 1..Len(seqs) |-> IF i = 1 THEN seqs[i] ELSE f[i-1] \o seqs[i]]
                  /\ FlattenSeq(seqs) = f[Len(seqs)]
  <1>1. Len(seqs) # 0
    OBVIOUS
  <1>2. \E f : f = [i \in 1..(n + 1) |-> IF i = 1 THEN seqs[i] ELSE f[i-1] \o seqs[i]]
    BY FlattenExists
  <1> QED
    <2>1. \E f : f = [i \in 1..Len(seqs) |-> IF i = 1 THEN seqs[i] ELSE f[i-1] \o seqs[i]]
      BY <1>2, Zenon
    <2> QED
      BY <1>1, <2>1, Zenon DEF FlattenSeq

\* Flattening keeps exactly the elements.
LEMMA FlattenElements ==
    ASSUME NEW S, NEW ss \in Seq(Seq(S))
    PROVE  /\ FlattenSeq(ss) \in Seq(S)
           /\ ToSet(FlattenSeq(ss)) = UNION {ToSet(ss[i]) : i \in DOMAIN ss}
  <1>1. CASE Len(ss) = 0
    <2>1. FlattenSeq(ss) = ss /\ DOMAIN ss = {}
      BY <1>1 DEF FlattenSeq
    <2> QED
      BY <2>1 DEF ToSet
  <1>2. CASE Len(ss) # 0
    <2> DEFINE n == Len(ss)
    <2>1. n \in Nat /\ n - 1 \in Nat /\ n = (n - 1) + 1 /\ DOMAIN ss = 1..n
      BY <1>2
    <2>2. PICK f : /\ f = [i \in 1..n |-> IF i = 1 THEN ss[i] ELSE f[i-1] \o ss[i]]
                   /\ FlattenSeq(ss) = f[n]
      BY <2>1, FlattenIs
    <2>3. \A i \in 1..n : ss[i] \in Seq(S)
      OBVIOUS
    <2> HIDE DEF n
    <2> DEFINE Done(k) == f[k] \in Seq(S) /\ ToSet(f[k]) = UNION {ToSet(ss[j]) : j \in 1..k}
               T == {k \in Nat : k + 1 <= n => Done(k + 1)}
    <2>4. 0 \in T
      <3>1. 1 \in 1..n /\ f[1] = ss[1]
        BY <2>1, <2>2
      <3>2. 1..1 = {1}
        OBVIOUS
      <3>3. UNION {ToSet(ss[j]) : j \in 1..1} = ToSet(ss[1])
        BY <3>2, Zenon
      <3>4. Done(1) /\ 0 + 1 = 1
        BY <2>3, <3>1, <3>3
      <3> HIDE DEF Done
      <3> QED
        BY <3>4
    <2>5. ASSUME NEW k \in T
          PROVE  k + 1 \in T
      <3> SUFFICES ASSUME (k + 1) + 1 <= n
                   PROVE  Done((k + 1) + 1)
        OBVIOUS
      <3> DEFINE m == k + 1
      <3>1. m \in Nat /\ m \in 1..n /\ m + 1 \in 1..n /\ m + 1 # 1 /\ (m + 1) - 1 = m
        BY <2>1
      <3>2. Done(m)
        BY <2>1
      <3>3. f[m + 1] = f[m] \o ss[m + 1]
        BY <2>2, <3>1
      <3>4. ss[m + 1] \in Seq(S)
        BY <2>3, <3>1
      <3>5. 1..(m + 1) = (1..m) \cup {m + 1}
        BY <3>1
      <3> HIDE DEF m
      <3>6. f[m + 1] \in Seq(S) /\ ToSet(f[m + 1]) = ToSet(f[m]) \cup ToSet(ss[m + 1])
        BY <3>2, <3>3, <3>4, ConcatElements
      <3>7. UNION {ToSet(ss[j]) : j \in 1..(m + 1)} = (UNION {ToSet(ss[j]) : j \in 1..m}) \cup ToSet(ss[m + 1])
        BY <3>5, Zenon
      <3>8. Done(m + 1)
        BY <3>2, <3>6, <3>7
      <3> QED
        BY <3>8 DEF m
    <2>6. T = Nat
      <3> HIDE DEF T
      <3> QED
        BY <2>4, <2>5, FromZero DEF T
    <2>7. Done(n)
      <3>1. n - 1 \in T
        BY <2>1, <2>6
      <3> QED
        BY <2>1, <3>1
    <2> QED
      BY <2>1, <2>2, <2>7
  <1> QED
    BY <1>1, <1>2

LEMMA LeastIs ==
    ASSUME NEW s \in SUBSET Nat, NEW m \in s, \A y \in s : m <= y
    PROVE  Least(s) = m
  <1>1. \A x \in s : (\A y \in s : x <= y) => x = m
    OBVIOUS
  <1> QED
    BY <1>1 DEF Least

\* A plan of Plan is a record with these fields.
LEMMA MergeTyped ==
    ASSUME NEW pl \in Plan, NEW rule, RuleTyped(rule)
    PROVE  /\ Merge(pl, rule) \in Plan
           /\ Merge(pl, rule).maxAge = IF pl.maxAge = 0 \/ pl.maxAge > rule.maxAge THEN rule.maxAge ELSE pl.maxAge
           /\ Merge(pl, rule).swr = IF pl.swr = 0 \/ (pl.swr > rule.swr /\ rule.swr > 0) THEN rule.swr ELSE pl.swr
           /\ Merge(pl, rule).varyNames = pl.varyNames \o rule.varies
           /\ Merge(pl, rule).types = IF rule.types = AllTypes \/ pl.types = AllTypes THEN AllTypes
                                      ELSE pl.types \cup DOMAIN rule.types
           /\ Merge(pl, rule).passthrough = FALSE
           /\ Merge(pl, rule).rulesHash = pl.rulesHash /\ Merge(pl, rule).variesHash = pl.variesHash
  <1>1. pl.varyNames \o rule.varies \in Seq(VaryNames)
    BY DEF Plan, RuleTyped
  <1>2. (IF rule.types = AllTypes \/ pl.types = AllTypes THEN AllTypes ELSE pl.types \cup DOMAIN rule.types)
          \in (SUBSET TypeNames) \cup {AllTypes}
    BY DEF Plan, RuleTyped
  <1>3. (IF pl.maxAge = 0 \/ pl.maxAge > rule.maxAge THEN rule.maxAge ELSE pl.maxAge) \in Nat
    BY DEF Plan, RuleTyped
  <1>4. (IF pl.swr = 0 \/ (pl.swr > rule.swr /\ rule.swr > 0) THEN rule.swr ELSE pl.swr) \in Nat
    BY DEF Plan, RuleTyped
  <1> QED
    BY <1>1, <1>2, <1>3, <1>4 DEF Plan, Merge

\* One turn of computePlan's loop adds what the rule says.
LEMMA MergeSays ==
    ASSUME NEW pl \in Plan, NEW rules, Says(pl, rules), \A r \in rules : RuleTyped(r),
           NEW rule, RuleTyped(rule)
    PROVE  Says(Merge(pl, rule), rules \cup {rule})
  <1> DEFINE new == Merge(pl, rule)
             all == rules \cup {rule}
  <1>1. SaysMaxAge(new, all)
    <2>1. rules = {} <=> pl.maxAge = 0
      BY DEF Says, SaysMaxAge, RuleTyped
    <2>2. new.maxAge = IF pl.maxAge = 0 \/ pl.maxAge > rule.maxAge THEN rule.maxAge ELSE pl.maxAge
      BY MergeTyped
    <2>3. pl.maxAge \in Nat /\ rule.maxAge \in Nat /\ \A r \in rules : r.maxAge \in Nat
      BY DEF Plan, RuleTyped
    <2> QED
      BY <2>1, <2>2, <2>3 DEF Says, SaysMaxAge
  <1>2. SaysSwr(new, all)
    <2>1. new.swr = IF pl.swr = 0 \/ (pl.swr > rule.swr /\ rule.swr > 0) THEN rule.swr ELSE pl.swr
      BY MergeTyped
    <2>2. pl.swr \in Nat /\ rule.swr \in Nat /\ \A r \in rules : r.swr \in Nat
      BY DEF Plan, RuleTyped
    <2> QED
      BY <2>1, <2>2 DEF Says, SaysSwr
  <1>3. SaysTypes(new, all)
    <2>1. new.types = IF rule.types = AllTypes \/ pl.types = AllTypes THEN AllTypes
                      ELSE pl.types \cup DOMAIN rule.types
      BY MergeTyped
    <2>2. pl.types = AllTypes <=> \E r \in rules : r.types = AllTypes
      <3>1. CASE \E r \in rules : r.types = AllTypes
        BY <3>1 DEF Says, SaysTypes
      <3>2. CASE ~\E r \in rules : r.types = AllTypes
        <4>1. pl.types = UNION {DOMAIN r.types : r \in rules}
          BY <3>2 DEF Says, SaysTypes
        <4>2. pl.types \in SUBSET TypeNames
          BY <3>2, <4>1 DEF RuleTyped
        <4> QED
          BY <3>2, <4>2, AllTypesAssumption
      <3> QED
        BY <3>1, <3>2
    <2>3. CASE \E r \in all : r.types = AllTypes
      BY <2>1, <2>2, <2>3 DEF SaysTypes
    <2>4. CASE ~\E r \in all : r.types = AllTypes
      <3>1. new.types = pl.types \cup DOMAIN rule.types
        BY <2>1, <2>2, <2>4
      <3>2. pl.types = UNION {DOMAIN r.types : r \in rules}
        BY <2>4 DEF Says, SaysTypes
      <3>3. new.types = UNION {DOMAIN r.types : r \in all}
        BY <3>1, <3>2, Zenon
      <3> QED
        BY <2>4, <3>3 DEF SaysTypes
    <2> QED
      BY <2>3, <2>4
  <1>4. SaysVaries(new, all)
    <2>1. new.varyNames = pl.varyNames \o rule.varies
      BY MergeTyped
    <2>2. pl.varyNames \in Seq(VaryNames) /\ rule.varies \in Seq(VaryNames)
      BY DEF Plan, RuleTyped
    <2>3. ToSet(new.varyNames) = ToSet(pl.varyNames) \cup ToSet(rule.varies)
      BY <2>1, <2>2, ConcatElements
    <2>4. ToSet(pl.varyNames) = UNION {ToSet(r.varies) : r \in rules}
      BY DEF Says, SaysVaries
    <2>5. ToSet(new.varyNames) = UNION {ToSet(r.varies) : r \in all}
      BY <2>3, <2>4, Zenon
    <2> QED
      BY <2>5 DEF SaysVaries
  <1>5. new.passthrough = (all = {})
    BY MergeTyped
  <1> QED
    BY <1>1, <1>2, <1>3, <1>4, <1>5 DEF Says

\* The plan that computePlan starts from says nothing.
LEMMA FreshSays ==
    ASSUME NEW c \in Configs
    PROVE  FreshPlan(c) \in Plan /\ Says(FreshPlan(c), {})
  <1>1. FreshPlan(c) \in Plan
    BY DEF FreshPlan, Plan
  <1>2. ToSet(<<>>) = {}
    BY DEF ToSet
  <1>3. SaysVaries(FreshPlan(c), {}) /\ SaysTypes(FreshPlan(c), {})
    <2>1. FreshPlan(c).varyNames = <<>> /\ FreshPlan(c).types = {}
      BY DEF FreshPlan
    <2> QED
      BY <1>2, <2>1 DEF SaysVaries, SaysTypes
  <1>4. SaysMaxAge(FreshPlan(c), {}) /\ SaysSwr(FreshPlan(c), {}) /\ FreshPlan(c).passthrough = TRUE
    BY DEF FreshPlan, SaysMaxAge, SaysSwr
  <1> QED
    BY <1>1, <1>3, <1>4 DEF Says

\* To say what all the matching rules say is to follow the rules.
LEMMA SaysFollows ==
    ASSUME NEW pl \in Plan, NEW q \in Queries, NEW c \in Configs, Says(pl, Visited(q, c, {}))
    PROVE  Follows(pl, q, c)
  <1> DEFINE rules == {Rules[c][r] : r \in Matching(q, c)}
             swrs == {rule.swr : rule \in rules} \ {0}
             ages == {rule.maxAge : rule \in rules}
  <1>1. Visited(q, c, {}) = rules
    BY DEF Visited
  <1>2. \A rule \in rules : RuleTyped(rule)
    BY RulesTyped DEF Matching
  <1>3. Says(pl, rules) /\ pl.maxAge \in Nat /\ pl.swr \in Nat
    BY <1>1 DEF Plan
  <1> HIDE DEF rules
  <1>4. pl.maxAge = IF rules = {} THEN 0 ELSE Least(ages)
    <2>1. CASE rules = {}
      BY <1>3, <2>1 DEF Says, SaysMaxAge
    <2>2. CASE rules # {}
      <3>1. ages \in SUBSET Nat
        BY <1>2 DEF RuleTyped
      <3>2. pl.maxAge \in ages /\ \A y \in ages : pl.maxAge <= y
        BY <1>3, <2>2 DEF Says, SaysMaxAge
      <3> HIDE DEF ages
      <3> QED
        BY <2>2, <3>1, <3>2, LeastIs
    <2> QED
      BY <2>1, <2>2
  <1>5. pl.swr = IF swrs = {} THEN 0 ELSE Least(swrs)
    <2>1. swrs \in SUBSET Nat
      BY <1>2 DEF RuleTyped
    <2>2. CASE swrs = {}
      BY <1>3, <2>2 DEF Says, SaysSwr
    <2>3. CASE swrs # {}
      <3>1. pl.swr \in swrs /\ \A y \in swrs : pl.swr <= y
        BY <1>3, <2>3 DEF Says, SaysSwr
      <3> HIDE DEF swrs
      <3> QED
        BY <2>1, <2>3, <3>1, LeastIs
    <2> QED
      BY <2>2, <2>3
  <1>6. /\ pl.passthrough = (rules = {})
        /\ pl.types = IF \E rule \in rules : rule.types = AllTypes THEN AllTypes
                      ELSE UNION {DOMAIN rule.types : rule \in rules}
        /\ ToSet(pl.varyNames) = UNION {ToSet(rule.varies) : rule \in rules}
    BY <1>3 DEF Says, SaysTypes, SaysVaries
  <1> USE DEF rules
  <1> QED
    BY <1>4, <1>5, <1>6 DEF Follows

\* Its varies are the instance's.
LEMMA SaysKnown ==
    ASSUME NEW pl \in Plan, NEW q \in Queries, NEW c \in Configs, Says(pl, Visited(q, c, {}))
    PROVE  ToSet(pl.varyNames) \subseteq DOMAIN Varies[c]
  <1>1. ToSet(pl.varyNames) = UNION {ToSet(rule.varies) : rule \in Visited(q, c, {})}
    BY DEF Says, SaysVaries
  <1>2. ASSUME NEW rule \in Visited(q, c, {})
        PROVE  ToSet(rule.varies) \subseteq DOMAIN Varies[c]
    <2>1. rule.varies \in Seq(DOMAIN Varies[c])
      BY ValidConfigs DEF Visited, Matching
    <2> QED
      BY <2>1 DEF ToSet
  <1> QED
    BY <1>1, <1>2
-----------------------------------------------------------------------------
LEMMA InitHolds == Init => Inv
  <1> SUFFICES ASSUME Init
               PROVE  Inv
    OBVIOUS
  <1>1. TypeOK /\ LeftRight
    <2>1. (CHOOSE q \in Queries : TRUE) \in Queries /\ (CHOOSE c \in Configs : TRUE) \in Configs
      BY SomeAssumption
    <2>2. TypeOK
      BY <2>1 DEF Init, TypeOK, Stages, Idle, Inputs, Sendable
    <2> QED
      BY <2>2 DEF Init, LeftRight
  <1>2. StoredRight /\ InHandRight /\ NoUnknownVary
    BY DEF Init, StoredRight, InHandRight, NoUnknownVary, Current
  <1> QED
    BY <1>1, <1>2 DEF Inv

\* The plans of the other requests are what they were.
LEMMA OthersRight ==
    ASSUME Inv, NEW p \in Procs,
           \A o \in Procs \ {p} : /\ pc'[o] = pc[o] /\ query'[o] = query[o] /\ config'[o] = config[o]
                                 /\ plan'[o] = plan[o] /\ left'[o] = left[o],
           pc'[p] # "unkeyed",
           pc'[p] \in {"compute", "save", "key", "planned"} =>
              plan'[p].rulesHash = RulesHash(config'[p]) /\ plan'[p].variesHash = VariesHash(config'[p]),
           pc'[p] = "compute" => Says(plan'[p], Visited(query'[p], config'[p], left'[p])),
           pc'[p] \in {"save", "key", "planned"} => Says(plan'[p], Visited(query'[p], config'[p], {}))
    PROVE  InHandRight' /\ NoUnknownVary'
  BY DEF Inv, InHandRight, NoUnknownVary

LEMMA GetKeeps ==
    ASSUME Inv, NEW p \in Procs, GetCached(p) \/ Compute(p)
    PROVE  Inv'
  <1>1. CASE GetCached(p)
    <2>1. plans[query[p]] \in Plan /\ Says(plans[query[p]], Visited(query[p], config[p], {}))
      BY <1>1 DEF GetCached, Current, Inv, TypeOK, StoredRight
    <2>2. plan'[p] = plans[query[p]] /\ pc'[p] = "key"
      BY <1>1 DEF GetCached, Goto, Inv, TypeOK
    <2>3. TypeOK'
      BY <1>1, <2>1, <2>2 DEF GetCached, Goto, request, Inv, TypeOK, Stages
    <2>4. LeftRight'
      BY <1>1 DEF GetCached, Goto, Inv, TypeOK, LeftRight
    <2>5. StoredRight'
      BY <1>1 DEF GetCached, Inv, StoredRight
    <2>6. InHandRight' /\ NoUnknownVary'
      BY <1>1, <2>1, <2>2, OthersRight DEF GetCached, Current, Goto, request, Inv, TypeOK
    <2> QED
      BY <2>3, <2>4, <2>5, <2>6 DEF Inv
  <1>2. CASE Compute(p)
    <2>1. FreshPlan(config[p]) \in Plan /\ Says(FreshPlan(config[p]), {})
      BY FreshSays DEF Inv, TypeOK
    <2>2. plan'[p] = FreshPlan(config[p]) /\ pc'[p] = "compute" /\ left'[p] = DOMAIN Rules[config[p]]
      BY <1>2 DEF Compute, Goto, Inv, TypeOK, LeftRight
    <2>3. TypeOK'
      BY <1>2, <2>1, <2>2 DEF Compute, Goto, request, Inv, TypeOK, Stages
    <2>4. LeftRight'
      <3>1. DOMAIN Rules[config[p]] \subseteq UNION {DOMAIN Rules[c] : c \in Configs}
        BY DEF Inv, TypeOK
      <3> QED
        BY <1>2, <3>1 DEF Compute, Goto, Inv, TypeOK, LeftRight
    <2>5. StoredRight'
      BY <1>2 DEF Compute, Inv, StoredRight
    <2>6. Visited(query[p], config[p], DOMAIN Rules[config[p]]) = {}
      BY DEF Visited, Matching
    <2>7. /\ plan'[p].rulesHash = RulesHash(config[p]) /\ plan'[p].variesHash = VariesHash(config[p])
          /\ Says(plan'[p], Visited(query[p], config[p], left'[p]))
      <3>1. FreshPlan(config[p]).rulesHash = RulesHash(config[p]) /\ FreshPlan(config[p]).variesHash = VariesHash(config[p])
        BY DEF FreshPlan
      <3> QED
        BY <2>1, <2>2, <2>6, <3>1
    <2>8. InHandRight' /\ NoUnknownVary'
      BY <1>2, <2>2, <2>7, OthersRight DEF Compute, Goto, request, Inv, TypeOK
    <2> QED
      BY <2>3, <2>4, <2>5, <2>8 DEF Inv
  <1> QED
    BY <1>1, <1>2

LEMMA VisitKeeps ==
    ASSUME Inv, NEW p \in Procs, VisitRule(p)
    PROVE  Inv'
  <1>1. PICK r \in left[p] :
          /\ left' = [left EXCEPT ![p] = @ \ {r}]
          /\ plan' = IF Matches(Rules[config[p]][r], FieldTypes[query[p]])
                     THEN [plan EXCEPT ![p] = Merge(@, Rules[config[p]][r])] ELSE plan
    BY DEF VisitRule
  <1> DEFINE rule == Rules[config[p]][r]
             rules == Visited(query[p], config[p], left[p])
  <1>2. /\ plan[p] \in Plan /\ config[p] \in Configs /\ r \in DOMAIN Rules[config[p]] /\ pc[p] = "compute"
        /\ Says(plan[p], rules)
    BY DEF VisitRule, Inv, TypeOK, InHandRight
  <1>3. RuleTyped(rule) /\ \A x \in rules : RuleTyped(x)
    BY <1>2, RulesTyped DEF Visited, Matching
  <1>4. /\ plan'[p] \in Plan /\ Says(plan'[p], Visited(query[p], config[p], left[p] \ {r}))
        /\ plan'[p].rulesHash = plan[p].rulesHash /\ plan'[p].variesHash = plan[p].variesHash
    <2>1. CASE Matches(rule, FieldTypes[query[p]])
      <3>1. Visited(query[p], config[p], left[p] \ {r}) = rules \cup {rule}
        BY <1>2, <2>1 DEF Visited, Matching
      <3>2. plan'[p] = Merge(plan[p], rule)
        BY <1>1, <2>1 DEF Inv, TypeOK
      <3>3. Says(Merge(plan[p], rule), rules \cup {rule})
        BY <1>2, <1>3, MergeSays
      <3>4. /\ Merge(plan[p], rule) \in Plan
            /\ Merge(plan[p], rule).rulesHash = plan[p].rulesHash
            /\ Merge(plan[p], rule).variesHash = plan[p].variesHash
        BY <1>2, <1>3, MergeTyped
      <3> QED
        BY <3>1, <3>2, <3>3, <3>4
    <2>2. CASE ~Matches(rule, FieldTypes[query[p]])
      <3>1. Visited(query[p], config[p], left[p] \ {r}) = rules
        BY <2>2 DEF Visited, Matching
      <3> QED
        BY <1>1, <1>2, <2>2, <3>1
    <2> QED
      BY <2>1, <2>2
  <1>5. /\ \A o \in Procs \ {p} : plan'[o] = plan[o] /\ left'[o] = left[o]
        /\ left'[p] = left[p] \ {r}
        /\ DOMAIN plan' = DOMAIN plan /\ UNCHANGED <<plans, pc, query, config, sent>>
    BY <1>1 DEF VisitRule, request, Inv, TypeOK, LeftRight
  <1>6. TypeOK'
    <2>1. plan' \in [Procs -> Plan \cup {NoPlan}]
      BY <1>1, <1>4, <1>5 DEF Inv, TypeOK
    <2>2. \A o \in Procs :
            /\ left'[o] \subseteq DOMAIN Rules[config[o]]
            /\ pc[o] \in {"compute", "save", "key", "planned"} => plan'[o] \in Plan
      BY <1>4, <1>5 DEF Inv, TypeOK
    <2> QED
      BY <1>5, <2>1, <2>2 DEF Inv, TypeOK
  <1>7. LeftRight'
    BY <1>1, <1>2, <1>5 DEF Inv, LeftRight
  <1>8. StoredRight'
    BY <1>5 DEF Inv, StoredRight
  <1>9. InHandRight' /\ NoUnknownVary'
    BY <1>2, <1>4, <1>5, OthersRight DEF Inv, InHandRight
  <1> QED
    BY <1>6, <1>7, <1>8, <1>9 DEF Inv

\* The loop is over when no rule is left.
LEMMA SaveKeeps ==
    ASSUME Inv, NEW p \in Procs, RulesDone(p) \/ SavePlan(p) \/ SaveFails(p)
    PROVE  Inv'
  <1>1. CASE RulesDone(p) \/ SaveFails(p)
    <2>1. LeftRight'
      BY <1>1 DEF RulesDone, SaveFails, Goto, Inv, TypeOK, LeftRight
    <2>2. TypeOK'
      BY <1>1 DEF RulesDone, SaveFails, Goto, request, Inv, TypeOK, Stages
    <2>3. StoredRight'
      BY <1>1 DEF RulesDone, SaveFails, Inv, StoredRight
    <2>4. InHandRight' /\ NoUnknownVary'
      BY <1>1, OthersRight DEF RulesDone, SaveFails, Goto, request, Inv, TypeOK, InHandRight
    <2> QED
      BY <2>1, <2>2, <2>3, <2>4 DEF Inv
  <1>2. CASE SavePlan(p)
    <2>1. /\ plan[p] \in Plan /\ query[p] \in Queries /\ config[p] \in Configs
          /\ plan[p].rulesHash = RulesHash(config[p]) /\ plan[p].variesHash = VariesHash(config[p])
          /\ Says(plan[p], Visited(query[p], config[p], {}))
      BY <1>2 DEF SavePlan, Inv, TypeOK, InHandRight
    <2>2. TypeOK'
      BY <1>2, <2>1 DEF SavePlan, Goto, request, Inv, TypeOK, Stages
    <2>3. LeftRight'
      BY <1>2 DEF SavePlan, Goto, Inv, TypeOK, LeftRight
    <2>4. ASSUME NEW q \in Queries, NEW c \in Configs, Current(plans'[q], c)
          PROVE  Says(plans'[q], Visited(q, c, {}))
      <3>1. CASE q = query[p]
        <4>1. plans'[q] = plan[p] /\ Rules[c] = Rules[config[p]]
          BY <1>2, <2>1, <2>4, <3>1 DEF SavePlan, Current, RulesHash, Inv, TypeOK
        <4>2. Visited(q, c, {}) = Visited(q, config[p], {})
          BY <4>1 DEF Visited, Matching
        <4> QED
          BY <2>1, <3>1, <4>1, <4>2
      <3>2. CASE q # query[p]
        <4>1. plans'[q] = plans[q]
          BY <1>2, <3>2 DEF SavePlan, Inv, TypeOK
        <4> QED
          BY <2>4, <4>1 DEF Inv, StoredRight
      <3> QED
        BY <3>1, <3>2
    <2>5. InHandRight' /\ NoUnknownVary'
      BY <1>2, <2>1, OthersRight DEF SavePlan, Goto, request, Inv, TypeOK
    <2> QED
      BY <2>2, <2>3, <2>4, <2>5 DEF Inv, StoredRight
  <1> QED
    BY <1>1, <1>2

LEMMA KeyKeeps ==
    ASSUME Inv, NEW p \in Procs, CalcKey(p)
    PROVE  Inv'
  <1>1. /\ plan[p] \in Plan /\ query[p] \in Queries /\ config[p] \in Configs /\ pc[p] = "key"
        /\ Says(plan[p], Visited(query[p], config[p], {}))
    BY DEF CalcKey, Inv, TypeOK, InHandRight
  <1>2. ToSet(plan[p].varyNames) \subseteq DOMAIN Varies[config[p]]
    BY <1>1, SaysKnown
  <1>3. pc' = [pc EXCEPT ![p] = "planned"] /\ UNCHANGED <<plans, query, config, sent, left, plan>>
    BY <1>2 DEF CalcKey, Goto, request
  <1>4. TypeOK' /\ LeftRight'
    BY <1>1, <1>3 DEF Inv, TypeOK, LeftRight, Stages
  <1>5. StoredRight'
    BY <1>3 DEF Inv, StoredRight
  <1>6. InHandRight' /\ NoUnknownVary'
    BY <1>1, <1>3, OthersRight DEF Inv, TypeOK, InHandRight
  <1> QED
    BY <1>4, <1>5, <1>6 DEF Inv

\* Requests come and go, and the store drops plans.
LEMMA OthersKeep ==
    ASSUME Inv,
           \/ \E p \in Procs : Leave(p)
           \/ \E p \in Procs, q \in Queries, c \in Configs,
                 values \in Sendable : Arrive(p, q, c, values)
           \/ \E q \in Queries : Drop(q)
           \/ UNCHANGED vars
    PROVE  Inv'
  <1>1. CASE \E p \in Procs : Leave(p)
    <2>1. PICK p \in Procs : Leave(p)
      BY <1>1
    <2>2. (CHOOSE q \in Queries : TRUE) \in Queries /\ (CHOOSE c \in Configs : TRUE) \in Configs
      BY DEF Inv, TypeOK
    <2>3. TypeOK'
      BY <2>1, <2>2 DEF Leave, Goto, Idle, Inputs, Sendable, Inv, TypeOK, LeftRight, Stages
    <2>4. LeftRight'
      BY <2>1 DEF Leave, Goto, Inv, TypeOK, LeftRight
    <2>5. StoredRight'
      BY <2>1 DEF Leave, Inv, StoredRight
    <2>6. InHandRight' /\ NoUnknownVary'
      BY <2>1, OthersRight DEF Leave, Goto, Inv, TypeOK
    <2> QED
      BY <2>3, <2>4, <2>5, <2>6 DEF Inv
  <1>2. ASSUME NEW p \in Procs, NEW q \in Queries, NEW c \in Configs,
               NEW values \in Sendable, Arrive(p, q, c, values)
        PROVE  Inv'
    <2>1. TypeOK'
      <3>1. \A o \in Procs : left'[o] \subseteq DOMAIN Rules[config'[o]]
        BY <1>2 DEF Arrive, Inv, TypeOK, LeftRight
      <3> QED
        BY <1>2, <3>1 DEF Arrive, Goto, Inv, TypeOK, Stages
    <2>2. LeftRight'
      BY <1>2 DEF Arrive, Goto, Inv, TypeOK, LeftRight
    <2>3. StoredRight'
      BY <1>2 DEF Arrive, Inv, StoredRight
    <2>4. InHandRight' /\ NoUnknownVary'
      BY <1>2, OthersRight DEF Arrive, Goto, Inv, TypeOK
    <2> QED
      BY <2>1, <2>2, <2>3, <2>4 DEF Inv
  <1>3. CASE \E q \in Queries : Drop(q)
    <2>1. PICK q \in Queries : Drop(q)
      BY <1>3
    <2>2. TypeOK'
      BY <2>1 DEF Drop, request, Inv, TypeOK
    <2>3. LeftRight'
      BY <2>1 DEF Drop, Inv, LeftRight
    <2>4. \A x \in Queries : plans'[x] \in {plans[x], NoPlan}
      BY <2>1 DEF Drop, Inv, TypeOK
    <2>5. StoredRight'
      BY <2>4 DEF Inv, StoredRight, Current
    <2>6. InHandRight' /\ NoUnknownVary'
      BY <2>1 DEF Drop, request, Inv, InHandRight, NoUnknownVary
    <2> QED
      BY <2>2, <2>3, <2>5, <2>6 DEF Inv
  <1>4. CASE UNCHANGED vars
    <2>1. TypeOK'
      BY <1>4 DEF vars, request, Inv, TypeOK
    <2>2. LeftRight' /\ StoredRight' /\ InHandRight' /\ NoUnknownVary'
      BY <1>4 DEF vars, request, Inv, LeftRight, StoredRight, InHandRight, NoUnknownVary
    <2> QED
      BY <2>1, <2>2 DEF Inv
  <1> QED
    BY <1>1, <1>2, <1>3, <1>4

LEMMA StepKeeps == Inv /\ [Next]_vars => Inv'
  BY GetKeeps, VisitKeeps, SaveKeeps, KeyKeeps, OthersKeep DEF Next, Step

-----------------------------------------------------------------------------
\* The invariant from which the others follow.
THEOREM InvariantHolds == Spec => []Inv
  BY InitHolds, StepKeeps, PTL DEF Spec

\* Whoever saves a plan or calculates a key has a plan (getPlan).
THEOREM TypeCorrect == Spec => []TypeOK
  <1>1. Inv => TypeOK
    BY DEF Inv
  <1> QED
    BY <1>1, InvariantHolds, PTL

\* However many rules match and in whatever order they are visited, and whoever
\* stored the plan, it says what the instance's rules say (computePlan).
THEOREM PlansFollow == Spec => []PlanFollowsRules
  <1>1. Inv => PlanFollowsRules
    BY SaysFollows DEF Inv, TypeOK, InHandRight, PlanFollowsRules
  <1> QED
    BY <1>1, InvariantHolds, PTL

\* No request fails for a vary of another configuration (getCached).
THEOREM VariesKnown == Spec => []NoUnknownVary
  <1>1. Inv => NoUnknownVary
    BY DEF Inv
  <1> QED
    BY <1>1, InvariantHolds, PTL

-----------------------------------------------------------------------------
\* The marks differ, and the heads are two of them.
LEMMA MarksDiffer ==
    /\ Semicolon \notin Heads /\ Equals \notin Heads /\ Equals # Semicolon
    /\ HeaderHead # CookieHead /\ HeaderHead \in Heads /\ CookieHead \in Heads
    /\ Semicolon \in Marks /\ Equals \in Marks /\ Heads \subseteq Marks
  BY DEF HeaderHead, CookieHead, Equals, Semicolon, Heads, Marks

\* The positions of two sequences, one after the other.
LEMMA ConcatPositions ==
    ASSUME NEW S, NEW s \in Seq(S), NEW t \in Seq(S)
    PROVE  /\ s \o t \in Seq(S) /\ Len(s \o t) = Len(s) + Len(t)
           /\ Len(s) \in Nat /\ Len(t) \in Nat
           /\ \A k \in 1..Len(s) : (s \o t)[k] = s[k]
           /\ \A k \in 1..Len(t) : (s \o t)[k + Len(s)] = t[k]
  <1>1. ASSUME NEW k \in 1..Len(s)
        PROVE  (s \o t)[k] = s[k]
    OBVIOUS
  <1>2. ASSUME NEW k \in 1..Len(t)
        PROVE  (s \o t)[k + Len(s)] = t[k]
    OBVIOUS
  <1> QED
    BY <1>1, <1>2

\* The texts that a head, a name and a mark begin.
LEMMA FrontPositions ==
    ASSUME NEW S, NEW a \in S, NEW b \in S, NEW c \in S, NEW t \in Seq(S),
           NEW x, x = <<a, b, c>> \o t
    PROVE  /\ x \in Seq(S) /\ Len(x) = Len(t) + 3 /\ Len(t) \in Nat
           /\ x[1] = a /\ x[2] = b /\ x[3] = c
           /\ \A k \in 1..Len(t) : x[k + 3] = t[k]
  <1>1. PICK front \in Seq(S) : front = <<a, b, c>>
    <2>1. <<a, b, c>> \in Seq(S)
      OBVIOUS
    <2> QED
      BY <2>1
  <1>2. Len(front) = 3 /\ front[1] = a /\ front[2] = b /\ front[3] = c
    BY <1>1
  <1>3. /\ front \o t \in Seq(S) /\ Len(front \o t) = Len(front) + Len(t) /\ Len(t) \in Nat
        /\ \A k \in 1..Len(front) : (front \o t)[k] = front[k]
        /\ \A k \in 1..Len(t) : (front \o t)[k + Len(front)] = t[k]
    BY ConcatPositions
  <1>4. x = front \o t
    BY <1>1
  <1>5. x[1] = a /\ x[2] = b /\ x[3] = c
    BY <1>2, <1>3, <1>4
  <1> QED
    BY <1>2, <1>3, <1>4, <1>5

\* A text with one token after it.
LEMMA BackPositions ==
    ASSUME NEW S, NEW t \in Seq(S), NEW z \in S
    PROVE  LET x == t \o <<z>>
           IN  /\ x \in Seq(S) /\ Len(x) = Len(t) + 1 /\ Len(t) \in Nat
               /\ x[Len(t) + 1] = z
               /\ \A k \in 1..Len(t) : x[k] = t[k]
  BY ConcatPositions

\* What is hashed of a header: its name, its text and the marks around them.
LEMMA HeaderPart ==
    ASSUME NEW i \in Headers, NEW v \in Values \cup {Missing}
    PROVE  LET text == Read(i, v)
               part == Part(i, v)
           IN  /\ text \in Seq(Tokens) /\ part \in Seq(Letters) /\ Len(part) = Len(text) + 4
               /\ part[1] = HeaderHead /\ part[2] = i /\ part[3] = Equals /\ part[Len(part)] = Semicolon
               /\ \A k \in 1..Len(text) : part[k + 3] = text[k]
  <1> DEFINE text == Read(i, v)
             rest == text \o <<Semicolon>>
             x == <<HeaderHead, i, Equals>> \o rest
  <1>1. text \in Seq(Tokens)
    BY ValueAssumption DEF Read
  <1>2. HeaderHead \in Letters /\ i \in Letters /\ Equals \in Letters /\ Semicolon \in Letters
    BY DEF Letters, Marks, Heads, Inputs
  <1>3. text \in Seq(Letters)
    BY <1>1 DEF Letters
  <1>4. Part(i, v) = x
    <2>1. Part(i, v) = <<HeaderHead, i, Equals>> \o text \o <<Semicolon>>
      BY DEF Part
    <2> HIDE DEF text
    <2> QED
      BY <1>2, <1>3, <2>1
  <1> HIDE DEF text
  <1>5. /\ rest \in Seq(Letters) /\ Len(rest) = Len(text) + 1 /\ Len(text) \in Nat
        /\ rest[Len(text) + 1] = Semicolon /\ \A k \in 1..Len(text) : rest[k] = text[k]
    BY <1>2, <1>3, BackPositions
  <1> HIDE DEF rest
  <1>6. /\ x \in Seq(Letters) /\ Len(x) = Len(rest) + 3 /\ x[1] = HeaderHead /\ x[2] = i /\ x[3] = Equals
        /\ \A k \in 1..Len(rest) : x[k + 3] = rest[k]
    <2>1. x = <<HeaderHead, i, Equals>> \o rest
      OBVIOUS
    <2> HIDE DEF x
    <2> QED
      BY <1>2, <1>5, <2>1, FrontPositions
  <1> HIDE DEF x
  <1>7. Len(x) = Len(text) + 4 /\ x[Len(x)] = Semicolon /\ \A k \in 1..Len(text) : x[k + 3] = text[k]
    <2>1. Len(text) + 1 \in 1..Len(rest) /\ (Len(text) + 1) + 3 = Len(x)
      BY <1>5, <1>6
    <2>2. x[Len(x)] = Semicolon
      BY <1>5, <1>6, <2>1
    <2>3. ASSUME NEW k \in 1..Len(text)
          PROVE  x[k + 3] = text[k]
      BY <1>5, <1>6
    <2> QED
      BY <1>5, <1>6, <2>2, <2>3
  <1> QED
    BY <1>1, <1>4, <1>6, <1>7 DEF text

\* What is hashed of a cookie that was sent: its name, and its value twice.
LEMMA CookiePart ==
    ASSUME NEW i \in Cookies, NEW v \in Values
    PROVE  LET part == Part(i, v)
           IN  /\ v \in Seq(Tokens) /\ part \in Seq(Letters) /\ Len(part) = Len(v) + Len(v) + 5
               /\ part[1] = CookieHead /\ part[2] = i /\ part[3] = Equals /\ part[Len(part)] = Semicolon
               /\ part[Len(v) + 4] = Equals
               /\ \A k \in 1..Len(v) : part[k + 3] = v[k] /\ part[k + Len(v) + 4] = v[k]
  <1> DEFINE last == v \o <<Semicolon>>
             twice == v \o (<<Equals>> \o last)
             x == <<CookieHead, i, Equals>> \o twice
  <1>1. v \in Seq(Tokens)
    BY ValueAssumption
  <1>2. CookieHead \in Letters /\ i \in Letters /\ Equals \in Letters /\ Semicolon \in Letters
    BY DEF Letters, Marks, Heads, Inputs
  <1>3. v \in Seq(Letters)
    BY <1>1 DEF Letters
  <1>4. Part(i, v) = x
    <2>1. Part(i, v) = <<CookieHead, i, Equals>> \o v \o <<Equals>> \o v \o <<Semicolon>>
      BY DistinctAssumption DEF Part
    <2> QED
      BY <1>2, <1>3, <2>1
  <1>5. /\ last \in Seq(Letters) /\ Len(last) = Len(v) + 1 /\ Len(v) \in Nat
        /\ last[Len(v) + 1] = Semicolon /\ \A k \in 1..Len(v) : last[k] = v[k]
    BY <1>2, <1>3, BackPositions
  <1> HIDE DEF last
  <1> DEFINE rest == <<Equals>> \o last
  <1>6. /\ rest \in Seq(Letters) /\ Len(rest) = Len(last) + 1 /\ rest[1] = Equals
        /\ \A k \in 1..Len(last) : rest[k + 1] = last[k]
    <2>1. <<Equals>> \in Seq(Letters) /\ Len(<<Equals>>) = 1
      BY <1>2
    <2> QED
      BY <1>5, <2>1, ConcatPositions
  <1> HIDE DEF rest
  <1>7. /\ v \o rest \in Seq(Letters) /\ Len(v \o rest) = Len(v) + Len(rest)
        /\ \A k \in 1..Len(v) : (v \o rest)[k] = v[k]
        /\ \A k \in 1..Len(rest) : (v \o rest)[k + Len(v)] = rest[k]
    <2>1. PICK s \in Seq(Letters), t \in Seq(Letters) : s = v /\ t = rest
      BY <1>3, <1>6
    <2>2. /\ s \o t \in Seq(Letters) /\ Len(s \o t) = Len(s) + Len(t)
          /\ \A k \in 1..Len(s) : (s \o t)[k] = s[k]
          /\ \A k \in 1..Len(t) : (s \o t)[k + Len(s)] = t[k]
      BY ConcatPositions
    <2> QED
      BY <2>1, <2>2, Zenon
  <1>8. twice = v \o rest
    BY DEF rest
  <1> HIDE DEF twice
  <1>9. /\ x \in Seq(Letters) /\ Len(x) = Len(twice) + 3 /\ x[1] = CookieHead /\ x[2] = i /\ x[3] = Equals
        /\ \A k \in 1..Len(twice) : x[k + 3] = twice[k]
    <2>1. x = <<CookieHead, i, Equals>> \o twice /\ twice \in Seq(Letters)
      BY <1>7, <1>8
    <2> HIDE DEF x
    <2> QED
      BY <1>2, <2>1, FrontPositions
  <1> HIDE DEF x
  <1>10. Len(x) = Len(v) + Len(v) + 5
    BY <1>5, <1>6, <1>7, <1>8, <1>9
  <1>11. ASSUME NEW k \in 1..Len(v)
         PROVE  x[k + 3] = v[k]
    BY <1>5, <1>6, <1>7, <1>8, <1>9
  <1>12. ASSUME NEW k \in 1..Len(rest)
         PROVE  x[k + Len(v) + 3] = rest[k]
    <2>1. k + Len(v) \in 1..Len(twice) /\ twice[k + Len(v)] = rest[k]
      BY <1>5, <1>6, <1>7, <1>8
    <2> QED
      BY <1>5, <1>9, <2>1
  <1>13. x[Len(v) + 4] = Equals
    <2>1. 1 \in 1..Len(rest) /\ 1 + Len(v) + 3 = Len(v) + 4
      BY <1>5, <1>6
    <2> QED
      BY <1>6, <1>12, <2>1
  <1>14. ASSUME NEW k \in 1..Len(last)
         PROVE  x[k + Len(v) + 4] = last[k]
    <2>1. k + 1 \in 1..Len(rest) /\ (k + 1) + Len(v) + 3 = k + Len(v) + 4
      BY <1>5, <1>6
    <2> QED
      BY <1>6, <1>12, <2>1
  <1>15. x[Len(x)] = Semicolon
    <2>1. Len(v) + 1 \in 1..Len(last) /\ (Len(v) + 1) + Len(v) + 4 = Len(x)
      BY <1>5, <1>10
    <2> QED
      BY <1>5, <1>14, <2>1
  <1>16. ASSUME NEW k \in 1..Len(v)
         PROVE  x[k + Len(v) + 4] = v[k]
    BY <1>5, <1>14
  <1> QED
    BY <1>1, <1>4, <1>9, <1>10, <1>11, <1>13, <1>15, <1>16

\* What is hashed of an input that is sent with plain text is a part.
LEMMA PartIsPart ==
    ASSUME NEW values \in Sendable, NEW i \in Inputs, i \in Headers => Uncut(Read(i, values[i]))
    PROVE  Part(i, values[i]) \in AllParts
  <1> DEFINE v == values[i]
             x == Part(i, v)
  <1>1. v \in Values \cup {Missing} /\ i \notin Marks
    BY DistinctAssumption DEF Sendable
  <1>2. CASE i \in Headers
    <2> DEFINE text == Read(i, v)
    <2>1. /\ text \in Seq(Tokens) /\ x \in Seq(Letters) /\ Len(x) = Len(text) + 4
          /\ x[1] = HeaderHead /\ x[2] = i /\ x[3] = Equals /\ x[Len(x)] = Semicolon
          /\ \A k \in 1..Len(text) : x[k + 3] = text[k]
      BY <1>1, <1>2, HeaderPart
    <2>2. Uncut(text)
      BY <1>2
    <2> HIDE DEF text, x, v
    <2>6. Len(text) \in Nat /\ Len(x) \in Nat
      BY <2>1
    <2>3. ASSUME NEW k \in 1..(Len(x) - 1), x[k] = Semicolon, x[k + 1] \in Heads
          PROVE  FALSE
      <3>1. k \notin {1, 2, 3}
        BY <1>1, <2>1, <2>3, MarksDiffer
      <3>2. k # Len(text) + 3
        <4>1. Semicolon \notin Heads
          BY MarksDiffer
        <4>2. k = Len(text) + 3 => k + 1 = Len(x)
          BY <2>1, <2>6
        <4> QED
          BY <2>1, <2>3, <4>1, <4>2
      <3>3. PICK j \in 1..(Len(text) - 1) : k = j + 3
        <4>1. k - 3 \in 1..(Len(text) - 1) /\ k = (k - 3) + 3
          BY <2>1, <2>6, <3>1, <3>2
        <4> QED
          BY <4>1
      <3>4. x[k] = text[j] /\ x[k + 1] = text[j + 1]
        <4>1. j \in 1..Len(text) /\ j + 1 \in 1..Len(text) /\ k + 1 = (j + 1) + 3
          BY <2>6, <3>3
        <4> QED
          BY <2>1, <3>3, <4>1
      <3> QED
        BY <2>2, <2>3, <3>4 DEF Uncut
    <2>4. Uncut(x)
      BY <2>3 DEF Uncut
    <2>5. x \in AllParts
      <3>1. x[1] \in Heads /\ Len(x) > 0
        BY <2>1, <2>6, MarksDiffer
      <3> QED
        BY <2>1, <2>4, <3>1 DEF AllParts
    <2> QED
      BY <2>5 DEF x, v
  <1>3. CASE i \in Cookies /\ v # Missing
    <2>1. v \in Values /\ \A k \in 1..Len(v) : v[k] # Semicolon
      <3>1. v \in Values /\ v \in Seq(Tokens) /\ Semicolon \notin ToSet(v)
        BY <1>1, <1>3, ValueAssumption DEF Sendable
      <3> HIDE DEF v
      <3>2. ASSUME NEW k \in 1..Len(v)
            PROVE  v[k] \in ToSet(v)
        BY <3>1 DEF ToSet
      <3> QED
        BY <3>1, <3>2
    <2>2. /\ v \in Seq(Tokens) /\ x \in Seq(Letters) /\ Len(x) = Len(v) + Len(v) + 5
          /\ x[1] = CookieHead /\ x[2] = i /\ x[3] = Equals /\ x[Len(x)] = Semicolon
          /\ x[Len(v) + 4] = Equals
          /\ \A k \in 1..Len(v) : x[k + 3] = v[k] /\ x[k + Len(v) + 4] = v[k]
      BY <1>3, <2>1, CookiePart
    <2> HIDE DEF x, v
    <2>6. Len(v) \in Nat /\ Len(x) \in Nat
      BY <2>2
    <2>3. ASSUME NEW k \in 1..(Len(x) - 1), x[k] = Semicolon
          PROVE  FALSE
      <3>1. k \notin {1, 2, 3} /\ k # Len(v) + 4
        BY <1>1, <2>2, <2>3, MarksDiffer
      <3>2. \/ \E j \in 1..Len(v) : k = j + 3
            \/ \E j \in 1..Len(v) : k = j + Len(v) + 4
        <4>1. k - 3 \in 1..Len(v) \/ k - (Len(v) + 4) \in 1..Len(v)
          BY <2>2, <2>6, <3>1
        <4>2. k = (k - 3) + 3 /\ k = (k - (Len(v) + 4)) + Len(v) + 4
          BY <2>6
        <4> QED
          BY <4>1, <4>2
      <3> QED
        BY <2>1, <2>2, <2>3, <3>2
    <2>4. Uncut(x)
      BY <2>3 DEF Uncut
    <2>5. x \in AllParts
      <3>1. x[1] \in Heads /\ Len(x) > 0
        BY <2>2, <2>6, MarksDiffer
      <3> QED
        BY <2>2, <2>4, <3>1 DEF AllParts
    <2> QED
      BY <2>5 DEF x, v
  <1>4. CASE i \in Cookies /\ v = Missing
    <2>1. x = <<CookieHead, Equals, Semicolon>>
      BY <1>4, DistinctAssumption DEF Part
    <2> HIDE DEF x
    <2>3. /\ x \in Seq(Letters) /\ Len(x) = 3
          /\ x[1] = CookieHead /\ x[2] = Equals /\ x[3] = Semicolon
      BY <2>1 DEF Letters, Marks, Heads
    <2>4. Uncut(x)
      <3>1. ASSUME NEW k \in 1..2
            PROVE  x[k] # Semicolon
        BY <2>3, MarksDiffer
      <3> QED
        BY <2>3, <3>1 DEF Uncut
    <2>2. x \in AllParts
      <3>1. Len(x) > 0 /\ x[1] \in Heads /\ x[Len(x)] = Semicolon
        BY <2>3, MarksDiffer
      <3> QED
        BY <2>3, <2>4, <3>1 DEF AllParts
    <2> QED
      BY <2>2 DEF x
  <1> QED
    BY <1>2, <1>3, <1>4 DEF Inputs

\* Two texts with the same tokens are one.
LEMMA SameText ==
    ASSUME NEW S, NEW s \in Seq(S), NEW t \in Seq(S), Len(s) = Len(t),
           \A k \in 1..Len(s) : s[k] = t[k]
    PROVE  s = t
  <1>1. DOMAIN s = 1..Len(s) /\ DOMAIN t = 1..Len(t)
    OBVIOUS
  <1> QED
    BY <1>1

\* The same part comes of the same input, and of the same text read of it.
LEMMA SamePart ==
    ASSUME NEW i \in Inputs, NEW j \in Inputs,
           NEW v \in Values \cup {Missing}, NEW w \in Values \cup {Missing},
           Part(i, v) = Part(j, w), ~(i \in Cookies /\ v = Missing)
    PROVE  i = j /\ Read(i, v) = Read(j, w)
  <1> DEFINE missing == <<CookieHead, Equals, Semicolon>>
  <1>1. ASSUME NEW k \in Cookies
        PROVE  Part(k, Missing) = missing /\ missing[1] = CookieHead /\ missing[2] = Equals
    BY DistinctAssumption DEF Part
  <1>2. i # Equals /\ j # Equals
    BY DistinctAssumption DEF Marks
  <1>3. CASE i \in Headers
    <2> DEFINE a == Read(i, v)
               b == Read(j, w)
               x == Part(i, v)
    <2>1. /\ a \in Seq(Tokens) /\ Len(x) = Len(a) + 4 /\ x[1] = HeaderHead /\ x[2] = i
          /\ \A k \in 1..Len(a) : x[k + 3] = a[k]
      BY <1>3, HeaderPart
    <2>2. j \in Headers
      <3>1. ASSUME j \in Cookies
            PROVE  FALSE
        <4>1. CASE w = Missing
          BY <1>1, <2>1, <3>1, <4>1, MarksDiffer
        <4>2. CASE w # Missing
          <5>1. Part(j, w)[1] = CookieHead
            BY <3>1, <4>2, CookiePart
          <5> QED
            BY <2>1, <5>1, MarksDiffer
        <4> QED
          BY <4>1, <4>2
      <3> QED
        BY <3>1 DEF Inputs
    <2>3. /\ b \in Seq(Tokens) /\ Len(x) = Len(b) + 4 /\ x[2] = j
          /\ \A k \in 1..Len(b) : x[k + 3] = b[k]
      BY <2>2, HeaderPart
    <2> HIDE DEF a, b, x
    <2>4. a = b
      <3>1. Len(a) = Len(b) /\ \A k \in 1..Len(a) : a[k] = b[k]
        BY <2>1, <2>3
      <3> QED
        BY <2>1, <2>3, <3>1, SameText
    <2> QED
      BY <2>1, <2>3, <2>4 DEF a, b
  <1>4. CASE i \in Cookies /\ v # Missing
    <2> DEFINE x == Part(i, v)
    <2>1. /\ v \in Seq(Tokens) /\ Len(x) = Len(v) + Len(v) + 5 /\ x[1] = CookieHead /\ x[2] = i
          /\ \A k \in 1..Len(v) : x[k + 3] = v[k]
      BY <1>4, CookiePart
    <2>2. j \in Cookies
      <3>1. ASSUME j \in Headers
            PROVE  FALSE
        <4>1. Part(j, w)[1] = HeaderHead
          BY <3>1, HeaderPart
        <4> QED
          BY <2>1, <4>1, MarksDiffer
      <3> QED
        BY <3>1 DEF Inputs
    <2>3. w # Missing
      BY <1>1, <1>2, <2>1, <2>2
    <2>4. /\ w \in Seq(Tokens) /\ Len(x) = Len(w) + Len(w) + 5 /\ x[2] = j
          /\ \A k \in 1..Len(w) : x[k + 3] = w[k]
      BY <2>2, <2>3, CookiePart
    <2> HIDE DEF x
    <2>5. v = w
      <3>1. Len(v) \in Nat /\ Len(w) \in Nat
        BY <2>1, <2>4
      <3>2. Len(v) = Len(w)
        BY <2>1, <2>4, <3>1
      <3>3. \A k \in 1..Len(v) : v[k] = w[k]
        BY <2>1, <2>4, <3>2
      <3> QED
        BY <2>1, <2>4, <3>2, <3>3, SameText
    <2> QED
      BY <2>1, <2>4, <2>5
  <1> QED
    BY <1>3, <1>4 DEF Inputs

\* What FlattenSeq's recursive function says.
Flat(f, seqs) ==
    f = [i \in 1..Len(seqs) |-> IF i = 1 THEN seqs[i] ELSE f[i-1] \o seqs[i]]

\* The function's values are the beginnings of the last one.
LEMMA FlatBegins ==
    ASSUME NEW S, NEW n \in Nat \ {0}, NEW ps \in Seq(Seq(S)), Len(ps) = n, NEW f, Flat(f, ps)
    PROVE  /\ \A k \in 1..n : f[k] \in Seq(S)
           /\ \A k \in 1..n : Len(f[k]) <= Len(f[n]) /\ \A i \in 1..Len(f[k]) : f[n][i] = f[k][i]
  <1>1. \A k \in 1..n : f[k] = IF k = 1 THEN ps[k] ELSE f[k-1] \o ps[k]
    BY DEF Flat
  <1>2. \A k \in 1..n : ps[k] \in Seq(S)
    OBVIOUS
  <1> DEFINE Typed == {k \in Nat : k + 1 <= n => f[k + 1] \in Seq(S)}
  <1>3. Typed = Nat
    <2>1. 0 \in Typed
      BY <1>1, <1>2
    <2>2. ASSUME NEW k \in Typed
          PROVE  k + 1 \in Typed
      <3> SUFFICES ASSUME (k + 1) + 1 <= n
                   PROVE  f[(k + 1) + 1] \in Seq(S)
        OBVIOUS
      <3> DEFINE m == k + 1
      <3>1. m \in 1..n /\ m + 1 \in 1..n /\ m + 1 # 1 /\ (m + 1) - 1 = m /\ f[m] \in Seq(S)
        OBVIOUS
      <3>2. f[m + 1] = f[m] \o ps[m + 1] /\ ps[m + 1] \in Seq(S)
        BY <1>1, <1>2, <3>1
      <3> HIDE DEF m
      <3>3. f[m + 1] \in Seq(S)
        BY <3>1, <3>2
      <3> QED
        BY <3>3 DEF m
    <2> HIDE DEF Typed
    <2> QED
      BY <2>1, <2>2, FromZero DEF Typed
  <1>4. \A k \in 1..n : f[k] \in Seq(S)
    <2>1. ASSUME NEW k \in 1..n
          PROVE  f[k] \in Seq(S)
      <3>1. k - 1 \in Nat /\ (k - 1) + 1 = k
        OBVIOUS
      <3>2. ASSUME NEW j \in Nat, j + 1 <= n
            PROVE  f[j + 1] \in Seq(S)
        BY <1>3, <3>2
      <3>3. PICK j \in Nat : j = k - 1 /\ j + 1 = k /\ j + 1 <= n
        BY <3>1
      <3> QED
        BY <3>2, <3>3
    <2> QED
      BY <2>1
  <1> HIDE DEF Typed
  <1> DEFINE Begins(k, m) == Len(f[k]) <= Len(f[m]) /\ \A i \in 1..Len(f[k]) : f[m][i] = f[k][i]
  <1>5. ASSUME NEW k \in 1..n
        PROVE  Begins(k, n)
    <2> DEFINE T == {j \in Nat : k + j <= n => Begins(k, k + j)}
    <2>1. 0 \in T
      <3>1. k + 0 = k /\ Len(f[k]) \in Nat
        BY <1>4
      <3> QED
        BY <3>1
    <2>2. ASSUME NEW j \in T
          PROVE  j + 1 \in T
      <3> SUFFICES ASSUME k + (j + 1) <= n
                   PROVE  Begins(k, k + (j + 1))
        OBVIOUS
      <3> DEFINE m == k + j
      <3>1. /\ m \in 1..n /\ m + 1 \in 1..n /\ m + 1 # 1 /\ (m + 1) - 1 = m
            /\ k + (j + 1) = m + 1
        OBVIOUS
      <3>2. Begins(k, m)
        BY <3>1
      <3> HIDE DEF m, T
      <3>3. /\ f[m + 1] = f[m] \o ps[m + 1] /\ ps[m + 1] \in Seq(S)
            /\ f[m] \in Seq(S) /\ f[k] \in Seq(S)
        BY <1>1, <1>2, <1>4, <3>1
      <3>4. /\ Len(f[m + 1]) = Len(f[m]) + Len(ps[m + 1]) /\ Len(ps[m + 1]) \in Nat /\ Len(f[m]) \in Nat
            /\ \A i \in 1..Len(f[m]) : f[m + 1][i] = f[m][i]
        <4>1. PICK s \in Seq(S), t \in Seq(S) : s = f[m] /\ t = ps[m + 1]
          BY <3>3
        <4>2. /\ Len(s \o t) = Len(s) + Len(t) /\ Len(s) \in Nat /\ Len(t) \in Nat
              /\ \A i \in 1..Len(s) : (s \o t)[i] = s[i]
          BY ConcatPositions
        <4> QED
          BY <3>3, <4>1, <4>2, Zenon
      <3>5. Len(f[k]) \in Nat
        BY <3>3
      <3>6. Begins(k, m + 1)
        <4>1. Len(f[k]) <= Len(f[m + 1])
          <5>1. \A x, y, z \in Nat : x <= y => x <= y + z
            OBVIOUS
          <5> QED
            BY <3>2, <3>4, <3>5, <5>1
        <4>2. ASSUME NEW i \in 1..Len(f[k])
              PROVE  f[m + 1][i] = f[k][i]
          <5>1. i \in 1..Len(f[m])
            BY <3>2, <3>4, <3>5
          <5> QED
            BY <3>2, <3>4, <5>1
        <4> QED
          BY <4>1, <4>2
      <3> QED
        BY <3>1, <3>6
    <2>3. T = Nat
      <3> HIDE DEF T
      <3> QED
        BY <2>1, <2>2, FromZero DEF T
    <2>4. n - k \in T /\ k + (n - k) = n
      BY <2>3
    <2> QED
      BY <2>4
  <1> QED
    BY <1>4, <1>5

\* Of two parts that a text has at the same place, the first does not end inside
\* the second: another part, or nothing, follows it.
LEMMA NoShorter ==
    ASSUME NEW text \in Seq(Letters), NEW b \in Nat, NEW x \in AllParts, NEW y \in AllParts,
           \A i \in 1..Len(x) : text[b + i] = x[i],
           \A i \in 1..Len(y) : text[b + i] = y[i],
           b + Len(y) <= Len(text),
           b + Len(x) < Len(text) => text[b + Len(x) + 1] \in Heads
    PROVE  Len(y) <= Len(x)
  <1> SUFFICES ASSUME Len(x) < Len(y)
               PROVE  FALSE
    BY DEF AllParts
  <1>1. /\ Len(x) \in Nat /\ Len(y) \in Nat /\ Len(text) \in Nat /\ Len(x) > 0
        /\ x[Len(x)] = Semicolon /\ Uncut(y)
    BY DEF AllParts
  <1>2. Len(x) \in 1..(Len(y) - 1) /\ Len(x) \in 1..Len(x) /\ Len(x) \in 1..Len(y)
    BY <1>1
  <1>3. y[Len(x)] = Semicolon
    BY <1>1, <1>2
  <1>4. y[Len(x) + 1] \in Heads
    <2>1. Len(x) + 1 \in 1..Len(y) /\ b + (Len(x) + 1) = b + Len(x) + 1 /\ b + Len(x) < Len(text)
      BY <1>1
    <2> QED
      BY <2>1
  <1> QED
    BY <1>1, <1>2, <1>3, <1>4 DEF Uncut

\* How long the text before the k-th part is.
At(f, k) == IF k = 1 THEN 0 ELSE Len(f[k - 1])

\* Where the k-th part begins, the text of parts has that part, and then another
\* one or nothing.
LEMMA FlatHas ==
    ASSUME NEW n \in Nat \ {0}, NEW ps \in Seq(AllParts), Len(ps) = n, NEW f, Flat(f, ps),
           NEW k \in 1..n, NEW b \in Nat, b = At(f, k)
    PROVE  /\ f[n] \in Seq(Letters)
           /\ \A i \in 1..Len(ps[k]) : f[n][b + i] = ps[k][i]
           /\ b + Len(ps[k]) <= Len(f[n])
           /\ b + Len(ps[k]) < Len(f[n]) => f[n][b + Len(ps[k]) + 1] \in Heads
           /\ Len(f[k]) = b + Len(ps[k])
           /\ k < n => b + Len(ps[k]) < Len(f[n])
           /\ k = n => b + Len(ps[k]) = Len(f[n])
  <1>1. ps \in Seq(Seq(Letters)) /\ \A j \in 1..n : ps[j] \in AllParts /\ ps[j] \in Seq(Letters)
    <2>1. AllParts \subseteq Seq(Letters)
      BY DEF AllParts
    <2> DEFINE P == Seq(Letters)
    <2> HIDE DEF P
    <2>2. AllParts \subseteq P => ps \in Seq(P) /\ \A j \in 1..n : ps[j] \in AllParts /\ ps[j] \in P
      OBVIOUS
    <2> QED
      BY <2>1, <2>2 DEF P
  <1>2. /\ \A j \in 1..n : f[j] \in Seq(Letters)
        /\ \A j \in 1..n : Len(f[j]) <= Len(f[n]) /\ \A i \in 1..Len(f[j]) : f[n][i] = f[j][i]
    BY <1>1, FlatBegins
  <1>3. \A j \in 1..n : f[j] = IF j = 1 THEN ps[j] ELSE f[j-1] \o ps[j]
    BY DEF Flat
  <1>4. /\ Len(f[k]) = b + Len(ps[k]) /\ Len(ps[k]) \in Nat
        /\ \A i \in 1..Len(ps[k]) : f[k][b + i] = ps[k][i]
    <2>1. CASE k = 1
      BY <1>1, <1>3, <2>1 DEF At
    <2>2. CASE k # 1
      <3>0. k - 1 \in 1..n
        BY <2>2
      <3>4. PICK s \in Seq(Letters), t \in Seq(Letters) : s = f[k - 1] /\ t = ps[k]
        BY <1>1, <1>2, <3>0
      <3>1. f[k] = s \o t /\ b = Len(s)
        BY <1>3, <2>2, <3>4 DEF At
      <3>2. /\ Len(s \o t) = Len(s) + Len(t) /\ Len(s) \in Nat /\ Len(t) \in Nat
            /\ \A i \in 1..Len(t) : (s \o t)[i + Len(s)] = t[i]
        BY ConcatPositions
      <3>3. ASSUME NEW i \in 1..Len(t)
            PROVE  f[k][b + i] = t[i]
        <4>1. i \in Nat /\ b \in Nat /\ b = Len(s)
          BY <3>1, <3>2
        <4>2. b + i = i + Len(s)
          <5>1. \A y, z \in Nat : y + z = z + y
            OBVIOUS
          <5> QED
            BY <4>1, <5>1
        <4>3. (s \o t)[i + Len(s)] = t[i]
          BY <3>2
        <4> QED
          BY <3>1, <4>2, <4>3, Zenon
      <3> QED
        BY <3>1, <3>2, <3>3, <3>4
    <2> QED
      BY <2>1, <2>2
  <1>5. Len(f[k]) <= Len(f[n]) /\ Len(f[n]) \in Nat
    BY <1>2
  <1>6. ASSUME NEW i \in 1..Len(ps[k])
        PROVE  f[n][b + i] = ps[k][i]
    <2>1. b + i \in 1..Len(f[k])
      BY <1>4
    <2> QED
      BY <1>2, <1>4, <2>1
  <1>7. ASSUME k < n
        PROVE  b + Len(ps[k]) < Len(f[n]) /\ f[n][b + Len(ps[k]) + 1] \in Heads
    <2> DEFINE s == f[k]
               t == ps[k + 1]
    <2>1. k + 1 \in 1..n /\ k + 1 # 1 /\ (k + 1) - 1 = k
      BY <1>7
    <2>2. s \in Seq(Letters) /\ t \in AllParts /\ t \in Seq(Letters) /\ f[k + 1] = s \o t
      BY <1>1, <1>2, <1>3, <2>1
    <2>3. Len(t) > 0 /\ t[1] \in Heads
      BY <2>2 DEF AllParts
    <2> HIDE DEF s, t
    <2>4. /\ Len(s \o t) = Len(s) + Len(t) /\ Len(t) \in Nat /\ Len(s) \in Nat
          /\ \A i \in 1..Len(t) : (s \o t)[i + Len(s)] = t[i]
      BY <2>2, ConcatPositions
    <2>5. Len(s) + 1 \in 1..Len(f[k + 1]) /\ 1 \in 1..Len(t) /\ 1 + Len(s) = Len(s) + 1
      BY <2>2, <2>3, <2>4
    <2>6. f[k + 1][Len(s) + 1] \in Heads
      BY <2>2, <2>3, <2>4, <2>5
    <2>7. f[n][Len(s) + 1] = f[k + 1][Len(s) + 1] /\ Len(f[k + 1]) <= Len(f[n]) /\ Len(f[k + 1]) \in Nat
      BY <1>2, <2>1, <2>5
    <2>8. Len(s) < Len(f[n])
      BY <1>5, <2>4, <2>5, <2>7
    <2>9. Len(s) = b + Len(ps[k])
      BY <1>4 DEF s
    <2> QED
      BY <2>6, <2>7, <2>8, <2>9
  <1>8. k = n => b + Len(ps[k]) = Len(f[n])
    BY <1>4
  <1>9. ~(k < n) => k = n
    OBVIOUS
  <1> QED
    BY <1>2, <1>4, <1>5, <1>6, <1>7, <1>8, <1>9

\* Two texts of parts that are the same are of the same parts.
LEMMA Decode ==
    ASSUME NEW ps \in Seq(AllParts), NEW qs \in Seq(AllParts), FlattenSeq(ps) = FlattenSeq(qs)
    PROVE  ps = qs
  <1> DEFINE n == Len(ps)
             m == Len(qs)
  <1>1. n \in Nat /\ m \in Nat /\ DOMAIN ps = 1..n /\ DOMAIN qs = 1..m
    OBVIOUS
  <1>2. ASSUME NEW rs \in Seq(AllParts), Len(rs) # 0
        PROVE  \E f : Flat(f, rs) /\ FlattenSeq(rs) = f[Len(rs)]
    <2>1. Len(rs) - 1 \in Nat /\ Len(rs) = (Len(rs) - 1) + 1
      BY <1>2
    <2> QED
      BY <2>1, FlattenIs, Zenon DEF Flat
  <1>3. ASSUME NEW rs \in Seq(AllParts)
        PROVE  Len(rs) # 0 <=> Len(FlattenSeq(rs)) # 0
    <2>1. CASE Len(rs) = 0
      <3>1. FlattenSeq(rs) = rs
        BY <2>1 DEF FlattenSeq
      <3> QED
        BY <2>1, <3>1
    <2>2. CASE Len(rs) # 0
      <3>1. PICK f : Flat(f, rs) /\ FlattenSeq(rs) = f[Len(rs)]
        BY <1>2, <2>2
      <3>2. Len(rs) \in Nat \ {0} /\ 1 \in 1..Len(rs) /\ rs[1] \in AllParts
        BY <2>2
      <3>3. 0 + Len(rs[1]) <= Len(f[Len(rs)]) /\ f[Len(rs)] \in Seq(Letters)
        <4>1. At(f, 1) = 0
          BY DEF At
        <4> QED
          BY <3>1, <3>2, <4>1, FlatHas
      <3>4. Len(rs[1]) > 0 /\ Len(rs[1]) \in Nat
        BY <3>2 DEF AllParts
      <3> QED
        BY <2>2, <3>1, <3>3, <3>4
    <2> QED
      BY <2>1, <2>2
  <1>4. CASE n = 0 \/ m = 0
    <2>1. n = 0 /\ m = 0
      BY <1>3, <1>4
    <2> QED
      BY <2>1
  <1>5. CASE n # 0 /\ m # 0
    <2>1. PICK f : Flat(f, ps) /\ FlattenSeq(ps) = f[n]
      BY <1>2, <1>5
    <2>2. PICK g : Flat(g, qs) /\ FlattenSeq(qs) = g[m]
      BY <1>2, <1>5
    <2>3. n \in Nat \ {0} /\ m \in Nat \ {0} /\ Len(ps) = n /\ Len(qs) = m
      BY <1>1, <1>5
    <2> DEFINE text == f[n]
    <2>4. text = g[m]
      BY <2>1, <2>2
    <2>5. \A k \in 1..n : f[k] = IF k = 1 THEN ps[k] ELSE f[k-1] \o ps[k]
      BY <2>1, <2>3 DEF Flat
    <2>6. \A k \in 1..m : g[k] = IF k = 1 THEN qs[k] ELSE g[k-1] \o qs[k]
      BY <2>2, <2>3 DEF Flat
    <2>7. (\A k \in 1..n : ps[k] \in AllParts) /\ (\A k \in 1..m : qs[k] \in AllParts)
      OBVIOUS
    <2>11. \A k \in 1..n : f[k] \in Seq(Letters)
      <3>1. AllParts \subseteq Seq(Letters)
        BY DEF AllParts
      <3>2. ps \in Seq(Seq(Letters))
        BY <3>1
      <3> HIDE DEF n
      <3> QED
        BY <2>1, <2>3, <3>2, FlatBegins
    <2> HIDE DEF n, m, text
    <2>16. ASSUME NEW k \in 1..n, NEW b \in Nat, b = At(f, k)
           PROVE  /\ f[n] \in Seq(Letters)
                  /\ \A i \in 1..Len(ps[k]) : f[n][b + i] = ps[k][i]
                  /\ b + Len(ps[k]) <= Len(f[n])
                  /\ b + Len(ps[k]) < Len(f[n]) => f[n][b + Len(ps[k]) + 1] \in Heads
                  /\ k < n => b + Len(ps[k]) < Len(f[n])
                  /\ k = n => b + Len(ps[k]) = Len(f[n])
      BY SMTT(60), <2>1, <2>3, <2>16, FlatHas
    <2>17. ASSUME NEW k \in 1..m, NEW b \in Nat, b = At(g, k)
           PROVE  /\ g[m] \in Seq(Letters)
                  /\ \A i \in 1..Len(qs[k]) : g[m][b + i] = qs[k][i]
                  /\ b + Len(qs[k]) <= Len(g[m])
                  /\ b + Len(qs[k]) < Len(g[m]) => g[m][b + Len(qs[k]) + 1] \in Heads
                  /\ k < m => b + Len(qs[k]) < Len(g[m])
                  /\ k = m => b + Len(qs[k]) = Len(g[m])
      BY SMTT(60), <2>2, <2>3, <2>17, FlatHas
    \* The step of the induction: the parts before are the same.
    <2>8. ASSUME NEW k \in Nat \ {0}, k <= n, k <= m, k # 1 => f[k - 1] = g[k - 1],
                 NEW b \in Nat, b = At(f, k)
          PROVE  /\ ps[k] = qs[k] /\ f[k] = g[k]
                 /\ k < n <=> k < m
      <3>1. k \in 1..n /\ k \in 1..m /\ b = At(f, k) /\ b = At(g, k)
        BY <2>8 DEF At
      <3>2. PICK x \in AllParts, y \in AllParts : x = ps[k] /\ y = qs[k]
        BY <2>7, <3>1
      <3>3. /\ text \in Seq(Letters)
            /\ \A i \in 1..Len(x) : text[b + i] = x[i]
            /\ b + Len(x) <= Len(text)
            /\ b + Len(x) < Len(text) => text[b + Len(x) + 1] \in Heads
            /\ k < n => b + Len(x) < Len(text)
            /\ k = n => b + Len(x) = Len(text)
        <4>1. /\ f[n] \in Seq(Letters)
              /\ \A i \in 1..Len(ps[k]) : f[n][b + i] = ps[k][i]
              /\ b + Len(ps[k]) <= Len(f[n])
              /\ b + Len(ps[k]) < Len(f[n]) => f[n][b + Len(ps[k]) + 1] \in Heads
              /\ k < n => b + Len(ps[k]) < Len(f[n])
              /\ k = n => b + Len(ps[k]) = Len(f[n])
          BY <2>16, <3>1
        <4> QED
          BY <3>2, <4>1, Zenon DEF text
      <3>4. /\ \A i \in 1..Len(y) : text[b + i] = y[i]
            /\ b + Len(y) <= Len(text)
            /\ b + Len(y) < Len(text) => text[b + Len(y) + 1] \in Heads
            /\ k < m => b + Len(y) < Len(text)
            /\ k = m => b + Len(y) = Len(text)
        <4>1. /\ g[m] \in Seq(Letters)
              /\ \A i \in 1..Len(qs[k]) : g[m][b + i] = qs[k][i]
              /\ b + Len(qs[k]) <= Len(g[m])
              /\ b + Len(qs[k]) < Len(g[m]) => g[m][b + Len(qs[k]) + 1] \in Heads
              /\ k < m => b + Len(qs[k]) < Len(g[m])
              /\ k = m => b + Len(qs[k]) = Len(g[m])
          BY <2>17, <3>1
        <4> QED
          BY <2>4, <3>2, <4>1, Zenon
      <3> HIDE DEF text
      <3>5. Len(y) <= Len(x) /\ Len(x) <= Len(y)
        BY <3>3, <3>4, NoShorter
      <3>6. /\ Len(x) \in Nat /\ Len(y) \in Nat /\ Len(text) \in Nat
            /\ x \in Seq(Letters) /\ y \in Seq(Letters)
        BY <3>3 DEF AllParts
      <3>7. Len(x) = Len(y)
        BY <3>5, <3>6
      <3>8. x = y
        BY <3>3, <3>4, <3>6, <3>7
      <3>9. f[k] = g[k]
        BY <2>5, <2>6, <2>8, <3>1, <3>2, <3>8
      <3>10. k < n <=> k < m
        <4>1. k < n <=> b + Len(x) < Len(text)
          BY <2>3, <2>8, <3>3, <3>6
        <4>2. k < m <=> b + Len(y) < Len(text)
          BY <2>3, <2>8, <3>4, <3>6
        <4> QED
          BY <3>7, <4>1, <4>2
      <3> QED
        BY <3>2, <3>8, <3>9, <3>10
    <2> DEFINE Same(k) ==
                 k <= n \/ k <= m =>
                   k <= n /\ k <= m /\ ps[k] = qs[k] /\ f[k] = g[k] /\ (k < n <=> k < m)
               T == {k \in Nat : Same(k + 1)}
    <2> HIDE DEF text
    <2>9. 0 \in T
      <3>1. 1 <= n /\ 1 <= m /\ 1 \in Nat \ {0} /\ 0 \in Nat
        BY <2>3
      <3>2. ps[1] = qs[1] /\ f[1] = g[1] /\ (1 < n <=> 1 < m)
        BY <2>8, <3>1 DEF At
      <3> QED
        BY <3>1, <3>2
    <2>10. ASSUME NEW k \in T
           PROVE  k + 1 \in T
      <3> DEFINE j == k + 1
      <3>1. j \in Nat \ {0} /\ j + 1 \in Nat \ {0} /\ j + 1 # 1 /\ (j + 1) - 1 = j /\ Same(j)
        OBVIOUS
      <3> SUFFICES ASSUME j + 1 <= n \/ j + 1 <= m
                   PROVE  Same(j + 1)
        BY <3>1
      <3> HIDE DEF j, T
      <3>2. j <= n /\ j <= m /\ f[j] = g[j] /\ j + 1 <= n /\ j + 1 <= m
        BY <2>3, <3>1
      <3>3. Len(f[j]) \in Nat
        BY <2>5, <2>11, <3>1, <3>2
      <3>4. PICK i \in Nat \ {0}, b \in Nat : i = j + 1 /\ i - 1 = j /\ b = At(f, i) /\ i # 1
        BY <3>1, <3>3 DEF At
      <3>5. ps[i] = qs[i] /\ f[i] = g[i] /\ (i < n <=> i < m)
        BY <2>8, <3>2, <3>4
      <3> QED
        BY <3>2, <3>4, <3>5
    <2>12. T = Nat
      <3> HIDE DEF T
      <3> QED
        BY <2>9, <2>10, FromZero DEF T
    <2>13. ASSUME NEW k \in Nat \ {0}
           PROVE  Same(k)
      <3>1. k - 1 \in Nat /\ (k - 1) + 1 = k
        OBVIOUS
      <3>2. k - 1 \in T
        <4> HIDE DEF T
        <4> QED
          BY <2>12, <3>1
      <3> QED
        BY <3>1, <3>2
    <2>14. n = m
      <3>1. Same(n) /\ Same(m)
        BY <2>3, <2>13
      <3> QED
        BY <2>3, <3>1
    <2>15. \A k \in 1..n : ps[k] = qs[k]
      BY <2>3, <2>13
    <2> QED
      BY <2>14, <2>15 DEF n, m
  <1> QED
    BY <1>1, <1>4, <1>5

\* The parts that are hashed.
LEMMA KeyParts ==
    ASSUME NEW c \in Configs, NEW names \in Seq(DOMAIN Varies[c]), NEW values \in Sendable,
           Plain(InputsOf(c, names), values)
    PROVE  /\ Parts(names, Varies[c], values) \in Seq(AllParts)
           /\ ToSet(Parts(names, Varies[c], values)) = PartsOf(InputsOf(c, names), values)
  <1> DEFINE of(name) == [i \in DOMAIN Varies[c][name] |-> Part(Varies[c][name][i], values[Varies[c][name][i]])]
             chunks == [i \in DOMAIN names |-> of(names[i])]
             inputs == InputsOf(c, names)
  <1>1. \A i \in inputs \cap Inputs : Part(i, values[i]) \in AllParts
    <2> HIDE DEF inputs
    <2>1. ASSUME NEW i \in inputs \cap Inputs
          PROVE  i \in Headers => Uncut(Read(i, values[i]))
      BY DEF Plain, inputs
    <2> QED
      BY <2>1, PartIsPart
  <1>2. ASSUME NEW name \in DOMAIN Varies[c], ToSet(Varies[c][name]) \subseteq inputs
        PROVE  /\ of(name) \in Seq(AllParts)
               /\ ToSet(of(name)) = PartsOf(ToSet(Varies[c][name]), values)
    <2>1. Varies[c][name] \in Seq(Inputs)
      BY VaryLists
    <2>2. of(name) \in Seq(AllParts)
      <3>1. \A k \in DOMAIN Varies[c][name] : Varies[c][name][k] \in inputs \cap Inputs
        BY <1>2, <2>1 DEF ToSet
      <3> HIDE DEF inputs
      <3> QED
        BY <1>1, <2>1, <3>1
    <2>3. ToSet(of(name)) = PartsOf(ToSet(Varies[c][name]), values)
      BY <2>1 DEF ToSet, PartsOf
    <2> QED
      BY <2>2, <2>3
  <1>3. \A i \in DOMAIN names : names[i] \in DOMAIN Varies[c] /\ ToSet(Varies[c][names[i]]) \subseteq inputs
    <2> DEFINE S == DOMAIN Varies[c]
    <2>1. names \in Seq(S)
      OBVIOUS
    <2> HIDE DEF S
    <2>2. \A i \in DOMAIN names : names[i] \in S
      BY <2>1
    <2>3. ASSUME NEW i \in DOMAIN names
          PROVE  ToSet(Varies[c][names[i]]) \subseteq inputs
      <3>1. names[i] \in ToSet(names)
        BY DEF ToSet
      <3> QED
        BY <3>1, Zenon DEF InputsOf
    <2> QED
      BY <2>2, <2>3 DEF S
  <1>4. chunks \in Seq(Seq(AllParts)) /\ DOMAIN chunks = DOMAIN names
    <2> DEFINE P == Seq(AllParts)
    <2>1. \A i \in DOMAIN names : of(names[i]) \in P
      <3> HIDE DEF of
      <3> QED
        BY <1>2, <1>3
    <2> HIDE DEF of, P
    <2>2. DOMAIN names = 1..Len(names) /\ Len(names) \in Nat
      OBVIOUS
    <2>3. chunks \in [1..Len(names) -> P]
      BY <2>1, <2>2
    <2>4. chunks \in Seq(P)
      BY <2>2, <2>3
    <2> QED
      BY <2>4 DEF P
  <1>5. ToSet(FlattenSeq(chunks)) = UNION {ToSet(chunks[i]) : i \in DOMAIN chunks}
    <2> HIDE DEF chunks
    <2> QED
      BY <1>4, FlattenElements
  <1>6. ASSUME NEW i \in DOMAIN names
        PROVE  ToSet(chunks[i]) = PartsOf(ToSet(Varies[c][names[i]]), values)
    <2>1. chunks[i] = of(names[i])
      OBVIOUS
    <2>2. ToSet(of(names[i])) = PartsOf(ToSet(Varies[c][names[i]]), values)
      BY <1>2, <1>3
    <2> QED
      BY <2>1, <2>2, Zenon
  <1>7. ToSet(FlattenSeq(chunks)) = PartsOf(inputs, values)
    <2>1. ASSUME NEW x \in ToSet(FlattenSeq(chunks))
          PROVE  x \in PartsOf(inputs, values)
      <3> HIDE DEF chunks
      <3>1. PICK i \in DOMAIN names : x \in ToSet(chunks[i])
        BY <1>4, <1>5
      <3>2. PICK in \in ToSet(Varies[c][names[i]]) : x = Part(in, values[in])
        BY <1>6, <3>1 DEF PartsOf
      <3>3. in \in inputs
        BY <3>2 DEF InputsOf, ToSet
      <3> QED
        BY <3>2, <3>3 DEF PartsOf
    <2>2. ASSUME NEW x \in PartsOf(inputs, values)
          PROVE  x \in ToSet(FlattenSeq(chunks))
      <3> HIDE DEF chunks
      <3>1. PICK in \in inputs : x = Part(in, values[in])
        BY DEF PartsOf
      <3>2. PICK name \in ToSet(names) : in \in ToSet(Varies[c][name])
        BY DEF InputsOf
      <3>3. PICK i \in DOMAIN names : names[i] = name
        BY DEF ToSet
      <3>4. x \in ToSet(chunks[i])
        BY <1>6, <3>1, <3>2, <3>3 DEF PartsOf
      <3> QED
        BY <1>4, <1>5, <3>4
    <2> QED
      BY <2>1, <2>2
  <1>8. Parts(names, Varies[c], values) = FlattenSeq(chunks)
    BY DEF Parts
  <1>9. FlattenSeq(chunks) \in Seq(AllParts)
    <2> HIDE DEF chunks
    <2> QED
      BY <1>4, FlattenElements
  <1> HIDE DEF chunks, inputs
  <1> QED
    BY <1>7, <1>8, <1>9 DEF inputs

\* Who hashes the same parts sent the same: of two inputs that differ at least one
\* is there, and is hashed with its name.
LEMMA PartsSeparate ==
    ASSUME NEW inputs \in SUBSET Inputs, NEW mine \in Sendable, NEW others \in Sendable,
           PartsOf(inputs, mine) = PartsOf(inputs, others)
    PROVE  \A i \in inputs : Read(i, mine[i]) = Read(i, others[i])
  <1>1. ASSUME NEW i \in inputs, NEW v \in Sendable, NEW w \in Sendable,
               PartsOf(inputs, v) \subseteq PartsOf(inputs, w),
               ~(i \in Cookies /\ v[i] = Missing)
        PROVE  Read(i, v[i]) = Read(i, w[i])
    <2>1. PICK j \in inputs : Part(i, v[i]) = Part(j, w[j])
      BY <1>1 DEF PartsOf
    <2>2. v[i] \in Values \cup {Missing} /\ w[j] \in Values \cup {Missing}
      BY DEF Sendable
    <2> QED
      BY <1>1, <2>1, <2>2, SamePart
  <1>2. ASSUME NEW i \in inputs
        PROVE  Read(i, mine[i]) = Read(i, others[i])
    <2>1. CASE ~(i \in Cookies /\ mine[i] = Missing)
      BY <1>1, <2>1
    <2>2. CASE ~(i \in Cookies /\ others[i] = Missing)
      BY <1>1, <2>2
    <2>3. CASE mine[i] = Missing /\ others[i] = Missing
      BY <2>3
    <2> QED
      BY <2>1, <2>2, <2>3
  <1> QED
    BY <1>2

\* The inputs that a plan's varies list are those of the rules that match.
LEMMA PlanVaries ==
    ASSUME Inv, NEW p \in Procs, pc[p] = "planned"
    PROVE  /\ InputsOf(config[p], plan[p].varyNames) = VariesOn(p)
           /\ plan[p].varyNames \in Seq(DOMAIN Varies[config[p]])
           /\ VariesOn(p) \subseteq Inputs
  <1> DEFINE c == config[p]
             rules == Visited(query[p], c, {})
             on(names) == UNION {ToSet(Varies[c][name]) : name \in names}
  <1>1. /\ plan[p] \in Plan /\ query[p] \in Queries /\ c \in Configs
        /\ Says(plan[p], rules)
    BY DEF Inv, TypeOK, InHandRight
  <1>2. ToSet(plan[p].varyNames) = UNION {ToSet(rule.varies) : rule \in rules}
    BY <1>1 DEF Says, SaysVaries
  <1>3. plan[p].varyNames \in Seq(VaryNames) /\ ToSet(plan[p].varyNames) \subseteq DOMAIN Varies[c]
    BY <1>1, SaysKnown DEF Plan
  <1>4. plan[p].varyNames \in Seq(DOMAIN Varies[c])
    BY <1>3 DEF ToSet
  <1>5. on(ToSet(plan[p].varyNames)) \subseteq Inputs
    <2>1. ASSUME NEW name \in ToSet(plan[p].varyNames)
          PROVE  ToSet(Varies[c][name]) \subseteq Inputs
      <3>1. Varies[c][name] \in Seq(Inputs)
        BY <1>1, <1>3, VaryLists
      <3> QED
        BY <3>1 DEF ToSet
    <2> QED
      BY <2>1
  <1>6. VariesOn(p) = UNION {on(ToSet(rule.varies)) : rule \in rules}
    BY DEF VariesOn, Visited
  <1>7. UNION {on(ToSet(rule.varies)) : rule \in rules} = on(UNION {ToSet(rule.varies) : rule \in rules})
    <2> HIDE DEF rules
    <2>1. ASSUME NEW x
          PROVE  x \in UNION {on(ToSet(rule.varies)) : rule \in rules}
                   <=> \E rule \in rules : \E name \in ToSet(rule.varies) : x \in ToSet(Varies[c][name])
      BY SMT
    <2>2. ASSUME NEW x
          PROVE  x \in on(UNION {ToSet(rule.varies) : rule \in rules})
                   <=> \E rule \in rules : \E name \in ToSet(rule.varies) : x \in ToSet(Varies[c][name])
      BY SMT
    <2> HIDE DEF on
    <2> QED
      BY <2>1, <2>2
  <1> QED
    BY <1>2, <1>4, <1>5, <1>6, <1>7 DEF InputsOf

LEMMA KeysInit == Init => KeysRight
  BY DEF Init, KeysRight

LEMMA KeysKept == Inv /\ KeysRight /\ [Next]_vars => KeysRight'
  <1> SUFFICES ASSUME Inv, KeysRight, [Next]_vars
               PROVE  KeysRight'
    OBVIOUS
  <1>1. ASSUME NEW p \in Procs, CalcKey(p)
        PROVE  KeysRight'
    <2>1. ToSet(plan[p].varyNames) \subseteq DOMAIN Varies[config[p]]
      BY <1>1, SaysKnown DEF CalcKey, Inv, TypeOK, InHandRight
    <2>2. resultKey' = [resultKey EXCEPT ![p] =
             ResultKey(query[p], plan[p].varyNames, Varies[config[p]], sent[p])]
      BY <1>1, <2>1 DEF CalcKey
    <2>3. /\ UNCHANGED <<query, config, sent, plan>>
          /\ \A o \in Procs \ {p} : pc'[o] = pc[o]
      BY <1>1 DEF CalcKey, Goto, request, Inv, TypeOK
    <2> QED
      BY <2>2, <2>3 DEF KeysRight
  <1>2. ASSUME NEW p \in Procs, Step(p), ~CalcKey(p)
        PROVE  KeysRight'
    <2>1. /\ DOMAIN resultKey' = Procs /\ pc'[p] # "planned"
          /\ \A o \in Procs \ {p} : /\ pc'[o] = pc[o] /\ query'[o] = query[o] /\ config'[o] = config[o]
                                     /\ sent'[o] = sent[o] /\ plan'[o] = plan[o]
                                     /\ resultKey'[o] = resultKey[o]
      <3>1. CASE GetCached(p) \/ Compute(p) \/ VisitRule(p)
        BY <3>1 DEF GetCached, Compute, VisitRule, Goto, request, Inv, TypeOK, KeysRight
      <3>2. CASE RulesDone(p) \/ SavePlan(p) \/ SaveFails(p)
        BY <3>2 DEF RulesDone, SavePlan, SaveFails, Goto, request, Inv, TypeOK, KeysRight
      <3>3. CASE Leave(p)
        BY <3>3 DEF Leave, Goto, Inv, TypeOK, KeysRight
      <3> QED
        BY <1>2, <3>1, <3>2, <3>3 DEF Step
    <2> QED
      BY <2>1 DEF KeysRight
  <1>3. ASSUME NEW p \in Procs, NEW q \in Queries, NEW c \in Configs, NEW values \in Sendable,
               Arrive(p, q, c, values)
        PROVE  KeysRight'
    BY <1>3 DEF Arrive, Goto, Inv, TypeOK, KeysRight
  <1>4. CASE (\E q \in Queries : Drop(q)) \/ UNCHANGED vars
    BY <1>4 DEF Drop, vars, request, KeysRight
  <1> QED
    BY <1>1, <1>2, <1>3, <1>4 DEF Next, Sendable

LEMMA KeysSeparate == Inv /\ KeysRight => VariesSeparate
  <1> SUFFICES ASSUME Inv, KeysRight, NEW p \in Procs, NEW other \in Procs,
                      pc[p] = "planned", pc[other] = "planned", config[p] = config[other],
                      resultKey[p] = resultKey[other],
                      NothingDisguised(p), NothingDisguised(other)
               PROVE  Separated(p, other)
    BY DEF VariesSeparate
  <1> DEFINE parts(x) == Parts(plan[x].varyNames, Varies[config[x]], sent[x])
             key(x) == <<query[x], FlattenSeq(parts(x))>>
  <1>1. sent[p] \in Sendable /\ sent[other] \in Sendable
    BY DEF Inv, TypeOK
  <1>2. key(p) = key(other)
    BY DEF KeysRight, ResultKey
  <1>3. ASSUME NEW x \in Procs, pc[x] = "planned", NothingDisguised(x)
        PROVE  parts(x) \in Seq(AllParts) /\ ToSet(parts(x)) = PartsOf(VariesOn(x), sent[x])
    <2>1. /\ plan[x].varyNames \in Seq(DOMAIN Varies[config[x]])
          /\ InputsOf(config[x], plan[x].varyNames) = VariesOn(x)
      BY <1>3, PlanVaries
    <2>2. config[x] \in Configs /\ sent[x] \in Sendable
      BY DEF Inv, TypeOK
    <2>3. PICK c \in Configs, values \in Sendable : c = config[x] /\ values = sent[x]
      BY <2>2
    <2>4. PICK names \in Seq(DOMAIN Varies[c]) : names = plan[x].varyNames
      BY <2>1, <2>3
    <2>5. Plain(InputsOf(c, names), values)
      BY <1>3, <2>1, <2>3, <2>4 DEF Plain, NothingDisguised
    <2>6. /\ Parts(names, Varies[c], values) \in Seq(AllParts)
          /\ ToSet(Parts(names, Varies[c], values)) = PartsOf(InputsOf(c, names), values)
      BY <2>5, KeyParts
    <2> QED
      BY <2>1, <2>3, <2>4, <2>6
  <1>4. query[p] = query[other]
    BY <1>2
  <1>5. VariesOn(other) = VariesOn(p) /\ VariesOn(p) \subseteq Inputs
    BY <1>4, PlanVaries DEF VariesOn
  <1>6. parts(p) = parts(other)
    <2>1. FlattenSeq(parts(p)) = FlattenSeq(parts(other))
      BY <1>2
    <2>2. parts(p) \in Seq(AllParts) /\ parts(other) \in Seq(AllParts)
      BY <1>3
    <2> HIDE DEF parts
    <2> QED
      BY <2>1, <2>2, Decode
  <1>7. PartsOf(VariesOn(p), sent[p]) = PartsOf(VariesOn(p), sent[other])
    BY <1>3, <1>5, <1>6
  <1> QED
    BY <1>1, <1>4, <1>5, <1>7, PartsSeparate DEF Separated

\* However many varies the matching rules list, and in whatever order the plans
\* of two requests list them, requests with the same result key sent the same
\* headers and cookies, unless a header's text has a part of another's in it
\* (calcQueryResultCacheKey).
THEOREM KeysTellVariesApart == Spec => []VariesSeparate
  BY InitHolds, KeysInit, StepKeeps, KeysKept, KeysSeparate, PTL DEF Spec
=============================================================================
