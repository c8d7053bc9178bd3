--------------------------- MODULE LifecycleProofs ---------------------------
(***************************************************************************)
(* The stores are counted right, and the handlers in service are intact    *)
(* and run what their files say, whatever fails and however many handlers  *)
(* and files there are, and whatever the files say.                        *)
(*                                                                         *)
(* The first part is about the parsers.  Each is a function that is folded *)
(* over a block from an empty record: what the lines so far say is what    *)
(* the record has, and one more line keeps it so.  The folds are functions *)
(* that CHOOSE defines by their own recursion; ParsesExists shows that     *)
(* there are such functions, and ParsedIsGood is the induction.  The       *)
(* second part is about the handlers and their stores.                     *)
(***************************************************************************)
EXTENDS Lifecycle, FiniteSetTheorems, NaturalsInduction, WellFoundedInduction, TLAPS

\* What the settings of an accepted block are like: one store at most, by a DSN.
Configured(h) == DsnsOf(h) \subseteq Dsns /\ \A d, e \in DsnsOf(h) : d = e

\* Where the handlers are: one at most is being provisioned, and no load goes
\* on while handlers are left to be cleaned up.
Placed ==
    /\ \A i \in Handlers : stage[i] \notin {"gone", "ready", "abandoned"} => i \in loading
    /\ \A i \in loading : stage[i] \notin {"gone", "abandoned"}
    /\ \A i, j \in loading : i = j \/ stage[i] = "ready" \/ stage[j] = "ready"
    /\ \A i \in serving \cup doomed : stage[i] = "ready"
    /\ serving \cap loading = {} /\ serving \cap doomed = {}
    /\ doomed # {} => loading = {} /\ pending = <<>>

\* What each handler has at its stage.
Provisioned ==
    \A i \in Handlers :
        /\ stage[i] \in {"gone", "new", "proxied"} => store[i] = NoStore
        /\ stage[i] \in {"stored", "fetched", "ready"} /\ DsnsOf(conf[i]) # {} => store[i] # NoStore
        /\ stage[i] # "gone" => ~cancelled[i]
        /\ stage[i] = "ready" => Valid(conf[i])
        /\ stage[i] \in {"fetched", "ready"} /\ conf[i].fetch_schema_interval # 0 => loop[i] # "none"

\* No factory has accepted what it refuses now.
Refused == \A d \in Dsns : ~FactoryAccepts(d) => pool[d].refs = 0

\* The settings at hand are those of accepted blocks.
AllConfigured ==
    /\ pending \in Seq([file : Files, conf : {Settings(f) : f \in Files}])
    /\ \A k \in DOMAIN pending : Configured(pending[k].conf)
    /\ conf \in [Handlers -> {NewHandler} \cup {Settings(f) : f \in Files}]
    /\ \A i \in Handlers : Configured(conf[i])

IInv == TypeOK /\ UsersCounted /\ Placed /\ Provisioned /\ Refused /\ AllConfigured

\* Every handler that is not gone has the settings of its own block, and so
\* will those to be made.
Filed ==
    /\ \A k \in DOMAIN pending :
          /\ pending[k].file \in Files /\ Accepted(pending[k].file)
          /\ pending[k].conf = Settings(pending[k].file)
    /\ \A i \in Handlers : stage[i] # "gone" =>
          file[i] \in Files /\ Accepted(file[i]) /\ conf[i] = Settings(file[i])

-----------------------------------------------------------------------------
(***************************************************************************)
(* The parsers.                                                            *)
(***************************************************************************)
LEMMA FromZero ==
    ASSUME NEW T \in SUBSET Nat, 0 \in T, \A n \in T : n + 1 \in T
    PROVE  T = Nat
  <1> DEFINE D == Nat \ T
  <1> SUFFICES ASSUME D # {}
               PROVE  FALSE
    OBVIOUS
  <1>1. D \in SUBSET Nat
    OBVIOUS
  <1> HIDE DEF D
  <1>2. PICK x \in D : \A y \in D : ~(<<y, x>> \in OpToRel(<, Nat))
    BY <1>1, NatLessThanWellFounded, WFMin
  <1>3. \A y \in D : ~(y < x)
    BY <1>1, <1>2 DEF OpToRel
  <1>4. x \in Nat /\ x \notin T /\ x # 0
    BY <1>1 DEF D
  <1>5. x - 1 \in Nat /\ x - 1 < x /\ (x - 1) + 1 = x
    BY <1>4
  <1> QED
    BY <1>3, <1>4, <1>5 DEF D

-----------------------------------------------------------------------------
\* Parsing block, from c on, by the function step: f[n] is what comes of the first
\* n directives.
Parses(f, step, c, block) ==
    f = [n \in 0..Len(block) |->
          IF n = 0 THEN c
          ELSE LET before == f[n - 1]
               IN  IF before.err THEN before ELSE step[<<before, block[n]>>]]

\* Such functions exist if the steps stay in a set.
LEMMA ParsesExists ==
    ASSUME NEW S, NEW step \in [S \X Lines -> S], NEW c \in S, NEW block \in Seq(Lines)
    PROVE  \E f \in [0..Len(block) -> S] : Parses(f, step, c, block)
  <1> DEFINE Next_(s, n) == IF s.err THEN s ELSE step[<<s, block[n]>>]
             Good(f, m) == /\ f \in [0..m -> S] /\ f[0] = c
                           /\ \A n \in 1..m : f[n] = Next_(f[n - 1], n)
             T == {m \in Nat : m <= Len(block) => \E f : Good(f, m)}
  <1>1. Len(block) \in Nat /\ \A n \in 1..Len(block) : block[n] \in Lines
    OBVIOUS
  <1>2. 0 \in T
    <2>1. Good([n \in 0..0 |-> c], 0)
      OBVIOUS
    <2> HIDE DEF Good
    <2> QED
      BY <2>1
  <1>3. ASSUME NEW m \in T
        PROVE  m + 1 \in T
    <2> SUFFICES ASSUME m + 1 <= Len(block)
                 PROVE  \E f : Good(f, m + 1)
      <3> HIDE DEF Good
      <3> QED
        OBVIOUS
    <2>1. m \in Nat /\ m <= Len(block) /\ m + 1 \in 1..Len(block)
      BY <1>1
    <2>2. PICK f : Good(f, m)
      <3> HIDE DEF Good
      <3> QED
        BY <2>1
    <2> DEFINE g == [n \in 0..(m + 1) |-> IF n = m + 1 THEN Next_(f[m], m + 1) ELSE f[n]]
    <2>3. f[m] \in S /\ Next_(f[m], m + 1) \in S
      BY <1>1, <2>1, <2>2
    <2>4. \A n \in 0..m : g[n] = f[n] /\ f[n] \in S
      BY <2>1, <2>2
    <2>5. g[m + 1] = Next_(f[m], m + 1)
      BY <2>1
    <2>6. g \in [0..(m + 1) -> S]
      <3> HIDE DEF Next_
      <3>1. \A n \in 0..(m + 1) : n = m + 1 \/ n \in 0..m
        BY <2>1
      <3> QED
        BY <2>2, <2>3, <3>1
    <2>7. \A n \in 1..(m + 1) : g[n] = Next_(g[n - 1], n)
      <3> HIDE DEF g, Next_
      <3>1. \A n \in 1..(m + 1) : n - 1 \in 0..m /\ (n = m + 1 \/ n \in 1..m)
        BY <2>1
      <3>2. (m + 1) - 1 = m /\ m \in 0..m
        BY <2>1
      <3> QED
        BY <2>2, <2>4, <2>5, <3>1, <3>2
    <2>8. g[0] = c
      BY <2>1, <2>2, <2>4
    <2>9. Good(g, m + 1)
      BY <2>6, <2>7, <2>8
    <2> HIDE DEF Good, g
    <2> QED
      BY <2>9
  <1>4. T = Nat
    <2> HIDE DEF T
    <2> QED
      BY <1>2, <1>3, FromZero DEF T
  <1>5. PICK f : Good(f, Len(block))
    <2> HIDE DEF Good
    <2>1. Len(block) \in T /\ Len(block) <= Len(block)
      BY <1>1, <1>4
    <2> QED
      BY <2>1
  <1>6. \A n \in 0..Len(block) : f[n] = IF n = 0 THEN c
          ELSE LET before == f[n - 1]
               IN  IF before.err THEN before ELSE step[<<before, block[n]>>]
    <2>1. \A n \in 0..Len(block) : n # 0 => n \in 1..Len(block)
      BY <1>1
    <2> QED
      BY <1>5, <2>1
  <1>7. f = [n \in 0..Len(block) |-> f[n]]
    BY <1>5
  <1>8. f = [n \in 0..Len(block) |-> IF n = 0 THEN c
          ELSE LET before == f[n - 1]
               IN  IF before.err THEN before ELSE step[<<before, block[n]>>]]
    BY <1>6, <1>7
  <1> QED
    BY <1>5, <1>8 DEF Parses

\* What is true at the start and stays true with every directive is true at the
\* end, unless parsing stopped.
LEMMA ParsedIsGood ==
    ASSUME NEW S, NEW step \in [S \X Lines -> S], NEW c \in S, NEW block \in Seq(Lines),
           NEW f, f[0] = c,
           \A n \in 1..Len(block) : f[n - 1] \in S =>
               f[n] = IF f[n - 1].err THEN f[n - 1] ELSE step[<<f[n - 1], block[n]>>],
           NEW good, <<<<>>, c>> \in good,
           \A said \in Seq(Lines), s \in S, d \in Lines :
               ~s.err /\ <<said, s>> \in good /\ ~step[<<s, d>>].err =>
                   <<Append(said, d), step[<<s, d>>]>> \in good
    PROVE  /\ f[Len(block)] \in S
           /\ ~f[Len(block)].err => <<block, f[Len(block)]>> \in good
  <1> DEFINE said(n) == SubSeq(block, 1, n)
             Good(n) == f[n] \in S /\ (~f[n].err => <<said(n), f[n]>> \in good)
             T == {n \in Nat : n <= Len(block) => Good(n)}
  <1>1. Len(block) \in Nat /\ \A n \in 1..Len(block) : block[n] \in Lines
    OBVIOUS
  <1>2. said(0) = <<>> /\ said(Len(block)) = block
    OBVIOUS
  <1>3. \A n \in 1..Len(block) : said(n - 1) \in Seq(Lines) /\ said(n) = Append(said(n - 1), block[n])
    OBVIOUS
  <1> HIDE DEF said
  <1>4. 0 \in T
    BY <1>2
  <1>5. ASSUME NEW n \in T
        PROVE  n + 1 \in T
    <2> SUFFICES ASSUME n + 1 <= Len(block)
                 PROVE  Good(n + 1)
      OBVIOUS
    <2>1. n \in Nat /\ n <= Len(block) /\ n + 1 \in 1..Len(block) /\ (n + 1) - 1 = n
      BY <1>1
    <2>2. Good(n)
      BY <2>1
    <2>3. f[n + 1] = IF f[n].err THEN f[n] ELSE step[<<f[n], block[n + 1]>>]
      BY <2>1, <2>2
    <2>4. said(n) \in Seq(Lines) /\ said(n + 1) = Append(said(n), block[n + 1]) /\ block[n + 1] \in Lines
      BY <1>1, <1>3, <2>1
    <2>5. CASE f[n].err
      BY <2>2, <2>3, <2>5
    <2>6. CASE ~f[n].err
      BY <2>2, <2>3, <2>4, <2>6
    <2> QED
      BY <2>5, <2>6
  <1>6. T = Nat
    <2> HIDE DEF T
    <2> QED
      BY <1>4, <1>5, FromZero DEF T
  <1>7. Len(block) \in T /\ Len(block) <= Len(block)
    BY <1>1, <1>6
  <1>8. Good(Len(block))
    BY <1>7
  <1> QED
    BY <1>2, <1>8

-----------------------------------------------------------------------------
Words == UNION {ToSet(d.args) : d \in Lines}
Keys == {d.name : d \in Lines} \cup Words
Values == {0} \cup {Numeral[t] : t \in DOMAIN Numeral} \cup {Duration[t] : t \in DOMAIN Duration}
Maps(A, B) == UNION {[X -> B] : X \in SUBSET A}

\* What a block says after one more directive.
LEMMA OfLine ==
    ASSUME NEW d \in Lines
    PROVE  d.args \in Seq(STRING) /\ d.block \in Seq(Lines) /\ ToSet(d.args) \subseteq Words
  <1>1. d \in [name : STRING, args : Seq(STRING), block : Seq(Lines)]
    BY LinesAssumption
  <1>2. ToSet(d.args) \subseteq Words
    BY Zenon DEF Words
  <1> QED
    BY <1>1, <1>2

\* Positions in a sequence have a last one.
LEMMA MaxThere ==
    ASSUME NEW m \in Nat, NEW at \in SUBSET (1..m), at # {}
    PROVE  Max(at) \in at
  <1> DEFINE D == {m - x : x \in at}
  <1>1. D \in SUBSET Nat /\ D # {}
    <2>1. \A x \in at : m - x \in Nat
      OBVIOUS
    <2> QED
      BY <2>1
  <1>2. PICK y \in D : \A z \in D : ~(<<z, y>> \in OpToRel(<, Nat))
    <2> HIDE DEF D
    <2> QED
      BY <1>1, NatLessThanWellFounded, WFMin
  <1>3. \A z \in D : ~(z < y)
    <2> HIDE DEF D
    <2> QED
      BY <1>1, <1>2 DEF OpToRel
  <1>4. PICK x \in at : y = m - x
    BY <1>2
  <1>5. \A z \in at : x >= z
    BY <1>3, <1>4
  <1>6. \E x_1 \in at : \A z \in at : x_1 >= z
    BY <1>5
  <1> QED
    BY <1>6 DEF Max

LEMMA LastOfAppend ==
    ASSUME NEW said \in Seq(Lines), NEW d \in Lines, NEW name, NEW default
    PROVE  LastOf(Append(said, d), name, default) = IF d.name = name THEN d ELSE LastOf(said, name, default)
  <1> DEFINE more == Append(said, d)
             at == {i \in DOMAIN said : said[i].name = name}
             now == {i \in DOMAIN more : more[i].name = name}
             last == Len(said) + 1
  <1>1. /\ Len(said) \in Nat /\ DOMAIN said = 1..Len(said) /\ DOMAIN more = 1..last
        /\ more[last] = d /\ \A i \in DOMAIN said : more[i] = said[i]
    OBVIOUS
  <1>2. CASE d.name = name
    <2>1. last \in now /\ \A i \in now : i \in Nat /\ i <= last
      BY <1>1, <1>2
    <2> HIDE DEF now, last
    <2>2. Max(now) = last
      <3>1. \E x \in now : \A y \in now : x >= y
        BY <2>1
      <3>2. Max(now) \in now /\ \A y \in now : Max(now) >= y
        BY <3>1 DEF Max
      <3> DEFINE top == Max(now)
      <3> HIDE DEF top
      <3>3. top \in now /\ \A y \in now : top >= y
        BY <3>2 DEF top
      <3>4. top = last
        BY <2>1, <3>3
      <3> QED
        BY <3>4 DEF top
    <2>3. LastOf(more, name, default) = more[Max(now)]
      BY <2>1 DEF LastOf, now
    <2> QED
      BY <1>1, <1>2, <2>2, <2>3
  <1>3. CASE d.name # name
    <2>1. now = at /\ \A i \in at : i \in DOMAIN said
      BY <1>1, <1>3
    <2> HIDE DEF now, at
    <2>2. LastOf(said, name, default) = IF at = {} THEN default ELSE said[Max(at)]
      BY DEF LastOf, at
    <2>3. LastOf(more, name, default) = IF now = {} THEN default ELSE more[Max(now)]
      BY DEF LastOf, now
    <2>4. ASSUME at # {}
          PROVE  Max(at) \in DOMAIN said
      <3>1. at \in SUBSET (1..Len(said)) /\ Len(said) \in Nat
        BY <1>1, <2>1
      <3>2. Max(at) \in at
        BY <2>4, <3>1, MaxThere, Zenon
      <3> QED
        BY <2>1, <3>2
    <2> QED
      BY <1>1, <1>3, <2>1, <2>2, <2>3, <2>4
  <1> QED
    BY <1>2, <1>3

LEMMA NothingSaid ==
    ASSUME NEW name, NEW default
    PROVE  LastOf(<<>>, name, default) = default
  BY DEF LastOf

\* The same of what LastOf is used for.
LEMMA LastAppend ==
    ASSUME NEW said \in Seq(Lines), NEW d \in Lines, NEW name, NEW default
    PROVE  LET more == Append(said, d)
           IN  /\ d.name = name => /\ LastArgs(more, name) = d.args
                                   /\ LastArg(more, name, default) = Arg(d)
                                   /\ LastBlock(more, name) = d.block
               /\ d.name # name => /\ LastArgs(more, name) = LastArgs(said, name)
                                   /\ LastArg(more, name, default) = LastArg(said, name, default)
                                   /\ LastBlock(more, name) = LastBlock(said, name)
  <1> DEFINE more == Append(said, d)
  <1>1. ASSUME NEW other
        PROVE  LastOf(more, name, other) = IF d.name = name THEN d ELSE LastOf(said, name, other)
    BY LastOfAppend
  <1> HIDE DEF more
  <1>2. LastArgs(more, name) = IF d.name = name THEN d.args ELSE LastArgs(said, name)
    BY <1>1 DEF LastArgs
  <1>3. LastBlock(more, name) = IF d.name = name THEN d.block ELSE LastBlock(said, name)
    BY <1>1 DEF LastBlock
  <1>4. LastArg(more, name, default) = IF d.name = name THEN Arg(d) ELSE LastArg(said, name, default)
    BY <1>1 DEF LastArg
  <1> QED
    BY <1>2, <1>3, <1>4 DEF more

LEMMA LastNothing ==
    ASSUME NEW name, NEW default
    PROVE  /\ LastArgs(<<>>, name) = <<>> /\ LastBlock(<<>>, name) = <<>>
           /\ LastArg(<<>>, name, default) = default
  BY NothingSaid DEF LastArgs, LastArg, LastBlock, Arg

LEMMA NamesAppend ==
    ASSUME NEW said \in Seq(Lines), NEW d \in Lines
    PROVE  Names(Append(said, d)) = Names(said) \cup {d.name}
  <1> DEFINE more == Append(said, d)
             last == Len(said) + 1
  <1>1. /\ DOMAIN more = DOMAIN said \cup {last}
        /\ more[last] = d /\ \A i \in DOMAIN said : more[i] = said[i]
    OBVIOUS
  <1> HIDE DEF more, last
  <1> QED
    BY <1>1 DEF Names, more

\* Words that read as numbers, and as switches.
LEMMA NumberAppend ==
    ASSUME NEW said \in Seq(Lines), NEW d \in Lines, NEW name, NEW values,
           "0" \in DOMAIN values => values["0"] = 0
    PROVE  /\ d.name = name /\ Takes(d, DOMAIN values) => Number(Append(said, d), name, values) = values[Arg(d)]
           /\ d.name # name => Number(Append(said, d), name, values) = Number(said, name, values)
  <1>1. CASE d.name = name /\ Takes(d, DOMAIN values)
    <2>1. LastArg(Append(said, d), name, "0") = Arg(d) /\ Arg(d) \in DOMAIN values
      BY <1>1, LastAppend DEF Takes, Arg
    <2> QED
      BY <1>1, <2>1 DEF Number
  <1>2. CASE d.name # name
    BY <1>2, LastAppend DEF Number
  <1> QED
    BY <1>1, <1>2

LEMMA NumeralAppend ==
    ASSUME NEW said \in Seq(Lines), NEW d \in Lines, NEW name
    PROVE  /\ d.name = name /\ Takes(d, DOMAIN Numeral) => Number(Append(said, d), name, Numeral) = Numeral[Arg(d)]
           /\ d.name # name => Number(Append(said, d), name, Numeral) = Number(said, name, Numeral)
  BY NumberAppend, ZeroAssumption

LEMMA DurationAppend ==
    ASSUME NEW said \in Seq(Lines), NEW d \in Lines, NEW name
    PROVE  /\ d.name = name /\ Takes(d, DOMAIN Duration) => Number(Append(said, d), name, Duration) = Duration[Arg(d)]
           /\ d.name # name => Number(Append(said, d), name, Duration) = Number(said, name, Duration)
  BY NumberAppend, ZeroAssumption

LEMMA SwitchAppend ==
    ASSUME NEW said \in Seq(Lines), NEW d \in Lines, NEW name, NEW default
    PROVE  /\ d.name = name => Switch(Append(said, d), name, default) = Truth[Arg(d)]
           /\ d.name # name => Switch(Append(said, d), name, default) = Switch(said, name, default)
  BY LastAppend DEF Switch

LEMMA ReadsAs ==
    ASSUME NEW d \in Lines
    PROVE  /\ Takes(d, DOMAIN Truth) => Truth[Arg(d)] \in BOOLEAN /\ Arg(d) \in {"true", "false"}
           /\ Takes(d, DOMAIN Numeral) => Numeral[Arg(d)] \in Values
           /\ Takes(d, DOMAIN Duration) => Duration[Arg(d)] \in Values
  <1>1. Takes(d, DOMAIN Truth) => Arg(d) \in {"true", "false"}
    BY DEF Takes, Arg, Truth
  <1>2. Truth["true"] = TRUE /\ Truth["false"] = FALSE
    BY DEF Truth
  <1>3. Takes(d, DOMAIN Numeral) => Numeral[Arg(d)] \in Values
    BY DEF Takes, Arg, Values
  <1>4. Takes(d, DOMAIN Duration) => Duration[Arg(d)] \in Values
    BY DEF Takes, Arg, Values
  <1> QED
    BY <1>1, <1>2, <1>3, <1>4

-----------------------------------------------------------------------------
(***************************************************************************)
(* Every parser is right: what comes of a block that parses is of the      *)
(* parser's type and is what the block says.  One directive keeps this     *)
(* true (the Step lemmas), and so do all of a block (ParsedIsGood).        *)
(***************************************************************************)
VarySet == [err : BOOLEAN, headers : SUBSET Words, cookies : SUBSET Words]

LEMMA VaryStart == NewVary \in VarySet /\ VarySays(<<>>, NewVary)
  BY LastNothing DEF NewVary, VarySet, VarySays, ToSet

LEMMA VaryStep ==
    ASSUME NEW v \in VarySet, NEW d \in Lines
    PROVE  LET w == VaryDirective(v, d)
           IN  /\ w \in VarySet
               /\ \A said \in Seq(Lines) : VarySays(said, v) /\ ~w.err => VarySays(Append(said, d), w)
  <1> DEFINE w == VaryDirective(v, d)
  <1>1. ToSet(d.args) \subseteq Words
    BY OfLine
  <1>2. CASE d.name = "headers" /\ TakesSome(d)
    <2>1. w = [v EXCEPT !.headers = ToSet(d.args)]
      BY <1>2 DEF VaryDirective
    <2>2. ASSUME NEW said \in Seq(Lines), VarySays(said, v)
          PROVE  VarySays(Append(said, d), w)
      BY <1>2, <2>1, <2>2, LastAppend DEF VarySet, VarySays
    <2> QED
      BY <1>1, <2>1, <2>2 DEF VarySet
  <1>3. CASE d.name = "cookies" /\ TakesSome(d)
    <2>1. w = [v EXCEPT !.cookies = ToSet(d.args)]
      BY <1>3 DEF VaryDirective
    <2>2. ASSUME NEW said \in Seq(Lines), VarySays(said, v)
          PROVE  VarySays(Append(said, d), w)
      BY <1>3, <2>1, <2>2, LastAppend DEF VarySet, VarySays
    <2> QED
      BY <1>1, <2>1, <2>2 DEF VarySet
  <1>4. CASE ~(d.name \in {"headers", "cookies"} /\ TakesSome(d))
    BY <1>4 DEF VaryDirective, Fail, VarySet
  <1> QED
    BY <1>2, <1>3, <1>4

\* unmarshalCaddyfileVaries, of one vary.
LEMMA VaryParsed ==
    ASSUME NEW block \in Seq(Lines)
    PROVE  LET r == Parse(VaryDirective, NewVary, block)
           IN  r \in VarySet /\ (~r.err => VarySays(block, r))
  <1> DEFINE step == [x \in VarySet \X Lines |-> VaryDirective(x[1], x[2])]
             after == CHOOSE f : f = [n \in 0..Len(block) |->
                        IF n = 0 THEN NewVary
                        ELSE LET before == f[n - 1]
                             IN  IF before.err THEN before ELSE VaryDirective(before, block[n])]
             good == {x \in Seq(Lines) \X VarySet : VarySays(x[1], x[2])}
  <1>1. /\ NewVary \in VarySet /\ VarySays(<<>>, NewVary)
        /\ step \in [VarySet \X Lines -> VarySet]
        /\ \A s \in VarySet, d \in Lines : step[<<s, d>>] = VaryDirective(s, d)
    BY VaryStart, VaryStep
  <1> HIDE DEF step
  <1>2. \A n \in 0..Len(block) : n # 0 => n \in 1..Len(block) /\ block[n] \in Lines /\ n - 1 \in 0..Len(block)
    OBVIOUS
  <1>3. PICK f \in [0..Len(block) -> VarySet] : Parses(f, step, NewVary, block)
    BY <1>1, ParsesExists
  <1>4. f = [n \in 0..Len(block) |->
              IF n = 0 THEN NewVary
              ELSE LET before == f[n - 1]
                   IN  IF before.err THEN before ELSE VaryDirective(before, block[n])]
    BY <1>1, <1>2, <1>3 DEF Parses
  <1>5. after = [n \in 0..Len(block) |->
              IF n = 0 THEN NewVary
              ELSE LET before == after[n - 1]
                   IN  IF before.err THEN before ELSE VaryDirective(before, block[n])]
    BY <1>4, Zenon
  <1>6. Parse(VaryDirective, NewVary, block) = after[Len(block)]
    BY Zenon DEF Parse
  <1> HIDE DEF after
  <1>7. /\ after[0] = NewVary
        /\ \A n \in 1..Len(block) : after[n - 1] \in VarySet =>
               after[n] = IF after[n - 1].err THEN after[n - 1] ELSE step[<<after[n - 1], block[n]>>]
    BY <1>1, <1>2, <1>5
  <1>8. \A said \in Seq(Lines), s \in VarySet : <<said, s>> \in good <=> VarySays(said, s)
    OBVIOUS
  <1>9. good \subseteq Seq(Lines) \X VarySet /\ <<>> \in Seq(Lines)
    OBVIOUS
  <1> HIDE DEF good
  <1>10. ASSUME NEW said \in Seq(Lines), NEW s \in VarySet, NEW d \in Lines,
                ~s.err, <<said, s>> \in good, ~step[<<s, d>>].err
         PROVE  <<Append(said, d), step[<<s, d>>]>> \in good
    <2>1. Append(said, d) \in Seq(Lines) /\ VarySays(said, s)
      BY <1>8, <1>10
    <2> QED
      BY <1>1, <1>8, <1>10, <2>1, VaryStep
  <1>11. <<<<>>, NewVary>> \in good
    BY <1>1, <1>8, <1>9
  <1>12. after[Len(block)] \in VarySet /\ (~after[Len(block)].err => <<block, after[Len(block)]>> \in good)
    BY <1>1, <1>7, <1>10, <1>11, ParsedIsGood, Zenon
  <1> QED
    BY <1>6, <1>8, <1>12

-----------------------------------------------------------------------------
\* Is a block enabled?  The last word counts here, too.
EnabledSays(said, c) == c.enabled <=> LastArg(said, "enabled", "true") = "true"

LEMMA EnabledAppend ==
    ASSUME NEW said \in Seq(Lines), NEW d \in Lines, NEW c, NEW e
    PROVE  /\ d.name = "enabled" /\ Takes(d, DOMAIN Truth) /\ e.enabled = Truth[Arg(d)] =>
                  EnabledSays(Append(said, d), e)
           /\ d.name # "enabled" /\ e.enabled = c.enabled /\ EnabledSays(said, c) =>
                  EnabledSays(Append(said, d), e)
  <1>1. Truth["true"] = TRUE /\ Truth["false"] = FALSE
    BY DEF Truth
  <1>2. CASE d.name = "enabled" /\ Takes(d, DOMAIN Truth) /\ e.enabled = Truth[Arg(d)]
    <2>1. LastArg(Append(said, d), "enabled", "true") = Arg(d)
      BY <1>2, LastAppend
    <2>2. Arg(d) \in {"true", "false"}
      BY <1>2, ReadsAs
    <2> QED
      BY <1>1, <1>2, <2>1, <2>2 DEF EnabledSays
  <1>3. CASE d.name # "enabled"
    <2>1. LastArg(Append(said, d), "enabled", "true") = LastArg(said, "enabled", "true")
      BY <1>3, LastAppend
    <2> QED
      BY <1>3, <2>1 DEF EnabledSays
  <1> QED
    BY <1>2, <1>3

ComplexitySet ==
    [err : BOOLEAN, enabled : BOOLEAN,
     max_depth : Values, node_count_limit : Values, max_complexity : Values]

ComplexityParse(said, c) == ComplexitySays(said, c) /\ EnabledSays(said, c)

LEMMA ComplexityStart == NewComplexity \in ComplexitySet /\ ComplexityParse(<<>>, NewComplexity)
  <1>1. \A name, word : LastArg(<<>>, name, word) = word
    BY LastNothing
  <1>2. \A name : Number(<<>>, name, Numeral) = 0
    BY <1>1 DEF Number
  <1>3. 0 \in Values
    BY DEF Values
  <1> QED
    BY <1>1, <1>2, <1>3
       DEF NewComplexity, ComplexitySet, ComplexityParse, ComplexitySays, EnabledSays

LEMMA ComplexityStep ==
    ASSUME NEW c \in ComplexitySet, NEW d \in Lines
    PROVE  LET e == ComplexityDirective(c, d)
           IN  /\ e \in ComplexitySet
               /\ \A said \in Seq(Lines) : ComplexityParse(said, c) /\ ~e.err => ComplexityParse(Append(said, d), e)
  <1> DEFINE e == ComplexityDirective(c, d)
  <1>1. CASE d.name = "enabled" /\ Takes(d, DOMAIN Truth)
    <2>1. e = [c EXCEPT !.enabled = Truth[Arg(d)]] /\ Truth[Arg(d)] \in BOOLEAN
      BY <1>1, ReadsAs DEF ComplexityDirective
    <2>2. /\ e \in ComplexitySet /\ e.enabled = Truth[Arg(d)] /\ e.max_depth = c.max_depth
          /\ e.node_count_limit = c.node_count_limit /\ e.max_complexity = c.max_complexity
      BY <2>1 DEF ComplexitySet
    <2>3. ASSUME NEW said \in Seq(Lines), ComplexityParse(said, c)
          PROVE  ComplexityParse(Append(said, d), e)
      BY <1>1, <2>2, <2>3, NumeralAppend, EnabledAppend DEF ComplexityParse, ComplexitySays
    <2> QED
      BY <2>2, <2>3
  <1>2. CASE d.name \in {"max_depth", "node_count_limit", "max_complexity"} /\ Takes(d, DOMAIN Numeral)
    <2>1. e = [c EXCEPT ![d.name] = Numeral[Arg(d)]] /\ Numeral[Arg(d)] \in Values
      BY <1>2, ReadsAs DEF ComplexityDirective
    <2>2. /\ e \in ComplexitySet /\ e.enabled = c.enabled
          /\ e.max_depth = IF d.name = "max_depth" THEN Numeral[Arg(d)] ELSE c.max_depth
          /\ e.node_count_limit = IF d.name = "node_count_limit" THEN Numeral[Arg(d)] ELSE c.node_count_limit
          /\ e.max_complexity = IF d.name = "max_complexity" THEN Numeral[Arg(d)] ELSE c.max_complexity
      BY <1>2, <2>1 DEF ComplexitySet
    <2>3. ASSUME NEW said \in Seq(Lines), ComplexityParse(said, c)
          PROVE  ComplexityParse(Append(said, d), e)
      BY <1>2, <2>2, <2>3, NumeralAppend, EnabledAppend DEF ComplexityParse, ComplexitySays
    <2> QED
      BY <2>2, <2>3
  <1>3. CASE /\ ~(d.name = "enabled" /\ Takes(d, DOMAIN Truth))
             /\ ~(d.name \in {"max_depth", "node_count_limit", "max_complexity"} /\ Takes(d, DOMAIN Numeral))
    BY <1>3 DEF ComplexityDirective, Fail, ComplexitySet
  <1> QED
    BY <1>1, <1>2, <1>3

\* unmarshalCaddyfileComplexity.
LEMMA ComplexityParsed ==
    ASSUME NEW block \in Seq(Lines)
    PROVE  LET r == Parse(ComplexityDirective, NewComplexity, block)
           IN  r \in ComplexitySet /\ (~r.err => ComplexityParse(block, r))
  <1> DEFINE step == [x \in ComplexitySet \X Lines |-> ComplexityDirective(x[1], x[2])]
             after == CHOOSE f : f = [n \in 0..Len(block) |->
                        IF n = 0 THEN NewComplexity
                        ELSE LET before == f[n - 1]
                             IN  IF before.err THEN before ELSE ComplexityDirective(before, block[n])]
             good == {x \in Seq(Lines) \X ComplexitySet : ComplexityParse(x[1], x[2])}
  <1>1. /\ NewComplexity \in ComplexitySet /\ ComplexityParse(<<>>, NewComplexity)
        /\ step \in [ComplexitySet \X Lines -> ComplexitySet]
        /\ \A s \in ComplexitySet, d \in Lines : step[<<s, d>>] = ComplexityDirective(s, d)
    BY ComplexityStart, ComplexityStep
  <1> HIDE DEF step
  <1>2. \A n \in 0..Len(block) : n # 0 => n \in 1..Len(block) /\ block[n] \in Lines /\ n - 1 \in 0..Len(block)
    OBVIOUS
  <1>3. PICK f \in [0..Len(block) -> ComplexitySet] : Parses(f, step, NewComplexity, block)
    BY <1>1, ParsesExists
  <1>4. f = [n \in 0..Len(block) |->
              IF n = 0 THEN NewComplexity
              ELSE LET before == f[n - 1]
                   IN  IF before.err THEN before ELSE ComplexityDirective(before, block[n])]
    BY <1>1, <1>2, <1>3 DEF Parses
  <1>5. after = [n \in 0..Len(block) |->
              IF n = 0 THEN NewComplexity
              ELSE LET before == after[n - 1]
                   IN  IF before.err THEN before ELSE ComplexityDirective(before, block[n])]
    BY <1>4, Zenon
  <1>6. Parse(ComplexityDirective, NewComplexity, block) = after[Len(block)]
    BY Zenon DEF Parse
  <1> HIDE DEF after
  <1>7. /\ after[0] = NewComplexity
        /\ \A n \in 1..Len(block) : after[n - 1] \in ComplexitySet =>
               after[n] = IF after[n - 1].err THEN after[n - 1] ELSE step[<<after[n - 1], block[n]>>]
    BY <1>1, <1>2, <1>5
  <1>8. \A said \in Seq(Lines), s \in ComplexitySet : <<said, s>> \in good <=> ComplexityParse(said, s)
    OBVIOUS
  <1>9. good \subseteq Seq(Lines) \X ComplexitySet /\ <<>> \in Seq(Lines)
    OBVIOUS
  <1> HIDE DEF good
  <1>10. ASSUME NEW said \in Seq(Lines), NEW s \in ComplexitySet, NEW d \in Lines,
                ~s.err, <<said, s>> \in good, ~step[<<s, d>>].err
         PROVE  <<Append(said, d), step[<<s, d>>]>> \in good
    <2>1. Append(said, d) \in Seq(Lines) /\ ComplexityParse(said, s)
      BY <1>8, <1>10
    <2> QED
      BY <1>1, <1>8, <1>10, <2>1, ComplexityStep
  <1>11. <<<<>>, NewComplexity>> \in good
    BY <1>1, <1>8, <1>9
  <1>12. after[Len(block)] \in ComplexitySet /\ (~after[Len(block)].err => <<block, after[Len(block)]>> \in good)
    BY <1>1, <1>7, <1>10, <1>11, ParsedIsGood, Zenon
  <1> QED
    BY <1>6, <1>8, <1>12

-----------------------------------------------------------------------------
\* Parts of files that are maps.
MapSet(B) == [err : BOOLEAN, val : Maps(Keys, B)]

LEMMA EmptyMap ==
    ASSUME NEW B
    PROVE  <<>> \in Maps(Keys, B) /\ Nothing \in MapSet(B) /\ DOMAIN <<>> = {} /\ Names(<<>>) = {}
  <1>1. DOMAIN <<>> = {} /\ <<>> \in [{} -> B]
    OBVIOUS
  <1>2. <<>> \in Maps(Keys, B)
    BY <1>1, Zenon DEF Maps
  <1> QED
    BY <1>1, <1>2 DEF Nothing, MapSet, Names

LEMMA AddInMap ==
    ASSUME NEW B, NEW m \in MapSet(B), NEW d \in Lines, NEW b \in B
    PROVE  LET more == Add(m, d.name, b)
           IN  /\ more \in MapSet(B) /\ more.err = m.err
               /\ DOMAIN more.val = DOMAIN m.val \cup {d.name}
               /\ more.val[d.name] = b /\ \A n \in DOMAIN m.val \ {d.name} : more.val[n] = m.val[n]
  <1> DEFINE val == [n \in DOMAIN m.val \cup {d.name} |-> IF n = d.name THEN b ELSE m.val[n]]
  <1>1. m.val \in Maps(Keys, B) /\ d.name \in Keys
    BY DEF MapSet, Keys
  <1>2. /\ val \in Maps(Keys, B)
        /\ DOMAIN val = DOMAIN m.val \cup {d.name}
        /\ val[d.name] = b /\ \A n \in DOMAIN m.val \ {d.name} : val[n] = m.val[n]
    <2>1. PICK X \in SUBSET Keys : m.val \in [X -> B]
      BY <1>1, Zenon DEF Maps
    <2>2. val \in [X \cup {d.name} -> B] /\ X \cup {d.name} \in SUBSET Keys
      BY <1>1, <2>1
    <2>3. val \in Maps(Keys, B)
      <3> HIDE DEF val
      <3> QED
        BY <2>2, Zenon DEF Maps
    <2> QED
      BY <2>3
  <1>3. Add(m, d.name, b) = [m EXCEPT !.val = val]
    BY DEF Add
  <1> HIDE DEF val
  <1> QED
    BY <1>2, <1>3 DEF MapSet

\* The words of a line.
LEMMA TokensOf ==
    ASSUME NEW d \in Lines
    PROVE  /\ Tokens(d) \in Seq(STRING)
           /\ ToSet(Tokens(d)) = {d.name} \cup ToSet(d.args) /\ ToSet(Tokens(d)) \subseteq Keys
           /\ Last(Tokens(d)) = IF d.args = <<>> THEN d.name ELSE d.args[Len(d.args)]
  <1>1. d.args \in Seq(STRING) /\ d.name \in STRING
    BY LinesAssumption
  <1>2. Tokens(d) = <<d.name>> \o d.args
    BY DEF Tokens
  <1>3. Len(Tokens(d)) = Len(d.args) + 1 /\ Tokens(d)[1] = d.name
    BY <1>1, <1>2
  <1>4. \A i \in 1..Len(d.args) : Tokens(d)[i + 1] = d.args[i]
    BY <1>1, <1>2
  <1>5. Tokens(d) \in Seq(STRING) /\ DOMAIN Tokens(d) = 1..(Len(d.args) + 1) /\ Len(d.args) \in Nat
    BY <1>1, <1>2
  <1>6. ToSet(Tokens(d)) = {d.name} \cup ToSet(d.args)
    <2>1. \A i \in DOMAIN Tokens(d) : i = 1 \/ (i - 1 \in 1..Len(d.args) /\ (i - 1) + 1 = i)
      BY <1>5
    <2>2. \A i \in 1..Len(d.args) : i + 1 \in DOMAIN Tokens(d)
      BY <1>5
    <2>3. 1 \in DOMAIN Tokens(d) /\ DOMAIN d.args = 1..Len(d.args)
      BY <1>1, <1>5
    <2> QED
      <3>1. \A i \in DOMAIN Tokens(d) : Tokens(d)[i] \in {d.name} \cup {d.args[k] : k \in DOMAIN d.args}
        BY <1>3, <1>4, <2>1, <2>3
      <3>2. \A k \in DOMAIN d.args : \E i \in DOMAIN Tokens(d) : Tokens(d)[i] = d.args[k]
        BY <1>4, <2>2, <2>3
      <3>3. \E i \in DOMAIN Tokens(d) : Tokens(d)[i] = d.name
        BY <1>3, <2>3
      <3>4. \A x : x \in ToSet(Tokens(d)) <=> x = d.name \/ x \in ToSet(d.args)
        BY <3>1, <3>2, <3>3 DEF ToSet
      <3> QED
        BY <3>4
  <1>7. ToSet(Tokens(d)) \subseteq Keys
    BY <1>6, OfLine DEF Keys
  <1>8. Last(Tokens(d)) = IF d.args = <<>> THEN d.name ELSE d.args[Len(d.args)]
    BY <1>1, <1>3, <1>4, <1>5 DEF Last
  <1> QED
    BY <1>5, <1>6, <1>7, <1>8

\* Every word of a line enters a map, the last one with what the block makes.
LEMMA EnterInMap ==
    ASSUME NEW B, NEW m \in MapSet(B), NEW d \in Lines, NEW empty \in B, NEW b \in B
    PROVE  LET more == Enter(m, d, empty, b)
           IN  /\ more \in MapSet(B) /\ more.err = m.err
               /\ DOMAIN more.val = DOMAIN m.val \cup ToSet(Tokens(d))
               /\ \A n \in ToSet(Tokens(d)) : more.val[n] = IF Last(Tokens(d)) = n THEN b ELSE empty
               /\ \A n \in DOMAIN m.val \ ToSet(Tokens(d)) : more.val[n] = m.val[n]
  <1> DEFINE named == ToSet(Tokens(d))
             last == Last(Tokens(d))
             val == [n \in DOMAIN m.val \cup named |->
                       IF n = last THEN b ELSE IF n \in named THEN empty ELSE m.val[n]]
  <1>1. /\ named = {d.name} \cup ToSet(d.args) /\ named \subseteq Keys
        /\ last = IF d.args = <<>> THEN d.name ELSE d.args[Len(d.args)]
    BY TokensOf
  <1>2. last \in named
    <2>1. CASE d.args = <<>>
      BY <1>1, <2>1
    <2>2. CASE d.args # <<>>
      <3>1. Len(d.args) \in DOMAIN d.args
        BY <2>2, OfLine
      <3> QED
        BY <1>1, <2>2, <3>1 DEF ToSet
    <2> QED
      BY <2>1, <2>2
  <1>3. Enter(m, d, empty, b) = [m EXCEPT !.val = val]
    BY <1>1, Zenon DEF Enter
  <1>4. m.val \in Maps(Keys, B)
    BY DEF MapSet
  <1> HIDE DEF named, last
  <1>5. /\ val \in Maps(Keys, B)
        /\ DOMAIN val = DOMAIN m.val \cup named
        /\ \A n \in named : val[n] = IF last = n THEN b ELSE empty
        /\ \A n \in DOMAIN m.val \ named : val[n] = m.val[n]
    <2>1. PICK X \in SUBSET Keys : m.val \in [X -> B]
      BY <1>4, Zenon DEF Maps
    <2>2. val \in [X \cup named -> B] /\ X \cup named \in SUBSET Keys
      BY <1>1, <2>1
    <2>3. val \in Maps(Keys, B)
      <3> HIDE DEF val
      <3> QED
        BY <2>2, Zenon DEF Maps
    <2> QED
      BY <1>2, <2>3
  <1> HIDE DEF val
  <1> QED
    BY <1>3, <1>5 DEF MapSet, named, last

\* The lines of a block before and after one more.
LEMMA LinesAppend ==
    ASSUME NEW said \in Seq(Lines), NEW d \in Lines
    PROVE  /\ DOMAIN Append(said, d) = DOMAIN said \cup {Len(said) + 1} /\ Len(said) + 1 \notin DOMAIN said
           /\ Append(said, d)[Len(said) + 1] = d /\ \A i \in DOMAIN said : Append(said, d)[i] = said[i]
  OBVIOUS

\* What is under a name, after one more line.
LEMMA UnderAppend ==
    ASSUME NEW said \in Seq(Lines), NEW d \in Lines
    PROVE  /\ Headings(Append(said, d)) = Headings(said) \cup ToSet(Tokens(d))
           /\ \A n \in ToSet(Tokens(d)) :
                 LastUnder(Append(said, d), n) = IF Last(Tokens(d)) = n THEN d.block ELSE <<>>
           /\ \A n \in Headings(said) \ ToSet(Tokens(d)) : LastUnder(Append(said, d), n) = LastUnder(said, n)
  <1> DEFINE more == Append(said, d)
             last == Len(said) + 1
  <1>1. /\ Len(said) \in Nat /\ DOMAIN said = 1..Len(said) /\ DOMAIN more = 1..last
        /\ DOMAIN more = DOMAIN said \cup {last} /\ last \in Nat /\ last \in 1..last
        /\ more[last] = d /\ \A i \in DOMAIN said : more[i] = said[i]
    OBVIOUS
  <1> HIDE DEF more, last
  <1>2. Headings(more) = Headings(said) \cup ToSet(Tokens(d))
    <2>1. \A n : n \in Headings(more) <=> \E i \in DOMAIN more : n \in ToSet(Tokens(more[i]))
      BY Zenon DEF Headings
    <2>2. \A n : n \in Headings(said) <=> \E i \in DOMAIN said : n \in ToSet(Tokens(said[i]))
      BY Zenon DEF Headings
    <2>3. \A n : n \in Headings(more) <=> n \in Headings(said) \/ n \in ToSet(Tokens(d))
      BY <1>1, <2>1, <2>2
    <2> QED
      BY <2>3
  <1>3. ASSUME NEW n \in ToSet(Tokens(d))
        PROVE  LastUnder(more, n) = IF Last(Tokens(d)) = n THEN d.block ELSE <<>>
    <2> DEFINE now == {i \in DOMAIN more : n \in ToSet(Tokens(more[i]))}
               top == Max(now)
    <2>1. last \in now /\ \A i \in now : i \in Nat /\ i <= last
      <3>1. n \in ToSet(Tokens(more[last]))
        BY <1>1, <1>3
      <3>2. last \in DOMAIN more /\ \A i \in DOMAIN more : i \in Nat /\ i <= last
        BY <1>1
      <3> QED
        BY <3>1, <3>2
    <2>2. LastUnder(more, n) = IF Last(Tokens(more[top])) = n THEN more[top].block ELSE <<>>
      BY Zenon DEF LastUnder
    <2> HIDE DEF now
    <2>3. \E x \in now : \A y \in now : x >= y
      BY <2>1, <1>1
    <2>4. top \in now /\ \A y \in now : top >= y
      BY <2>3 DEF Max
    <2> HIDE DEF top
    <2>5. top = last
      BY <1>1, <2>1, <2>4
    <2> QED
      BY <1>1, <2>2, <2>5
  <1>4. ASSUME NEW n \in Headings(said), n \notin ToSet(Tokens(d))
        PROVE  LastUnder(more, n) = LastUnder(said, n)
    <2> DEFINE now == {i \in DOMAIN more : n \in ToSet(Tokens(more[i]))}
               at == {i \in DOMAIN said : n \in ToSet(Tokens(said[i]))}
    <2>1. now = at
      BY <1>1, <1>4
    <2>2. at # {} /\ at \in SUBSET (1..Len(said))
      <3>1. \E i \in DOMAIN said : n \in ToSet(Tokens(said[i]))
        BY Zenon DEF Headings
      <3> QED
        BY <1>1, <3>1
    <2>3. /\ LastUnder(more, n) = IF Last(Tokens(more[Max(now)])) = n THEN more[Max(now)].block ELSE <<>>
          /\ LastUnder(said, n) = IF Last(Tokens(said[Max(at)])) = n THEN said[Max(at)].block ELSE <<>>
      BY Zenon DEF LastUnder
    <2> HIDE DEF now, at
    <2>4. Max(at) \in DOMAIN said
      BY <1>1, <2>2, MaxThere
    <2>5. PICK top : top = Max(at)
      OBVIOUS
    <2>6. more[top] = said[top] /\ Max(now) = top
      BY <1>1, <2>1, <2>4, <2>5
    <2>7. /\ LastUnder(more, n) = IF Last(Tokens(more[top])) = n THEN more[top].block ELSE <<>>
          /\ LastUnder(said, n) = IF Last(Tokens(said[top])) = n THEN said[top].block ELSE <<>>
      BY <2>3, <2>5, <2>6, Zenon
    <2>8. PICK line : line = said[top]
      OBVIOUS
    <2>9. more[top] = line
      BY <2>6, <2>8
    <2>10. /\ LastUnder(more, n) = IF Last(Tokens(line)) = n THEN line.block ELSE <<>>
           /\ LastUnder(said, n) = IF Last(Tokens(line)) = n THEN line.block ELSE <<>>
      BY <2>7, <2>8, <2>9, Zenon
    <2>11. CASE Last(Tokens(line)) = n
      BY <2>10, <2>11
    <2>12. CASE Last(Tokens(line)) # n
      BY <2>10, <2>12
    <2> QED
      BY <2>11, <2>12
  <1> QED
    BY <1>2, <1>3, <1>4 DEF more

TypesSet == MapSet(SUBSET Words)
TypesSaid(said, acc) == TypesSay(said, acc.val)

LEMMA TypesStart == Nothing \in TypesSet /\ TypesSaid(<<>>, Nothing)
  BY EmptyMap DEF TypesSet, TypesSaid, TypesSay, Nothing

LEMMA TypesStep ==
    ASSUME NEW acc \in TypesSet, NEW d \in Lines
    PROVE  LET e == TypesDirective(acc, d)
           IN  /\ e \in TypesSet
               /\ \A said \in Seq(Lines) : TypesSaid(said, acc) /\ ~e.err => TypesSaid(Append(said, d), e)
  <1> DEFINE e == TypesDirective(acc, d)
  <1>1. CASE d.name \in DOMAIN acc.val
    BY <1>1 DEF TypesDirective, Fail, TypesSet, MapSet
  <1>2. CASE d.name \notin DOMAIN acc.val
    <2>1. e = Add(acc, d.name, ToSet(d.args)) /\ ToSet(d.args) \in SUBSET Words
      BY <1>2, OfLine DEF TypesDirective
    <2>2. /\ e \in TypesSet /\ DOMAIN e.val = DOMAIN acc.val \cup {d.name} /\ e.val[d.name] = ToSet(d.args)
          /\ \A n \in DOMAIN acc.val : e.val[n] = acc.val[n]
      BY <1>2, <2>1, AddInMap DEF TypesSet
    <2>3. ASSUME NEW said \in Seq(Lines), TypesSaid(said, acc)
          PROVE  TypesSaid(Append(said, d), e)
      <3>1. DOMAIN acc.val = Names(said) /\ \A i \in DOMAIN said : acc.val[said[i].name] = ToSet(said[i].args)
        BY <2>3 DEF TypesSaid, TypesSay
      <3>2. \A i \in DOMAIN said : said[i].name \in DOMAIN acc.val
        BY <3>1 DEF Names
      <3> DEFINE more == Append(said, d)
      <3>3. \A i \in DOMAIN more : (i \in DOMAIN said /\ more[i] = said[i]) \/ more[i] = d
        BY LinesAppend
      <3>4. DOMAIN e.val = Names(more)
        BY <2>2, <3>1, NamesAppend
      <3> HIDE DEF more
      <3>5. \A i \in DOMAIN more : e.val[more[i].name] = ToSet(more[i].args)
        BY <2>2, <3>1, <3>2, <3>3
      <3> QED
        BY <3>4, <3>5 DEF TypesSaid, TypesSay, more
    <2> QED
      BY <2>2, <2>3
  <1> QED
    BY <1>1, <1>2

\* unmarshalCaddyfileTypes.
LEMMA TypesParsed ==
    ASSUME NEW block \in Seq(Lines)
    PROVE  LET r == Parse(TypesDirective, Nothing, block)
           IN  r \in TypesSet /\ (~r.err => TypesSaid(block, r))
  <1> DEFINE step == [x \in TypesSet \X Lines |-> TypesDirective(x[1], x[2])]
             after == CHOOSE f : f = [n \in 0..Len(block) |->
                        IF n = 0 THEN Nothing
                        ELSE LET before == f[n - 1]
                             IN  IF before.err THEN before ELSE TypesDirective(before, block[n])]
             good == {x \in Seq(Lines) \X TypesSet : TypesSaid(x[1], x[2])}
  <1>1. /\ Nothing \in TypesSet /\ TypesSaid(<<>>, Nothing)
        /\ step \in [TypesSet \X Lines -> TypesSet]
        /\ \A s \in TypesSet, d \in Lines : step[<<s, d>>] = TypesDirective(s, d)
    BY TypesStart, TypesStep
  <1> HIDE DEF step
  <1>2. \A n \in 0..Len(block) : n # 0 => n \in 1..Len(block) /\ block[n] \in Lines /\ n - 1 \in 0..Len(block)
    OBVIOUS
  <1>3. PICK f \in [0..Len(block) -> TypesSet] : Parses(f, step, Nothing, block)
    BY <1>1, ParsesExists
  <1>4. f = [n \in 0..Len(block) |->
              IF n = 0 THEN Nothing
              ELSE LET before == f[n - 1]
                   IN  IF before.err THEN before ELSE TypesDirective(before, block[n])]
    BY <1>1, <1>2, <1>3 DEF Parses
  <1>5. after = [n \in 0..Len(block) |->
              IF n = 0 THEN Nothing
              ELSE LET before == after[n - 1]
                   IN  IF before.err THEN before ELSE TypesDirective(before, block[n])]
    BY <1>4, Zenon
  <1>6. Parse(TypesDirective, Nothing, block) = after[Len(block)]
    BY Zenon DEF Parse
  <1> HIDE DEF after
  <1>7. /\ after[0] = Nothing
        /\ \A n \in 1..Len(block) : after[n - 1] \in TypesSet =>
               after[n] = IF after[n - 1].err THEN after[n - 1] ELSE step[<<after[n - 1], block[n]>>]
    BY <1>1, <1>2, <1>5
  <1>8. \A said \in Seq(Lines), s \in TypesSet : <<said, s>> \in good <=> TypesSaid(said, s)
    OBVIOUS
  <1>9. good \subseteq Seq(Lines) \X TypesSet /\ <<>> \in Seq(Lines)
    OBVIOUS
  <1> HIDE DEF good
  <1>10. ASSUME NEW said \in Seq(Lines), NEW s \in TypesSet, NEW d \in Lines,
                ~s.err, <<said, s>> \in good, ~step[<<s, d>>].err
         PROVE  <<Append(said, d), step[<<s, d>>]>> \in good
    <2>1. Append(said, d) \in Seq(Lines) /\ TypesSaid(said, s)
      BY <1>8, <1>10
    <2> QED
      BY <1>1, <1>8, <1>10, <2>1, TypesStep
  <1>11. <<<<>>, Nothing>> \in good
    BY <1>1, <1>8, <1>9
  <1>12. after[Len(block)] \in TypesSet /\ (~after[Len(block)].err => <<block, after[Len(block)]>> \in good)
    BY <1>1, <1>7, <1>10, <1>11, ParsedIsGood, Zenon
  <1> QED
    BY <1>6, <1>8, <1>12

-----------------------------------------------------------------------------
\* The rules.
RuleSet ==
    [err : BOOLEAN, types : Maps(Keys, SUBSET Words), max_age : Values, swr : Values, varies : SUBSET Words]

LEMMA RuleStart == NewRule \in RuleSet /\ RuleSays(<<>>, NewRule)
  <1>1. \A name : Number(<<>>, name, Duration) = 0 /\ LastArgs(<<>>, name) = <<>> /\ LastBlock(<<>>, name) = <<>>
    BY LastNothing DEF Number
  <1>2. 0 \in Values /\ <<>> \in Maps(Keys, SUBSET Words) /\ ToSet(<<>>) = {}
    BY EmptyMap DEF Values, ToSet
  <1>3. TypesSay(<<>>, <<>>)
    BY EmptyMap DEF TypesSay
  <1> QED
    BY <1>1, <1>2, <1>3 DEF NewRule, RuleSet, RuleSays

LEMMA RuleStep ==
    ASSUME NEW r \in RuleSet, NEW d \in Lines
    PROVE  LET e == RuleDirective(r, d)
           IN  /\ e \in RuleSet
               /\ \A said \in Seq(Lines) : RuleSays(said, r) /\ ~e.err => RuleSays(Append(said, d), e)
  <1> DEFINE e == RuleDirective(r, d)
  <1>1. CASE d.name = "types"
    <2> DEFINE types == Parse(TypesDirective, Nothing, d.block)
    <2>1. e = [r EXCEPT !.err = types.err, !.types = types.val]
      BY <1>1 DEF RuleDirective
    <2>2. types \in TypesSet /\ (~types.err => TypesSaid(d.block, types))
      BY OfLine, TypesParsed
    <2> HIDE DEF types
    <2>3. /\ e \in RuleSet /\ e.err = types.err /\ e.types = types.val
          /\ e.max_age = r.max_age /\ e.swr = r.swr /\ e.varies = r.varies
      BY <2>1, <2>2 DEF RuleSet, TypesSet, MapSet
    <2>4. ASSUME NEW said \in Seq(Lines), RuleSays(said, r), ~types.err
          PROVE  RuleSays(Append(said, d), e)
      <3>1. TypesSay(d.block, e.types)
        BY <2>2, <2>3, <2>4 DEF TypesSaid
      <3>2. LastBlock(Append(said, d), "types") = d.block /\ LastArgs(Append(said, d), "varies") = LastArgs(said, "varies")
        BY <1>1, LastAppend
      <3> QED
        BY <1>1, <2>3, <2>4, <3>1, <3>2, DurationAppend DEF RuleSays
    <2> QED
      BY <2>3, <2>4
  <1>2. CASE d.name \in {"max_age", "swr"} /\ Takes(d, DOMAIN Duration)
    <2>1. e = [r EXCEPT ![d.name] = Duration[Arg(d)]] /\ Duration[Arg(d)] \in Values
      BY <1>2, ReadsAs DEF RuleDirective
    <2>2. /\ e \in RuleSet /\ e.types = r.types /\ e.varies = r.varies
          /\ e.max_age = IF d.name = "max_age" THEN Duration[Arg(d)] ELSE r.max_age
          /\ e.swr = IF d.name = "swr" THEN Duration[Arg(d)] ELSE r.swr
      BY <1>2, <2>1 DEF RuleSet
    <2>3. ASSUME NEW said \in Seq(Lines), RuleSays(said, r)
          PROVE  RuleSays(Append(said, d), e)
      <3>1. /\ LastBlock(Append(said, d), "types") = LastBlock(said, "types")
            /\ LastArgs(Append(said, d), "varies") = LastArgs(said, "varies")
        BY <1>2, LastAppend
      <3> QED
        BY <1>2, <2>2, <2>3, <3>1, DurationAppend DEF RuleSays
    <2> QED
      BY <2>2, <2>3
  <1>3. CASE d.name = "varies" /\ TakesSome(d)
    <2>1. e = [r EXCEPT !.varies = ToSet(d.args)] /\ ToSet(d.args) \subseteq Words
      BY <1>3, OfLine DEF RuleDirective
    <2>2. /\ e \in RuleSet /\ e.types = r.types /\ e.varies = ToSet(d.args)
          /\ e.max_age = r.max_age /\ e.swr = r.swr
      BY <2>1 DEF RuleSet
    <2>3. ASSUME NEW said \in Seq(Lines), RuleSays(said, r)
          PROVE  RuleSays(Append(said, d), e)
      <3>1. /\ LastBlock(Append(said, d), "types") = LastBlock(said, "types")
            /\ LastArgs(Append(said, d), "varies") = d.args
        BY <1>3, LastAppend
      <3> QED
        BY <1>3, <2>2, <2>3, <3>1, DurationAppend DEF RuleSays
    <2> QED
      BY <2>2, <2>3
  <1>4. CASE /\ d.name # "types"
             /\ ~(d.name \in {"max_age", "swr"} /\ Takes(d, DOMAIN Duration))
             /\ ~(d.name = "varies" /\ TakesSome(d))
    BY <1>4 DEF RuleDirective, Fail, RuleSet
  <1> QED
    BY <1>1, <1>2, <1>3, <1>4

\* unmarshalCaddyfileRules, of one rule.
LEMMA RuleParsed ==
    ASSUME NEW block \in Seq(Lines)
    PROVE  LET r == Parse(RuleDirective, NewRule, block)
           IN  r \in RuleSet /\ (~r.err => RuleSays(block, r))
  <1> DEFINE step == [x \in RuleSet \X Lines |-> RuleDirective(x[1], x[2])]
             after == CHOOSE f : f = [n \in 0..Len(block) |->
                        IF n = 0 THEN NewRule
                        ELSE LET before == f[n - 1]
                             IN  IF before.err THEN before ELSE RuleDirective(before, block[n])]
             good == {x \in Seq(Lines) \X RuleSet : RuleSays(x[1], x[2])}
  <1>1. /\ NewRule \in RuleSet /\ RuleSays(<<>>, NewRule)
        /\ step \in [RuleSet \X Lines -> RuleSet]
        /\ \A s \in RuleSet, d \in Lines : step[<<s, d>>] = RuleDirective(s, d)
    BY RuleStart, RuleStep
  <1> HIDE DEF step
  <1>2. \A n \in 0..Len(block) : n # 0 => n \in 1..Len(block) /\ block[n] \in Lines /\ n - 1 \in 0..Len(block)
    OBVIOUS
  <1>3. PICK f \in [0..Len(block) -> RuleSet] : Parses(f, step, NewRule, block)
    BY <1>1, ParsesExists
  <1>4. f = [n \in 0..Len(block) |->
              IF n = 0 THEN NewRule
              ELSE LET before == f[n - 1]
                   IN  IF before.err THEN before ELSE RuleDirective(before, block[n])]
    BY <1>1, <1>2, <1>3 DEF Parses
  <1>5. after = [n \in 0..Len(block) |->
              IF n = 0 THEN NewRule
              ELSE LET before == after[n - 1]
                   IN  IF before.err THEN before ELSE RuleDirective(before, block[n])]
    BY <1>4, Zenon
  <1>6. Parse(RuleDirective, NewRule, block) = after[Len(block)]
    BY Zenon DEF Parse
  <1> HIDE DEF after
  <1>7. /\ after[0] = NewRule
        /\ \A n \in 1..Len(block) : after[n - 1] \in RuleSet =>
               after[n] = IF after[n - 1].err THEN after[n - 1] ELSE step[<<after[n - 1], block[n]>>]
    BY <1>1, <1>2, <1>5
  <1>8. \A said \in Seq(Lines), s \in RuleSet : <<said, s>> \in good <=> RuleSays(said, s)
    OBVIOUS
  <1>9. good \subseteq Seq(Lines) \X RuleSet /\ <<>> \in Seq(Lines)
    OBVIOUS
  <1> HIDE DEF good
  <1>10. ASSUME NEW said \in Seq(Lines), NEW s \in RuleSet, NEW d \in Lines,
                ~s.err, <<said, s>> \in good, ~step[<<s, d>>].err
         PROVE  <<Append(said, d), step[<<s, d>>]>> \in good
    <2>1. Append(said, d) \in Seq(Lines) /\ RuleSays(said, s)
      BY <1>8, <1>10
    <2> QED
      BY <1>1, <1>8, <1>10, <2>1, RuleStep
  <1>11. <<<<>>, NewRule>> \in good
    BY <1>1, <1>8, <1>9
  <1>12. after[Len(block)] \in RuleSet /\ (~after[Len(block)].err => <<block, after[Len(block)]>> \in good)
    BY <1>1, <1>7, <1>10, <1>11, ParsedIsGood, Zenon
  <1> QED
    BY <1>6, <1>8, <1>12

RulesSet == MapSet(RuleSet)
RulesSaid(said, acc) == RulesSay(said, acc.val)

LEMMA RulesStart == Nothing \in RulesSet /\ RulesSaid(<<>>, Nothing)
  BY EmptyMap DEF RulesSet, RulesSaid, RulesSay, Nothing, Headings

LEMMA RulesStep ==
    ASSUME NEW acc \in RulesSet, NEW d \in Lines
    PROVE  LET e == RulesDirective(acc, d)
           IN  /\ e \in RulesSet
               /\ \A said \in Seq(Lines) : RulesSaid(said, acc) /\ ~e.err => RulesSaid(Append(said, d), e)
  <1> DEFINE e == RulesDirective(acc, d)
             one == Parse(RuleDirective, NewRule, d.block)
  <1>1. one \in RuleSet /\ (~one.err => RuleSays(d.block, one))
    BY OfLine, RuleParsed
  <1>2. e = IF one.err THEN Fail(acc) ELSE Enter(acc, d, NewRule, one)
    BY DEF RulesDirective
  <1> DEFINE named == ToSet(Tokens(d))
  <1> HIDE DEF one, e, named
  <1>3. CASE one.err
    <2>1. e \in RulesSet /\ e.err
      BY <1>2, <1>3 DEF Fail, RulesSet, MapSet
    <2> QED
      BY <2>1 DEF e
  <1>4. CASE ~one.err
    <2>1. /\ e \in RulesSet /\ DOMAIN e.val = DOMAIN acc.val \cup named
          /\ \A n \in named : e.val[n] = IF Last(Tokens(d)) = n THEN one ELSE NewRule
          /\ \A n \in DOMAIN acc.val \ named : e.val[n] = acc.val[n]
      <3>1. NewRule \in RuleSet
        BY RuleStart
      <3> QED
        BY <1>1, <1>2, <1>4, <3>1, EnterInMap DEF RulesSet, named
    <2>2. ASSUME NEW said \in Seq(Lines), RulesSaid(said, acc)
          PROVE  RulesSaid(Append(said, d), e)
      <3> DEFINE more == Append(said, d)
      <3>1. DOMAIN acc.val = Headings(said) /\ \A n \in Headings(said) : RuleSays(LastUnder(said, n), acc.val[n])
        BY <2>2 DEF RulesSaid, RulesSay
      <3>2. /\ Headings(more) = Headings(said) \cup named
            /\ \A n \in named : LastUnder(more, n) = IF Last(Tokens(d)) = n THEN d.block ELSE <<>>
            /\ \A n \in Headings(said) \ named : LastUnder(more, n) = LastUnder(said, n)
        BY UnderAppend DEF named
      <3>3. RuleSays(<<>>, NewRule)
        BY RuleStart
      <3> HIDE DEF more
      <3>4. \A n \in Headings(more) : RuleSays(LastUnder(more, n), e.val[n])
        <4>1. \A n \in named : RuleSays(LastUnder(more, n), e.val[n])
          BY <1>1, <1>4, <2>1, <3>2, <3>3
        <4>2. \A n \in Headings(said) \ named : RuleSays(LastUnder(more, n), e.val[n])
          BY <2>1, <3>1, <3>2
        <4> QED
          BY <3>2, <4>1, <4>2
      <3> QED
        BY <2>1, <3>1, <3>2, <3>4 DEF RulesSaid, RulesSay, more
    <2> QED
      BY <2>1, <2>2 DEF e
  <1> QED
    BY <1>3, <1>4 DEF e

\* unmarshalCaddyfileRules.
LEMMA RulesParsed ==
    ASSUME NEW block \in Seq(Lines)
    PROVE  LET r == Parse(RulesDirective, Nothing, block)
           IN  r \in RulesSet /\ (~r.err => RulesSaid(block, r))
  <1> DEFINE step == [x \in RulesSet \X Lines |-> RulesDirective(x[1], x[2])]
             after == CHOOSE f : f = [n \in 0..Len(block) |->
                        IF n = 0 THEN Nothing
                        ELSE LET before == f[n - 1]
                             IN  IF before.err THEN before ELSE RulesDirective(before, block[n])]
             good == {x \in Seq(Lines) \X RulesSet : RulesSaid(x[1], x[2])}
  <1>1. /\ Nothing \in RulesSet /\ RulesSaid(<<>>, Nothing)
        /\ step \in [RulesSet \X Lines -> RulesSet]
        /\ \A s \in RulesSet, d \in Lines : step[<<s, d>>] = RulesDirective(s, d)
    BY RulesStart, RulesStep
  <1> HIDE DEF step
  <1>2. \A n \in 0..Len(block) : n # 0 => n \in 1..Len(block) /\ block[n] \in Lines /\ n - 1 \in 0..Len(block)
    OBVIOUS
  <1>3. PICK f \in [0..Len(block) -> RulesSet] : Parses(f, step, Nothing, block)
    BY <1>1, ParsesExists
  <1>4. f = [n \in 0..Len(block) |->
              IF n = 0 THEN Nothing
              ELSE LET before == f[n - 1]
                   IN  IF before.err THEN before ELSE RulesDirective(before, block[n])]
    BY <1>1, <1>2, <1>3 DEF Parses
  <1>5. after = [n \in 0..Len(block) |->
              IF n = 0 THEN Nothing
              ELSE LET before == after[n - 1]
                   IN  IF before.err THEN before ELSE RulesDirective(before, block[n])]
    BY <1>4, Zenon
  <1>6. Parse(RulesDirective, Nothing, block) = after[Len(block)]
    BY Zenon DEF Parse
  <1> HIDE DEF after
  <1>7. /\ after[0] = Nothing
        /\ \A n \in 1..Len(block) : after[n - 1] \in RulesSet =>
               after[n] = IF after[n - 1].err THEN after[n - 1] ELSE step[<<after[n - 1], block[n]>>]
    BY <1>1, <1>2, <1>5
  <1>8. \A said \in Seq(Lines), s \in RulesSet : <<said, s>> \in good <=> RulesSaid(said, s)
    OBVIOUS
  <1>9. good \subseteq Seq(Lines) \X RulesSet /\ <<>> \in Seq(Lines)
    OBVIOUS
  <1> HIDE DEF good
  <1>10. ASSUME NEW said \in Seq(Lines), NEW s \in RulesSet, NEW d \in Lines,
                ~s.err, <<said, s>> \in good, ~step[<<s, d>>].err
         PROVE  <<Append(said, d), step[<<s, d>>]>> \in good
    <2>1. Append(said, d) \in Seq(Lines) /\ RulesSaid(said, s)
      BY <1>8, <1>10
    <2> QED
      BY <1>1, <1>8, <1>10, <2>1, RulesStep
  <1>11. <<<<>>, Nothing>> \in good
    BY <1>1, <1>8, <1>9
  <1>12. after[Len(block)] \in RulesSet /\ (~after[Len(block)].err => <<block, after[Len(block)]>> \in good)
    BY <1>1, <1>7, <1>10, <1>11, ParsedIsGood, Zenon
  <1> QED
    BY <1>6, <1>8, <1>12

VariesSet == MapSet(VarySet)
VariesSaid(said, acc) == VariesSay(said, acc.val)

LEMMA VariesStart == Nothing \in VariesSet /\ VariesSaid(<<>>, Nothing)
  BY EmptyMap DEF VariesSet, VariesSaid, VariesSay, Nothing, Headings

LEMMA VariesStep ==
    ASSUME NEW acc \in VariesSet, NEW d \in Lines
    PROVE  LET e == VariesDirective(acc, d)
           IN  /\ e \in VariesSet
               /\ \A said \in Seq(Lines) : VariesSaid(said, acc) /\ ~e.err => VariesSaid(Append(said, d), e)
  <1> DEFINE e == VariesDirective(acc, d)
             one == Parse(VaryDirective, NewVary, d.block)
  <1>1. one \in VarySet /\ (~one.err => VarySays(d.block, one))
    BY OfLine, VaryParsed
  <1>2. e = IF one.err THEN Fail(acc) ELSE Enter(acc, d, NewVary, one)
    BY DEF VariesDirective
  <1> DEFINE named == ToSet(Tokens(d))
  <1> HIDE DEF one, e, named
  <1>3. CASE one.err
    <2>1. e \in VariesSet /\ e.err
      BY <1>2, <1>3 DEF Fail, VariesSet, MapSet
    <2> QED
      BY <2>1 DEF e
  <1>4. CASE ~one.err
    <2>1. /\ e \in VariesSet /\ DOMAIN e.val = DOMAIN acc.val \cup named
          /\ \A n \in named : e.val[n] = IF Last(Tokens(d)) = n THEN one ELSE NewVary
          /\ \A n \in DOMAIN acc.val \ named : e.val[n] = acc.val[n]
      <3>1. NewVary \in VarySet
        BY VaryStart
      <3> QED
        BY <1>1, <1>2, <1>4, <3>1, EnterInMap DEF VariesSet, named
    <2>2. ASSUME NEW said \in Seq(Lines), VariesSaid(said, acc)
          PROVE  VariesSaid(Append(said, d), e)
      <3> DEFINE more == Append(said, d)
      <3>1. DOMAIN acc.val = Headings(said) /\ \A n \in Headings(said) : VarySays(LastUnder(said, n), acc.val[n])
        BY <2>2 DEF VariesSaid, VariesSay
      <3>2. /\ Headings(more) = Headings(said) \cup named
            /\ \A n \in named : LastUnder(more, n) = IF Last(Tokens(d)) = n THEN d.block ELSE <<>>
            /\ \A n \in Headings(said) \ named : LastUnder(more, n) = LastUnder(said, n)
        BY UnderAppend DEF named
      <3>3. VarySays(<<>>, NewVary)
        BY VaryStart
      <3> HIDE DEF more
      <3>4. \A n \in Headings(more) : VarySays(LastUnder(more, n), e.val[n])
        <4>1. \A n \in named : VarySays(LastUnder(more, n), e.val[n])
          BY <1>1, <1>4, <2>1, <3>2, <3>3
        <4>2. \A n \in Headings(said) \ named : VarySays(LastUnder(more, n), e.val[n])
          BY <2>1, <3>1, <3>2
        <4> QED
          BY <3>2, <4>1, <4>2
      <3> QED
        BY <2>1, <3>1, <3>2, <3>4 DEF VariesSaid, VariesSay, more
    <2> QED
      BY <2>1, <2>2 DEF e
  <1> QED
    BY <1>3, <1>4 DEF e

\* unmarshalCaddyfileVaries.
LEMMA VariesParsed ==
    ASSUME NEW block \in Seq(Lines)
    PROVE  LET r == Parse(VariesDirective, Nothing, block)
           IN  r \in VariesSet /\ (~r.err => VariesSaid(block, r))
  <1> DEFINE step == [x \in VariesSet \X Lines |-> VariesDirective(x[1], x[2])]
             after == CHOOSE f : f = [n \in 0..Len(block) |->
                        IF n = 0 THEN Nothing
                        ELSE LET before == f[n - 1]
                             IN  IF before.err THEN before ELSE VariesDirective(before, block[n])]
             good == {x \in Seq(Lines) \X VariesSet : VariesSaid(x[1], x[2])}
  <1>1. /\ Nothing \in VariesSet /\ VariesSaid(<<>>, Nothing)
        /\ step \in [VariesSet \X Lines -> VariesSet]
        /\ \A s \in VariesSet, d \in Lines : step[<<s, d>>] = VariesDirective(s, d)
    BY VariesStart, VariesStep
  <1> HIDE DEF step
  <1>2. \A n \in 0..Len(block) : n # 0 => n \in 1..Len(block) /\ block[n] \in Lines /\ n - 1 \in 0..Len(block)
    OBVIOUS
  <1>3. PICK f \in [0..Len(block) -> VariesSet] : Parses(f, step, Nothing, block)
    BY <1>1, ParsesExists
  <1>4. f = [n \in 0..Len(block) |->
              IF n = 0 THEN Nothing
              ELSE LET before == f[n - 1]
                   IN  IF before.err THEN before ELSE VariesDirective(before, block[n])]
    BY <1>1, <1>2, <1>3 DEF Parses
  <1>5. after = [n \in 0..Len(block) |->
              IF n = 0 THEN Nothing
              ELSE LET before == after[n - 1]
                   IN  IF before.err THEN before ELSE VariesDirective(before, block[n])]
    BY <1>4, Zenon
  <1>6. Parse(VariesDirective, Nothing, block) = after[Len(block)]
    BY Zenon DEF Parse
  <1> HIDE DEF after
  <1>7. /\ after[0] = Nothing
        /\ \A n \in 1..Len(block) : after[n - 1] \in VariesSet =>
               after[n] = IF after[n - 1].err THEN after[n - 1] ELSE step[<<after[n - 1], block[n]>>]
    BY <1>1, <1>2, <1>5
  <1>8. \A said \in Seq(Lines), s \in VariesSet : <<said, s>> \in good <=> VariesSaid(said, s)
    OBVIOUS
  <1>9. good \subseteq Seq(Lines) \X VariesSet /\ <<>> \in Seq(Lines)
    OBVIOUS
  <1> HIDE DEF good
  <1>10. ASSUME NEW said \in Seq(Lines), NEW s \in VariesSet, NEW d \in Lines,
                ~s.err, <<said, s>> \in good, ~step[<<s, d>>].err
         PROVE  <<Append(said, d), step[<<s, d>>]>> \in good
    <2>1. Append(said, d) \in Seq(Lines) /\ VariesSaid(said, s)
      BY <1>8, <1>10
    <2> QED
      BY <1>1, <1>8, <1>10, <2>1, VariesStep
  <1>11. <<<<>>, Nothing>> \in good
    BY <1>1, <1>8, <1>9
  <1>12. after[Len(block)] \in VariesSet /\ (~after[Len(block)].err => <<block, after[Len(block)]>> \in good)
    BY <1>1, <1>7, <1>10, <1>11, ParsedIsGood, Zenon
  <1> QED
    BY <1>6, <1>8, <1>12

-----------------------------------------------------------------------------
\* The type keys.
TypeKeysSet == MapSet(SUBSET Words)
TypeKeysSaid(said, acc) == TypeKeysSay(said, acc.val)

LEMMA TypeKeysStart == Nothing \in TypeKeysSet /\ TypeKeysSaid(<<>>, Nothing)
  BY EmptyMap DEF TypeKeysSet, TypeKeysSaid, TypeKeysSay, Nothing

LEMMA TypeKeysStep ==
    ASSUME NEW acc \in TypeKeysSet, NEW d \in Lines
    PROVE  LET e == TypeKeysDirective(acc, d)
           IN  /\ e \in TypeKeysSet
               /\ \A said \in Seq(Lines) : TypeKeysSaid(said, acc) /\ ~e.err => TypeKeysSaid(Append(said, d), e)
  <1> DEFINE e == TypeKeysDirective(acc, d)
  <1>1. CASE ~TakesSome(d)
    BY <1>1 DEF TypeKeysDirective, Fail, TypeKeysSet, MapSet
  <1>2. CASE TakesSome(d)
    <2> DEFINE fields == ToSet(d.args) \cup UNION {acc.val[t] : t \in DOMAIN acc.val}
               val == [t \in DOMAIN acc.val \cup {d.name} |-> fields]
    <2>1. e = [acc EXCEPT !.val = val]
      BY <1>2 DEF TypeKeysDirective
    <2>2. PICK X \in SUBSET Keys : acc.val \in [X -> SUBSET Words]
      <3>1. acc.val \in Maps(Keys, SUBSET Words)
        BY DEF TypeKeysSet, MapSet
      <3> QED
        BY <3>1, Zenon DEF Maps
    <2>3. fields \in SUBSET Words /\ ToSet(d.args) \subseteq fields
      <3>1. ToSet(d.args) \subseteq Words /\ \A t \in DOMAIN acc.val : acc.val[t] \subseteq Words
        BY <2>2, OfLine
      <3> QED
        BY <3>1
    <2>4. \A t \in DOMAIN acc.val : acc.val[t] \subseteq fields
      OBVIOUS
    <2> HIDE DEF fields
    <2>5. val \in [X \cup {d.name} -> SUBSET Words] /\ X \cup {d.name} \in SUBSET Keys
      BY <2>2, <2>3 DEF Keys
    <2>6. DOMAIN val = DOMAIN acc.val \cup {d.name} /\ \A t \in DOMAIN val : val[t] = fields
      OBVIOUS
    <2> HIDE DEF val
    <2>7. e \in TypeKeysSet /\ e.val = val
      <3>1. val \in Maps(Keys, SUBSET Words)
        BY <2>5, Zenon DEF Maps
      <3> QED
        BY <2>1, <3>1 DEF TypeKeysSet, MapSet
    <2>8. ASSUME NEW said \in Seq(Lines), TypeKeysSaid(said, acc)
          PROVE  TypeKeysSaid(Append(said, d), e)
      <3>1. DOMAIN acc.val = Names(said) /\ \A i \in DOMAIN said : ToSet(said[i].args) \subseteq acc.val[said[i].name]
        BY <2>8 DEF TypeKeysSaid, TypeKeysSay
      <3>2. \A i \in DOMAIN said : said[i].name \in DOMAIN acc.val
        BY <3>1 DEF Names
      <3> DEFINE more == Append(said, d)
      <3>3. \A i \in DOMAIN more : (i \in DOMAIN said /\ more[i] = said[i]) \/ more[i] = d
        BY LinesAppend
      <3>4. DOMAIN val = Names(more)
        BY <2>6, <3>1, NamesAppend
      <3> HIDE DEF more
      <3>5. \A i \in DOMAIN more : ToSet(more[i].args) \subseteq val[more[i].name]
        BY <2>3, <2>4, <2>6, <3>1, <3>2, <3>3
      <3> QED
        BY <2>7, <3>4, <3>5 DEF TypeKeysSaid, TypeKeysSay, more
    <2> QED
      BY <2>7, <2>8
  <1> QED
    BY <1>1, <1>2

\* unmarshalCaddyfileTypeKeys.
LEMMA TypeKeysParsed ==
    ASSUME NEW block \in Seq(Lines)
    PROVE  LET r == Parse(TypeKeysDirective, Nothing, block)
           IN  r \in TypeKeysSet /\ (~r.err => TypeKeysSaid(block, r))
  <1> DEFINE step == [x \in TypeKeysSet \X Lines |-> TypeKeysDirective(x[1], x[2])]
             after == CHOOSE f : f = [n \in 0..Len(block) |->
                        IF n = 0 THEN Nothing
                        ELSE LET before == f[n - 1]
                             IN  IF before.err THEN before ELSE TypeKeysDirective(before, block[n])]
             good == {x \in Seq(Lines) \X TypeKeysSet : TypeKeysSaid(x[1], x[2])}
  <1>1. /\ Nothing \in TypeKeysSet /\ TypeKeysSaid(<<>>, Nothing)
        /\ step \in [TypeKeysSet \X Lines -> TypeKeysSet]
        /\ \A s \in TypeKeysSet, d \in Lines : step[<<s, d>>] = TypeKeysDirective(s, d)
    BY TypeKeysStart, TypeKeysStep
  <1> HIDE DEF step
  <1>2. \A n \in 0..Len(block) : n # 0 => n \in 1..Len(block) /\ block[n] \in Lines /\ n - 1 \in 0..Len(block)
    OBVIOUS
  <1>3. PICK f \in [0..Len(block) -> TypeKeysSet] : Parses(f, step, Nothing, block)
    BY <1>1, ParsesExists
  <1>4. f = [n \in 0..Len(block) |->
              IF n = 0 THEN Nothing
              ELSE LET before == f[n - 1]
                   IN  IF before.err THEN before ELSE TypeKeysDirective(before, block[n])]
    BY <1>1, <1>2, <1>3 DEF Parses
  <1>5. after = [n \in 0..Len(block) |->
              IF n = 0 THEN Nothing
              ELSE LET before == after[n - 1]
                   IN  IF before.err THEN before ELSE TypeKeysDirective(before, block[n])]
    BY <1>4, Zenon
  <1>6. Parse(TypeKeysDirective, Nothing, block) = after[Len(block)]
    BY Zenon DEF Parse
  <1> HIDE DEF after
  <1>7. /\ after[0] = Nothing
        /\ \A n \in 1..Len(block) : after[n - 1] \in TypeKeysSet =>
               after[n] = IF after[n - 1].err THEN after[n - 1] ELSE step[<<after[n - 1], block[n]>>]
    BY <1>1, <1>2, <1>5
  <1>8. \A said \in Seq(Lines), s \in TypeKeysSet : <<said, s>> \in good <=> TypeKeysSaid(said, s)
    OBVIOUS
  <1>9. good \subseteq Seq(Lines) \X TypeKeysSet /\ <<>> \in Seq(Lines)
    OBVIOUS
  <1> HIDE DEF good
  <1>10. ASSUME NEW said \in Seq(Lines), NEW s \in TypeKeysSet, NEW d \in Lines,
                ~s.err, <<said, s>> \in good, ~step[<<s, d>>].err
         PROVE  <<Append(said, d), step[<<s, d>>]>> \in good
    <2>1. Append(said, d) \in Seq(Lines) /\ TypeKeysSaid(said, s)
      BY <1>8, <1>10
    <2> QED
      BY <1>1, <1>8, <1>10, <2>1, TypeKeysStep
  <1>11. <<<<>>, Nothing>> \in good
    BY <1>1, <1>8, <1>9
  <1>12. after[Len(block)] \in TypeKeysSet /\ (~after[Len(block)].err => <<block, after[Len(block)]>> \in good)
    BY <1>1, <1>7, <1>10, <1>11, ParsedIsGood, Zenon
  <1> QED
    BY <1>6, <1>8, <1>12

-----------------------------------------------------------------------------
\* The caching block, before it is provisioned.
CachingSet ==
    [err : BOOLEAN, enabled : BOOLEAN, store_dsn : {""} \cup DOMAIN Dsn,
     rules : Maps(Keys, RuleSet), varies : Maps(Keys, VarySet), type_keys : Maps(Keys, SUBSET Words),
     auto_invalidate_cache : BOOLEAN, debug_headers : BOOLEAN]

SwitchesSay(said, c) ==
    /\ EnabledSays(said, c)
    /\ c.auto_invalidate_cache = Switch(said, "auto_invalidate_cache", "false")
    /\ c.debug_headers = Switch(said, "debug_headers", "false")

PartsSay(said, c) ==
    /\ RulesSay(LastBlock(said, "rules"), c.rules)
    /\ VariesSay(LastBlock(said, "varies"), c.varies)
    /\ TypeKeysSay(LastBlock(said, "type_keys"), c.type_keys)

CachingParse(said, c) ==
    SwitchesSay(said, c) /\ c.store_dsn = LastArg(said, "store_dsn", "") /\ PartsSay(said, c)

LEMMA CachingStart == NewCaching \in CachingSet /\ CachingParse(<<>>, NewCaching)
  <1>1. \A name, word : LastArg(<<>>, name, word) = word /\ LastBlock(<<>>, name) = <<>>
    BY LastNothing
  <1>2. RulesSay(<<>>, <<>>) /\ VariesSay(<<>>, <<>>) /\ TypeKeysSay(<<>>, <<>>)
    BY EmptyMap DEF RulesSay, VariesSay, TypeKeysSay, Headings
  <1>3. \A B : <<>> \in Maps(Keys, B)
    BY EmptyMap
  <1>4. NewCaching \in CachingSet
    BY <1>3 DEF NewCaching, CachingSet
  <1>5. Truth["false"] = FALSE
    BY DEF Truth
  <1> QED
    BY <1>1, <1>2, <1>4, <1>5
       DEF NewCaching, CachingParse, SwitchesSay, PartsSay, EnabledSays, Switch

LEMMA SwitchesKept ==
    ASSUME NEW said \in Seq(Lines), NEW d \in Lines, NEW c, NEW e, SwitchesSay(said, c),
           d.name \notin {"enabled", "auto_invalidate_cache", "debug_headers"},
           e.enabled = c.enabled, e.auto_invalidate_cache = c.auto_invalidate_cache,
           e.debug_headers = c.debug_headers
    PROVE  SwitchesSay(Append(said, d), e)
  BY EnabledAppend, SwitchAppend DEF SwitchesSay

LEMMA PartsKept ==
    ASSUME NEW said \in Seq(Lines), NEW d \in Lines, NEW c, NEW e, PartsSay(said, c),
           d.name \notin {"rules", "varies", "type_keys"},
           e.rules = c.rules, e.varies = c.varies, e.type_keys = c.type_keys
    PROVE  PartsSay(Append(said, d), e)
  <1>1. \A name \in {"rules", "varies", "type_keys"} : LastBlock(Append(said, d), name) = LastBlock(said, name)
    BY LastAppend
  <1> QED
    BY <1>1 DEF PartsSay

LEMMA DsnKept ==
    ASSUME NEW said \in Seq(Lines), NEW d \in Lines, d.name # "store_dsn"
    PROVE  LastArg(Append(said, d), "store_dsn", "") = LastArg(said, "store_dsn", "")
  <1>1. \A word : LastArg(Append(said, d), "store_dsn", word) = LastArg(said, "store_dsn", word)
    BY LastAppend
  <1> QED
    BY <1>1, Zenon

LEMMA CachingStep ==
    ASSUME NEW c \in CachingSet, NEW d \in Lines
    PROVE  LET e == CachingDirective(c, d)
           IN  /\ e \in CachingSet
               /\ \A said \in Seq(Lines) : CachingParse(said, c) /\ ~e.err => CachingParse(Append(said, d), e)
  <1> DEFINE e == CachingDirective(c, d)
             Switched == {"enabled", "auto_invalidate_cache", "debug_headers"}
  <1>1. CASE d.name \in Switched /\ Takes(d, DOMAIN Truth)
    <2>1. e = [c EXCEPT ![d.name] = Truth[Arg(d)]] /\ Truth[Arg(d)] \in BOOLEAN
      BY <1>1, ReadsAs DEF CachingDirective
    <2>2. /\ e \in CachingSet /\ e.store_dsn = c.store_dsn
          /\ e.rules = c.rules /\ e.varies = c.varies /\ e.type_keys = c.type_keys
      BY <1>1, <2>1 DEF CachingSet
    <2>3. /\ e.enabled = IF d.name = "enabled" THEN Truth[Arg(d)] ELSE c.enabled
          /\ e.auto_invalidate_cache =
                IF d.name = "auto_invalidate_cache" THEN Truth[Arg(d)] ELSE c.auto_invalidate_cache
          /\ e.debug_headers = IF d.name = "debug_headers" THEN Truth[Arg(d)] ELSE c.debug_headers
      BY <1>1, <2>1 DEF CachingSet
    <2>4. ASSUME NEW said \in Seq(Lines), CachingParse(said, c)
          PROVE  CachingParse(Append(said, d), e)
      <3>1. SwitchesSay(Append(said, d), e)
        <4>1. EnabledSays(Append(said, d), e)
          BY <1>1, <2>3, <2>4, EnabledAppend DEF CachingParse, SwitchesSay
        <4>2. \A name : Switch(Append(said, d), name, "false") =
                           IF d.name = name THEN Truth[Arg(d)] ELSE Switch(said, name, "false")
          BY SwitchAppend
        <4> QED
          BY <2>3, <2>4, <4>1, <4>2 DEF CachingParse, SwitchesSay
      <3>2. PartsSay(Append(said, d), e)
        BY <1>1, <2>2, <2>4, PartsKept DEF CachingParse
      <3> QED
        BY <1>1, <2>2, <2>4, <3>1, <3>2, DsnKept DEF CachingParse
    <2> QED
      BY <2>2, <2>4
  <1>2. CASE d.name = "store_dsn" /\ Takes(d, DOMAIN Dsn)
    <2>1. e = [c EXCEPT !.store_dsn = Arg(d)] /\ Arg(d) \in DOMAIN Dsn
      BY <1>2 DEF CachingDirective, Takes, Arg
    <2>2. /\ e \in CachingSet /\ e.store_dsn = Arg(d)
          /\ e.rules = c.rules /\ e.varies = c.varies /\ e.type_keys = c.type_keys
          /\ e.enabled = c.enabled /\ e.auto_invalidate_cache = c.auto_invalidate_cache
          /\ e.debug_headers = c.debug_headers
      BY <2>1 DEF CachingSet
    <2>3. ASSUME NEW said \in Seq(Lines), CachingParse(said, c)
          PROVE  CachingParse(Append(said, d), e)
      <3>1. \A word : LastArg(Append(said, d), "store_dsn", word) = Arg(d)
        BY <1>2, LastAppend
      <3>2. LastArg(Append(said, d), "store_dsn", "") = Arg(d)
        BY <3>1, Zenon
      <3> QED
        BY <1>2, <2>2, <2>3, <3>2, SwitchesKept, PartsKept DEF CachingParse
    <2> QED
      BY <2>2, <2>3
  <1>3. CASE d.name = "rules"
    <2> DEFINE parsed == Parse(RulesDirective, Nothing, d.block)
    <2>1. e = [c EXCEPT !.err = parsed.err, !.rules = parsed.val]
      BY <1>3 DEF CachingDirective
    <2>2. parsed \in RulesSet /\ (~parsed.err => RulesSaid(d.block, parsed))
      BY OfLine, RulesParsed
    <2> HIDE DEF parsed
    <2>3. /\ e \in CachingSet /\ e.err = parsed.err /\ e.rules = parsed.val
          /\ e.varies = c.varies /\ e.type_keys = c.type_keys /\ e.store_dsn = c.store_dsn
          /\ e.enabled = c.enabled /\ e.auto_invalidate_cache = c.auto_invalidate_cache
          /\ e.debug_headers = c.debug_headers
      BY <2>1, <2>2 DEF CachingSet, RulesSet, MapSet
    <2>4. ASSUME NEW said \in Seq(Lines), CachingParse(said, c), ~parsed.err
          PROVE  CachingParse(Append(said, d), e)
      <3>1. /\ LastBlock(Append(said, d), "rules") = d.block
            /\ LastBlock(Append(said, d), "varies") = LastBlock(said, "varies")
            /\ LastBlock(Append(said, d), "type_keys") = LastBlock(said, "type_keys")
        BY <1>3, LastAppend
      <3>2. PartsSay(Append(said, d), e)
        BY <2>2, <2>3, <2>4, <3>1 DEF CachingParse, PartsSay, RulesSaid
      <3> QED
        BY <1>3, <2>3, <2>4, <3>2, SwitchesKept, DsnKept DEF CachingParse
    <2> QED
      BY <2>3, <2>4
  <1>4. CASE d.name = "varies"
    <2> DEFINE parsed == Parse(VariesDirective, Nothing, d.block)
    <2>1. e = [c EXCEPT !.err = parsed.err, !.varies = parsed.val]
      BY <1>4 DEF CachingDirective
    <2>2. parsed \in VariesSet /\ (~parsed.err => VariesSaid(d.block, parsed))
      BY OfLine, VariesParsed
    <2> HIDE DEF parsed
    <2>3. /\ e \in CachingSet /\ e.err = parsed.err /\ e.varies = parsed.val
          /\ e.rules = c.rules /\ e.type_keys = c.type_keys /\ e.store_dsn = c.store_dsn
          /\ e.enabled = c.enabled /\ e.auto_invalidate_cache = c.auto_invalidate_cache
          /\ e.debug_headers = c.debug_headers
      BY <2>1, <2>2 DEF CachingSet, VariesSet, MapSet
    <2>4. ASSUME NEW said \in Seq(Lines), CachingParse(said, c), ~parsed.err
          PROVE  CachingParse(Append(said, d), e)
      <3>1. /\ LastBlock(Append(said, d), "varies") = d.block
            /\ LastBlock(Append(said, d), "rules") = LastBlock(said, "rules")
            /\ LastBlock(Append(said, d), "type_keys") = LastBlock(said, "type_keys")
        BY <1>4, LastAppend
      <3>2. PartsSay(Append(said, d), e)
        BY <2>2, <2>3, <2>4, <3>1 DEF CachingParse, PartsSay, VariesSaid
      <3> QED
        BY <1>4, <2>3, <2>4, <3>2, SwitchesKept, DsnKept DEF CachingParse
    <2> QED
      BY <2>3, <2>4
  <1>5. CASE d.name = "type_keys"
    <2> DEFINE parsed == Parse(TypeKeysDirective, Nothing, d.block)
    <2>1. e = [c EXCEPT !.err = parsed.err, !.type_keys = parsed.val]
      BY <1>5 DEF CachingDirective
    <2>2. parsed \in TypeKeysSet /\ (~parsed.err => TypeKeysSaid(d.block, parsed))
      BY OfLine, TypeKeysParsed
    <2> HIDE DEF parsed
    <2>3. /\ e \in CachingSet /\ e.err = parsed.err /\ e.type_keys = parsed.val
          /\ e.rules = c.rules /\ e.varies = c.varies /\ e.store_dsn = c.store_dsn
          /\ e.enabled = c.enabled /\ e.auto_invalidate_cache = c.auto_invalidate_cache
          /\ e.debug_headers = c.debug_headers
      BY <2>1, <2>2 DEF CachingSet, TypeKeysSet, MapSet
    <2>4. ASSUME NEW said \in Seq(Lines), CachingParse(said, c), ~parsed.err
          PROVE  CachingParse(Append(said, d), e)
      <3>1. /\ LastBlock(Append(said, d), "type_keys") = d.block
            /\ LastBlock(Append(said, d), "rules") = LastBlock(said, "rules")
            /\ LastBlock(Append(said, d), "varies") = LastBlock(said, "varies")
        BY <1>5, LastAppend
      <3>2. PartsSay(Append(said, d), e)
        BY <2>2, <2>3, <2>4, <3>1 DEF CachingParse, PartsSay, TypeKeysSaid
      <3> QED
        BY <1>5, <2>3, <2>4, <3>2, SwitchesKept, DsnKept DEF CachingParse
    <2> QED
      BY <2>3, <2>4
  <1>6. CASE /\ ~(d.name \in Switched /\ Takes(d, DOMAIN Truth))
             /\ ~(d.name = "store_dsn" /\ Takes(d, DOMAIN Dsn))
             /\ d.name \notin {"rules", "varies", "type_keys"}
    BY <1>6 DEF CachingDirective, Fail, CachingSet
  <1> QED
    BY <1>1, <1>2, <1>3, <1>4, <1>5, <1>6

\* unmarshalCaddyfileCaching.
LEMMA CachingParsed ==
    ASSUME NEW block \in Seq(Lines)
    PROVE  LET r == Parse(CachingDirective, NewCaching, block)
           IN  r \in CachingSet /\ (~r.err => CachingParse(block, r))
  <1> DEFINE step == [x \in CachingSet \X Lines |-> CachingDirective(x[1], x[2])]
             after == CHOOSE f : f = [n \in 0..Len(block) |->
                        IF n = 0 THEN NewCaching
                        ELSE LET before == f[n - 1]
                             IN  IF before.err THEN before ELSE CachingDirective(before, block[n])]
             good == {x \in Seq(Lines) \X CachingSet : CachingParse(x[1], x[2])}
  <1>1. /\ NewCaching \in CachingSet /\ CachingParse(<<>>, NewCaching)
        /\ step \in [CachingSet \X Lines -> CachingSet]
        /\ \A s \in CachingSet, d \in Lines : step[<<s, d>>] = CachingDirective(s, d)
    BY CachingStart, CachingStep
  <1> HIDE DEF step
  <1>2. \A n \in 0..Len(block) : n # 0 => n \in 1..Len(block) /\ block[n] \in Lines /\ n - 1 \in 0..Len(block)
    OBVIOUS
  <1>3. PICK f \in [0..Len(block) -> CachingSet] : Parses(f, step, NewCaching, block)
    BY <1>1, ParsesExists
  <1>4. f = [n \in 0..Len(block) |->
              IF n = 0 THEN NewCaching
              ELSE LET before == f[n - 1]
                   IN  IF before.err THEN before ELSE CachingDirective(before, block[n])]
    BY <1>1, <1>2, <1>3 DEF Parses
  <1>5. after = [n \in 0..Len(block) |->
              IF n = 0 THEN NewCaching
              ELSE LET before == after[n - 1]
                   IN  IF before.err THEN before ELSE CachingDirective(before, block[n])]
    BY <1>4, Zenon
  <1>6. Parse(CachingDirective, NewCaching, block) = after[Len(block)]
    BY Zenon DEF Parse
  <1> HIDE DEF after
  <1>7. /\ after[0] = NewCaching
        /\ \A n \in 1..Len(block) : after[n - 1] \in CachingSet =>
               after[n] = IF after[n - 1].err THEN after[n - 1] ELSE step[<<after[n - 1], block[n]>>]
    BY <1>1, <1>2, <1>5
  <1>8. \A said \in Seq(Lines), s \in CachingSet : <<said, s>> \in good <=> CachingParse(said, s)
    OBVIOUS
  <1>9. good \subseteq Seq(Lines) \X CachingSet /\ <<>> \in Seq(Lines)
    OBVIOUS
  <1> HIDE DEF good
  <1>10. ASSUME NEW said \in Seq(Lines), NEW s \in CachingSet, NEW d \in Lines,
                ~s.err, <<said, s>> \in good, ~step[<<s, d>>].err
         PROVE  <<Append(said, d), step[<<s, d>>]>> \in good
    <2>1. Append(said, d) \in Seq(Lines) /\ CachingParse(said, s)
      BY <1>8, <1>10
    <2> QED
      BY <1>1, <1>8, <1>10, <2>1, CachingStep
  <1>11. <<<<>>, NewCaching>> \in good
    BY <1>1, <1>8, <1>9
  <1>12. after[Len(block)] \in CachingSet /\ (~after[Len(block)].err => <<block, after[Len(block)]>> \in good)
    BY <1>1, <1>7, <1>10, <1>11, ParsedIsGood, Zenon
  <1> QED
    BY <1>6, <1>8, <1>12

-----------------------------------------------------------------------------
\* The blocks of a kind that are enabled, after one more directive.
LEMMA EnabledBlocks ==
    ASSUME NEW said \in Seq(Lines), NEW d \in Lines, NEW name
    PROVE  Enabled(Append(said, d), name) =
               IF d.name = name /\ LastArg(d.block, "enabled", "true") = "true"
               THEN Enabled(said, name) \cup {Len(said) + 1}
               ELSE Enabled(said, name)
  <1> DEFINE more == Append(said, d)
             last == Len(said) + 1
  <1>1. /\ DOMAIN more = DOMAIN said \cup {last} /\ last \notin DOMAIN said
        /\ more[last] = d /\ \A i \in DOMAIN said : more[i] = said[i]
    BY LinesAppend
  <1> HIDE DEF more, last
  <1>2. \A i : i \in Enabled(more, name) <=>
            \/ i \in Enabled(said, name)
            \/ i = last /\ d.name = name /\ LastArg(d.block, "enabled", "true") = "true"
    BY <1>1 DEF Enabled
  <1>3. Enabled(more, name) = IF d.name = name /\ LastArg(d.block, "enabled", "true") = "true"
                              THEN Enabled(said, name) \cup {last}
                              ELSE Enabled(said, name)
    BY <1>2
  <1> QED
    BY <1>3 DEF more, last

\* A whole file, before its handler is provisioned.
HandlerSet ==
    [err : BOOLEAN, upstream : {""} \cup Urls, reverse_proxy : Seq(STRING),
     fetch_schema_interval : Values, fetch_schema_timeout : Values,
     fetch_schema_header : Seq(Seq(STRING)),
     disabled_introspection : BOOLEAN, disabled_playgrounds : BOOLEAN,
     complexity : SUBSET ComplexitySet, caching : SUBSET CachingSet,
     cors_origins : SUBSET Words, cors_allowed_headers : SUBSET Words]

WordsSay(said, h) ==
    /\ h.upstream = LastArg(said, "upstream", "") /\ h.reverse_proxy = LastArgs(said, "upstream")
    /\ h.fetch_schema_interval = Number(said, "fetch_schema_interval", Duration)
    /\ h.fetch_schema_timeout = Number(said, "fetch_schema_timeout", Duration)
    /\ h.disabled_introspection = Switch(said, "disabled_introspection", "false")
    /\ h.disabled_playgrounds = Switch(said, "disabled_playgrounds", "false")
    /\ h.cors_origins = ToSet(LastArgs(said, "cors_origins"))
    /\ h.cors_allowed_headers = ToSet(LastArgs(said, "cors_allowed_headers"))

LEMMA WordsStep ==
    ASSUME NEW said \in Seq(Lines), NEW d \in Lines, NEW h, NEW e, WordsSay(said, h),
           d.name \in {"fetch_schema_interval", "fetch_schema_timeout"} => Takes(d, DOMAIN Duration),
           e.upstream = IF d.name = "upstream" THEN Arg(d) ELSE h.upstream,
           e.reverse_proxy = IF d.name = "upstream" THEN d.args ELSE h.reverse_proxy,
           e.fetch_schema_interval =
               IF d.name = "fetch_schema_interval" THEN Duration[Arg(d)] ELSE h.fetch_schema_interval,
           e.fetch_schema_timeout =
               IF d.name = "fetch_schema_timeout" THEN Duration[Arg(d)] ELSE h.fetch_schema_timeout,
           e.disabled_introspection =
               IF d.name = "disabled_introspection" THEN Truth[Arg(d)] ELSE h.disabled_introspection,
           e.disabled_playgrounds =
               IF d.name = "disabled_playgrounds" THEN Truth[Arg(d)] ELSE h.disabled_playgrounds,
           e.cors_origins = IF d.name = "cors_origins" THEN ToSet(d.args) ELSE h.cors_origins,
           e.cors_allowed_headers =
               IF d.name = "cors_allowed_headers" THEN ToSet(d.args) ELSE h.cors_allowed_headers
    PROVE  WordsSay(Append(said, d), e)
  <1> DEFINE more == Append(said, d)
  <1>1. \A name, word : LastArg(more, name, word) = IF d.name = name THEN Arg(d) ELSE LastArg(said, name, word)
    BY LastAppend
  <1>2. LastArg(more, "upstream", "") = IF d.name = "upstream" THEN Arg(d) ELSE LastArg(said, "upstream", "")
    BY <1>1, Zenon
  <1>3. /\ Number(more, "fetch_schema_interval", Duration) = IF d.name = "fetch_schema_interval" THEN Duration[Arg(d)]
                                                   ELSE Number(said, "fetch_schema_interval", Duration)
        /\ Number(more, "fetch_schema_timeout", Duration) = IF d.name = "fetch_schema_timeout" THEN Duration[Arg(d)]
                                                  ELSE Number(said, "fetch_schema_timeout", Duration)
    BY DurationAppend
  <1>4. \A name : Switch(more, name, "false") = IF d.name = name THEN Truth[Arg(d)] ELSE Switch(said, name, "false")
    BY SwitchAppend
  <1>5. \A name : LastArgs(more, name) = IF d.name = name THEN d.args ELSE LastArgs(said, name)
    BY LastAppend
  <1> HIDE DEF more
  <1>6. \A name : ToSet(LastArgs(more, name)) = IF d.name = name THEN ToSet(d.args) ELSE ToSet(LastArgs(said, name))
    BY <1>5
  <1>7. WordsSay(more, e)
    BY <1>2, <1>3, <1>4, <1>5, <1>6 DEF WordsSay
  <1> QED
    BY <1>7 DEF more

\* At most one block of a kind is enabled, and it is the one in force.
ComplexityInForce(said, in) ==
    \/ Enabled(said, "complexity") = {} /\ in = {}
    \/ \E at \in DOMAIN said, c \in ComplexitySet :
          Enabled(said, "complexity") = {at} /\ in = {c} /\ ComplexityParse(said[at].block, c)

LEMMA ComplexityKept ==
    ASSUME NEW said \in Seq(Lines), NEW d \in Lines, NEW in, ComplexityInForce(said, in), d.name # "complexity"
    PROVE  ComplexityInForce(Append(said, d), in)
  <1> DEFINE more == Append(said, d)
  <1>1. Enabled(more, "complexity") = Enabled(said, "complexity")
    BY EnabledBlocks
  <1>2. \A i \in DOMAIN said : i \in DOMAIN more /\ more[i] = said[i]
    BY LinesAppend
  <1> HIDE DEF more
  <1>3. ComplexityInForce(more, in)
    BY <1>1, <1>2 DEF ComplexityInForce
  <1> QED
    BY <1>3 DEF more

LEMMA ComplexityTaken ==
    ASSUME NEW said \in Seq(Lines), NEW d \in Lines, NEW in, ComplexityInForce(said, in),
           d.name = "complexity", in = {}, NEW c \in ComplexitySet, ComplexityParse(d.block, c)
    PROVE  ComplexityInForce(Append(said, d), IF c.enabled THEN {c} ELSE in)
  <1> DEFINE more == Append(said, d)
             last == Len(said) + 1
  <1>1. Enabled(said, "complexity") = {}
    BY DEF ComplexityInForce
  <1>2. c.enabled <=> LastArg(d.block, "enabled", "true") = "true"
    BY DEF ComplexityParse, EnabledSays
  <1>3. Enabled(more, "complexity") = IF c.enabled THEN {last} ELSE {}
    BY <1>1, <1>2, EnabledBlocks
  <1>4. last \in DOMAIN more /\ more[last] = d
    BY LinesAppend
  <1> HIDE DEF more, last
  <1>5. ComplexityInForce(more, IF c.enabled THEN {c} ELSE in)
    BY <1>3, <1>4 DEF ComplexityInForce
  <1> QED
    BY <1>5 DEF more

\* The same of caching.
CachingInForce(said, in) ==
    \/ Enabled(said, "caching") = {} /\ in = {}
    \/ \E at \in DOMAIN said, c \in CachingSet :
          Enabled(said, "caching") = {at} /\ in = {c} /\ CachingParse(said[at].block, c)

LEMMA CachingKept ==
    ASSUME NEW said \in Seq(Lines), NEW d \in Lines, NEW in, CachingInForce(said, in), d.name # "caching"
    PROVE  CachingInForce(Append(said, d), in)
  <1> DEFINE more == Append(said, d)
  <1>1. Enabled(more, "caching") = Enabled(said, "caching")
    BY EnabledBlocks
  <1>2. \A i \in DOMAIN said : i \in DOMAIN more /\ more[i] = said[i]
    BY LinesAppend
  <1> HIDE DEF more
  <1>3. CachingInForce(more, in)
    BY <1>1, <1>2 DEF CachingInForce
  <1> QED
    BY <1>3 DEF more

LEMMA CachingTaken ==
    ASSUME NEW said \in Seq(Lines), NEW d \in Lines, NEW in, CachingInForce(said, in),
           d.name = "caching", in = {}, NEW c \in CachingSet, CachingParse(d.block, c)
    PROVE  CachingInForce(Append(said, d), IF c.enabled THEN {c} ELSE in)
  <1> DEFINE more == Append(said, d)
             last == Len(said) + 1
  <1>1. Enabled(said, "caching") = {}
    BY DEF CachingInForce
  <1>2. c.enabled <=> LastArg(d.block, "enabled", "true") = "true"
    BY DEF CachingParse, EnabledSays, SwitchesSay
  <1>3. Enabled(more, "caching") = IF c.enabled THEN {last} ELSE {}
    BY <1>1, <1>2, EnabledBlocks
  <1>4. last \in DOMAIN more /\ more[last] = d
    BY LinesAppend
  <1> HIDE DEF more, last
  <1>5. CachingInForce(more, IF c.enabled THEN {c} ELSE in)
    BY <1>3, <1>4 DEF CachingInForce
  <1> QED
    BY <1>5 DEF more

HandlerParse(said, h) ==
    WordsSay(said, h) /\ ComplexityInForce(said, h.complexity) /\ CachingInForce(said, h.caching)

LEMMA HandlerStart == NewHandler \in HandlerSet /\ HandlerParse(<<>>, NewHandler)
  <1>1. \A name, word : LastArg(<<>>, name, word) = word /\ LastArgs(<<>>, name) = <<>>
    BY LastNothing
  <1>2. \A name : Number(<<>>, name, Duration) = 0 /\ Switch(<<>>, name, "false") = FALSE
    BY <1>1 DEF Number, Switch, Truth
  <1>3. LastArg(<<>>, "upstream", "") = ""
    BY <1>1, Zenon
  <1>4. ToSet(<<>>) = {} /\ 0 \in Values /\ <<>> \in Seq(Seq(STRING)) /\ <<>> \in Seq(STRING)
    BY DEF ToSet, Values
  <1>5. \A name : Enabled(<<>>, name) = {}
    BY DEF Enabled
  <1>6. NewHandler \in HandlerSet
    BY <1>4 DEF NewHandler, HandlerSet
  <1>7. WordsSay(<<>>, NewHandler)
    BY <1>1, <1>2, <1>3, <1>4 DEF NewHandler, WordsSay
  <1> QED
    BY <1>5, <1>6, <1>7 DEF NewHandler, HandlerParse, ComplexityInForce, CachingInForce

LEMMA HandlerStep ==
    ASSUME NEW h \in HandlerSet, NEW d \in Lines
    PROVE  LET e == HandlerDirective(h, d)
           IN  /\ e \in HandlerSet
               /\ \A said \in Seq(Lines) : HandlerParse(said, h) /\ ~e.err => HandlerParse(Append(said, d), e)
  <1> DEFINE e == HandlerDirective(h, d)
             refused == \/ h.upstream # "" \/ d.args = <<>>
                        \/ Arg(d) \notin Urls \/ ~(ToSet(Tail(d.args)) \subseteq Addresses)
                        \/ \E o \in ToSet(d.block) : o.name \notin ProxyOptions
  <1>1. CASE d.name = "upstream"
    <2>1. e = UpstreamDirective(h, d)
      BY <1>1 DEF HandlerDirective
    <2>2. CASE refused
      BY <2>1, <2>2 DEF UpstreamDirective, Fail, HandlerSet
    <2>3. CASE ~refused
      <3>1. e = [h EXCEPT !.upstream = Arg(d), !.reverse_proxy = d.args] /\ Arg(d) \in Urls
        BY <2>1, <2>3 DEF UpstreamDirective
      <3> HIDE DEF refused
      <3>2. /\ e \in HandlerSet
            /\ e.upstream = Arg(d) /\ e.reverse_proxy = d.args
            /\ e.fetch_schema_interval = h.fetch_schema_interval
            /\ e.fetch_schema_timeout = h.fetch_schema_timeout
            /\ e.disabled_introspection = h.disabled_introspection
            /\ e.disabled_playgrounds = h.disabled_playgrounds
            /\ e.cors_origins = h.cors_origins
            /\ e.cors_allowed_headers = h.cors_allowed_headers
            /\ e.complexity = h.complexity
            /\ e.caching = h.caching
        BY <3>1, OfLine DEF HandlerSet
      <3>3. ASSUME NEW said \in Seq(Lines), HandlerParse(said, h)
            PROVE  HandlerParse(Append(said, d), e)
        <4>1. WordsSay(Append(said, d), e)
          BY <1>1, <3>2, <3>3, WordsStep DEF HandlerParse
        <4> QED
          BY <1>1, <3>2, <3>3, <4>1, ComplexityKept, CachingKept DEF HandlerParse
      <3> QED
        BY <3>2, <3>3
    <2> QED
      BY <2>2, <2>3
  <1>2. CASE d.name = "complexity"
    <2> DEFINE parsed == Parse(ComplexityDirective, NewComplexity, d.block)
    <2>1. e = OptionalBlock(h, d, parsed)
      BY <1>2 DEF HandlerDirective
    <2>2. parsed \in ComplexitySet /\ (~parsed.err => ComplexityParse(d.block, parsed))
      BY OfLine, ComplexityParsed
    <2> HIDE DEF parsed
    <2>3. CASE h.complexity # {} \/ parsed.err
      BY <1>2, <2>1, <2>3 DEF OptionalBlock, Fail, HandlerSet
    <2>4. CASE h.complexity = {} /\ ~parsed.err
      <3>1. e = IF parsed.enabled THEN [h EXCEPT !.complexity = {parsed}] ELSE h
        BY <1>2, <2>1, <2>4 DEF OptionalBlock
      <3>2. e \in HandlerSet /\ e.complexity = IF parsed.enabled THEN {parsed} ELSE h.complexity
        <4>1. {parsed} \in SUBSET ComplexitySet
          BY <2>2
        <4>2. CASE parsed.enabled
          <5> DEFINE in == {parsed}
          <5>1. e = [h EXCEPT !.complexity = in]
            BY <3>1, <4>2
          <5> HIDE DEF in
          <5>2. e \in HandlerSet /\ e.complexity = in
            BY <4>1, <5>1 DEF HandlerSet, in
          <5> QED
            BY <4>2, <5>2 DEF in
        <4>3. CASE ~parsed.enabled
          BY <3>1, <4>3
        <4> QED
          BY <4>2, <4>3
      <3>3. /\ e.upstream = h.upstream
          /\ e.reverse_proxy = h.reverse_proxy
          /\ e.fetch_schema_interval = h.fetch_schema_interval
          /\ e.fetch_schema_timeout = h.fetch_schema_timeout
          /\ e.disabled_introspection = h.disabled_introspection
          /\ e.disabled_playgrounds = h.disabled_playgrounds
          /\ e.cors_origins = h.cors_origins
          /\ e.cors_allowed_headers = h.cors_allowed_headers
          /\ e.caching = h.caching
        BY <3>1 DEF HandlerSet
      <3>4. ASSUME NEW said \in Seq(Lines), HandlerParse(said, h)
            PROVE  HandlerParse(Append(said, d), e)
        <4>1. WordsSay(Append(said, d), e)
          BY <1>2, <3>3, <3>4, WordsStep DEF HandlerParse
        <4>2. ComplexityInForce(Append(said, d), e.complexity)
          BY <1>2, <2>2, <2>4, <3>2, <3>4, ComplexityTaken DEF HandlerParse
        <4> QED
          BY <1>2, <3>3, <3>4, <4>1, <4>2, CachingKept DEF HandlerParse
      <3> QED
        BY <3>2, <3>4
    <2> QED
      BY <2>3, <2>4
  <1>3. CASE d.name = "caching"
    <2> DEFINE parsed == Parse(CachingDirective, NewCaching, d.block)
    <2>1. e = OptionalBlock(h, d, parsed)
      BY <1>3 DEF HandlerDirective
    <2>2. parsed \in CachingSet /\ (~parsed.err => CachingParse(d.block, parsed))
      BY OfLine, CachingParsed
    <2> HIDE DEF parsed
    <2>3. CASE h.caching # {} \/ parsed.err
      BY <1>3, <2>1, <2>3 DEF OptionalBlock, Fail, HandlerSet
    <2>4. CASE h.caching = {} /\ ~parsed.err
      <3>1. e = IF parsed.enabled THEN [h EXCEPT !.caching = {parsed}] ELSE h
        BY <1>3, <2>1, <2>4 DEF OptionalBlock
      <3>2. e \in HandlerSet /\ e.caching = IF parsed.enabled THEN {parsed} ELSE h.caching
        <4>1. {parsed} \in SUBSET CachingSet
          BY <2>2
        <4>2. CASE parsed.enabled
          <5> DEFINE in == {parsed}
          <5>1. e = [h EXCEPT !.caching = in]
            BY <3>1, <4>2
          <5> HIDE DEF in
          <5>2. e \in HandlerSet /\ e.caching = in
            BY <4>1, <5>1 DEF HandlerSet, in
          <5> QED
            BY <4>2, <5>2 DEF in
        <4>3. CASE ~parsed.enabled
          BY <3>1, <4>3
        <4> QED
          BY <4>2, <4>3
      <3>3. /\ e.upstream = h.upstream
          /\ e.reverse_proxy = h.reverse_proxy
          /\ e.fetch_schema_interval = h.fetch_schema_interval
          /\ e.fetch_schema_timeout = h.fetch_schema_timeout
          /\ e.disabled_introspection = h.disabled_introspection
          /\ e.disabled_playgrounds = h.disabled_playgrounds
          /\ e.cors_origins = h.cors_origins
          /\ e.cors_allowed_headers = h.cors_allowed_headers
          /\ e.complexity = h.complexity
        BY <3>1 DEF HandlerSet
      <3>4. ASSUME NEW said \in Seq(Lines), HandlerParse(said, h)
            PROVE  HandlerParse(Append(said, d), e)
        <4>1. WordsSay(Append(said, d), e)
          BY <1>3, <3>3, <3>4, WordsStep DEF HandlerParse
        <4>2. CachingInForce(Append(said, d), e.caching)
          BY <1>3, <2>2, <2>4, <3>2, <3>4, CachingTaken DEF HandlerParse
        <4> QED
          BY <1>3, <3>3, <3>4, <4>1, <4>2, ComplexityKept DEF HandlerParse
      <3> QED
        BY <3>2, <3>4
    <2> QED
      BY <2>3, <2>4
  <1>4. CASE d.name \in {"fetch_schema_interval", "fetch_schema_timeout"} /\ Takes(d, DOMAIN Duration)
    <2>1. e = [h EXCEPT ![d.name] = Duration[Arg(d)]] /\ Duration[Arg(d)] \in Values
      BY <1>4, ReadsAs DEF HandlerDirective
    <2>2. e \in HandlerSet
      BY <1>4, <2>1 DEF HandlerSet
    <2>3. /\ e.upstream = h.upstream
          /\ e.reverse_proxy = h.reverse_proxy
          /\ e.fetch_schema_interval = IF d.name = "fetch_schema_interval" THEN Duration[Arg(d)] ELSE h.fetch_schema_interval
          /\ e.fetch_schema_timeout = IF d.name = "fetch_schema_timeout" THEN Duration[Arg(d)] ELSE h.fetch_schema_timeout
          /\ e.disabled_introspection = h.disabled_introspection
          /\ e.disabled_playgrounds = h.disabled_playgrounds
          /\ e.cors_origins = h.cors_origins
          /\ e.cors_allowed_headers = h.cors_allowed_headers
          /\ e.complexity = h.complexity
          /\ e.caching = h.caching
      BY <1>4, <2>1 DEF HandlerSet
    <2>4. ASSUME NEW said \in Seq(Lines), HandlerParse(said, h)
          PROVE  HandlerParse(Append(said, d), e)
      <3>1. WordsSay(Append(said, d), e)
        BY <1>4, <2>3, <2>4, WordsStep DEF HandlerParse
      <3> QED
        BY <1>4, <2>3, <2>4, <3>1, ComplexityKept, CachingKept DEF HandlerParse
    <2> QED
      BY <2>2, <2>4
  <1>5. CASE d.name \in {"disabled_introspection", "disabled_playgrounds"} /\ Takes(d, DOMAIN Truth)
    <2>1. e = [h EXCEPT ![d.name] = Truth[Arg(d)]] /\ Truth[Arg(d)] \in BOOLEAN
      BY <1>5, ReadsAs DEF HandlerDirective
    <2>2. e \in HandlerSet
      BY <1>5, <2>1 DEF HandlerSet
    <2>3. /\ e.upstream = h.upstream
          /\ e.reverse_proxy = h.reverse_proxy
          /\ e.fetch_schema_interval = h.fetch_schema_interval
          /\ e.fetch_schema_timeout = h.fetch_schema_timeout
          /\ e.disabled_introspection = IF d.name = "disabled_introspection" THEN Truth[Arg(d)] ELSE h.disabled_introspection
          /\ e.disabled_playgrounds = IF d.name = "disabled_playgrounds" THEN Truth[Arg(d)] ELSE h.disabled_playgrounds
          /\ e.cors_origins = h.cors_origins
          /\ e.cors_allowed_headers = h.cors_allowed_headers
          /\ e.complexity = h.complexity
          /\ e.caching = h.caching
      BY <1>5, <2>1 DEF HandlerSet
    <2>4. ASSUME NEW said \in Seq(Lines), HandlerParse(said, h)
          PROVE  HandlerParse(Append(said, d), e)
      <3>1. WordsSay(Append(said, d), e)
        BY <1>5, <2>3, <2>4, WordsStep DEF HandlerParse
      <3> QED
        BY <1>5, <2>3, <2>4, <3>1, ComplexityKept, CachingKept DEF HandlerParse
    <2> QED
      BY <2>2, <2>4
  <1>6. CASE d.name \in {"cors_origins", "cors_allowed_headers"} /\ TakesSome(d)
    <2>1. e = [h EXCEPT ![d.name] = ToSet(d.args)] /\ ToSet(d.args) \in SUBSET Words
      BY <1>6, OfLine DEF HandlerDirective
    <2>2. e \in HandlerSet
      BY <1>6, <2>1 DEF HandlerSet
    <2>3. /\ e.upstream = h.upstream
          /\ e.reverse_proxy = h.reverse_proxy
          /\ e.fetch_schema_interval = h.fetch_schema_interval
          /\ e.fetch_schema_timeout = h.fetch_schema_timeout
          /\ e.disabled_introspection = h.disabled_introspection
          /\ e.disabled_playgrounds = h.disabled_playgrounds
          /\ e.cors_origins = IF d.name = "cors_origins" THEN ToSet(d.args) ELSE h.cors_origins
          /\ e.cors_allowed_headers = IF d.name = "cors_allowed_headers" THEN ToSet(d.args) ELSE h.cors_allowed_headers
          /\ e.complexity = h.complexity
          /\ e.caching = h.caching
      BY <1>6, <2>1 DEF HandlerSet
    <2>4. ASSUME NEW said \in Seq(Lines), HandlerParse(said, h)
          PROVE  HandlerParse(Append(said, d), e)
      <3>1. WordsSay(Append(said, d), e)
        BY <1>6, <2>3, <2>4, WordsStep DEF HandlerParse
      <3> QED
        BY <1>6, <2>3, <2>4, <3>1, ComplexityKept, CachingKept DEF HandlerParse
    <2> QED
      BY <2>2, <2>4
  <1>7. CASE d.name = "fetch_schema_header" /\ TakesSome(d) /\ Len(d.args) = 2
    <2>1. e = [h EXCEPT !.fetch_schema_header = Append(@, d.args)] /\ d.args \in Seq(STRING)
      BY <1>7, OfLine DEF HandlerDirective
    <2>2. e \in HandlerSet
      <3>1. h.fetch_schema_header \in Seq(Seq(STRING))
        BY DEF HandlerSet
      <3> DEFINE headers == Append(h.fetch_schema_header, d.args)
      <3>2. headers \in Seq(Seq(STRING))
        BY <2>1, <3>1
      <3>3. e = [h EXCEPT !.fetch_schema_header = headers]
        BY <2>1
      <3> HIDE DEF headers
      <3> QED
        BY <3>2, <3>3 DEF HandlerSet
    <2>3. /\ e.upstream = h.upstream
          /\ e.reverse_proxy = h.reverse_proxy
          /\ e.fetch_schema_interval = h.fetch_schema_interval
          /\ e.fetch_schema_timeout = h.fetch_schema_timeout
          /\ e.disabled_introspection = h.disabled_introspection
          /\ e.disabled_playgrounds = h.disabled_playgrounds
          /\ e.cors_origins = h.cors_origins
          /\ e.cors_allowed_headers = h.cors_allowed_headers
          /\ e.complexity = h.complexity
          /\ e.caching = h.caching
      BY <2>1 DEF HandlerSet
    <2>4. ASSUME NEW said \in Seq(Lines), HandlerParse(said, h)
          PROVE  HandlerParse(Append(said, d), e)
      <3>1. WordsSay(Append(said, d), e)
        BY <1>7, <2>3, <2>4, WordsStep DEF HandlerParse
      <3> QED
        BY <1>7, <2>3, <2>4, <3>1, ComplexityKept, CachingKept DEF HandlerParse
    <2> QED
      BY <2>2, <2>4
  <1>8. CASE /\ d.name \notin {"upstream", "complexity", "caching"}
             /\ ~(d.name \in {"fetch_schema_interval", "fetch_schema_timeout"} /\ Takes(d, DOMAIN Duration))
             /\ ~(d.name \in {"disabled_introspection", "disabled_playgrounds"} /\ Takes(d, DOMAIN Truth))
             /\ ~(d.name \in {"cors_origins", "cors_allowed_headers"} /\ TakesSome(d))
             /\ ~(d.name = "fetch_schema_header" /\ TakesSome(d) /\ Len(d.args) = 2)
    <2>1. e = Fail(h)
      BY <1>8 DEF HandlerDirective
    <2> QED
      BY <2>1 DEF Fail, HandlerSet
  <1> QED
    BY <1>1, <1>2, <1>3, <1>4, <1>5, <1>6, <1>7, <1>8

\* UnmarshalCaddyfile.
LEMMA HandlerParsed ==
    ASSUME NEW block \in Seq(Lines)
    PROVE  LET r == Parse(HandlerDirective, NewHandler, block)
           IN  r \in HandlerSet /\ (~r.err => HandlerParse(block, r))
  <1> DEFINE step == [x \in HandlerSet \X Lines |-> HandlerDirective(x[1], x[2])]
             after == CHOOSE f : f = [n \in 0..Len(block) |->
                        IF n = 0 THEN NewHandler
                        ELSE LET before == f[n - 1]
                             IN  IF before.err THEN before ELSE HandlerDirective(before, block[n])]
             good == {x \in Seq(Lines) \X HandlerSet : HandlerParse(x[1], x[2])}
  <1>1. /\ NewHandler \in HandlerSet /\ HandlerParse(<<>>, NewHandler)
        /\ step \in [HandlerSet \X Lines -> HandlerSet]
        /\ \A s \in HandlerSet, d \in Lines : step[<<s, d>>] = HandlerDirective(s, d)
    BY HandlerStart, HandlerStep
  <1> HIDE DEF step
  <1>2. \A n \in 0..Len(block) : n # 0 => n \in 1..Len(block) /\ block[n] \in Lines /\ n - 1 \in 0..Len(block)
    OBVIOUS
  <1>3. PICK f \in [0..Len(block) -> HandlerSet] : Parses(f, step, NewHandler, block)
    BY <1>1, ParsesExists
  <1>4. f = [n \in 0..Len(block) |->
              IF n = 0 THEN NewHandler
              ELSE LET before == f[n - 1]
                   IN  IF before.err THEN before ELSE HandlerDirective(before, block[n])]
    BY <1>1, <1>2, <1>3 DEF Parses
  <1>5. after = [n \in 0..Len(block) |->
              IF n = 0 THEN NewHandler
              ELSE LET before == after[n - 1]
                   IN  IF before.err THEN before ELSE HandlerDirective(before, block[n])]
    BY <1>4, Zenon
  <1>6. Parse(HandlerDirective, NewHandler, block) = after[Len(block)]
    BY Zenon DEF Parse
  <1> HIDE DEF after
  <1>7. /\ after[0] = NewHandler
        /\ \A n \in 1..Len(block) : after[n - 1] \in HandlerSet =>
               after[n] = IF after[n - 1].err THEN after[n - 1] ELSE step[<<after[n - 1], block[n]>>]
    BY <1>1, <1>2, <1>5
  <1>8. \A said \in Seq(Lines), s \in HandlerSet : <<said, s>> \in good <=> HandlerParse(said, s)
    OBVIOUS
  <1>9. good \subseteq Seq(Lines) \X HandlerSet /\ <<>> \in Seq(Lines)
    OBVIOUS
  <1> HIDE DEF good
  <1>10. ASSUME NEW said \in Seq(Lines), NEW s \in HandlerSet, NEW d \in Lines,
                ~s.err, <<said, s>> \in good, ~step[<<s, d>>].err
         PROVE  <<Append(said, d), step[<<s, d>>]>> \in good
    <2>1. Append(said, d) \in Seq(Lines) /\ HandlerParse(said, s)
      BY <1>8, <1>10
    <2> QED
      BY <1>1, <1>8, <1>10, <2>1, HandlerStep
  <1>11. <<<<>>, NewHandler>> \in good
    BY <1>1, <1>8, <1>9
  <1>12. after[Len(block)] \in HandlerSet /\ (~after[Len(block)].err => <<block, after[Len(block)]>> \in good)
    BY <1>1, <1>7, <1>10, <1>11, ParsedIsGood, Zenon
  <1> QED
    BY <1>6, <1>8, <1>12

-----------------------------------------------------------------------------
\* An accepted block is one that parsed, and says what came of it.
LEMMA AcceptedParse ==
    ASSUME NEW f \in Files, Accepted(f)
    PROVE  LET h == parseCaddyfile(Content[f]) IN h \in HandlerSet /\ HandlerParse(Content[f], h)
  <1> DEFINE h == Parse(HandlerDirective, NewHandler, Content[f])
  <1>1. Content[f] \in Seq(Lines)
    BY ContentAssumption
  <1>2. h \in HandlerSet /\ (~h.err => HandlerParse(Content[f], h))
    BY <1>1, HandlerParsed
  <1>3. parseCaddyfile(Content[f]) = IF h.upstream = "" THEN Fail(h) ELSE h
    BY DEF parseCaddyfile
  <1> HIDE DEF h
  <1>4. ~parseCaddyfile(Content[f]).err
    BY DEF Accepted
  <1>5. h.upstream # ""
    BY <1>2, <1>3, <1>4 DEF Fail, HandlerSet
  <1> QED
    BY <1>2, <1>3, <1>4, <1>5

\* Provision fills in what the caching block leaves out, and nothing else.
ByDefault(c) == [c EXCEPT !.store_dsn = StoreDsn(@)]

LEMMA DefaultSays ==
    ASSUME NEW said, NEW c \in CachingSet, CachingParse(said, c)
    PROVE  CachingSays(said, ByDefault(c)) /\ ByDefault(c).store_dsn \in Dsns
  <1>1. /\ ByDefault(c).store_dsn = StoreDsn(c.store_dsn)
        /\ ByDefault(c).rules = c.rules /\ ByDefault(c).varies = c.varies
        /\ ByDefault(c).type_keys = c.type_keys
        /\ ByDefault(c).auto_invalidate_cache = c.auto_invalidate_cache
        /\ ByDefault(c).debug_headers = c.debug_headers
    BY DEF ByDefault, CachingSet
  <1>2. c.store_dsn = "" \/ c.store_dsn \in Dsns
    BY DEF CachingSet, Dsns
  <1>3. c.store_dsn = LastArg(said, "store_dsn", "")
    BY DEF CachingParse
  <1>4. StoreDsn(c.store_dsn) \in Dsns
    BY <1>2, DsnAssumption DEF StoreDsn, Dsns
  <1> DEFINE dsn == LastArg(said, "store_dsn", "")
  <1>5. ByDefault(c).store_dsn = StoreDsn(dsn)
    BY <1>1, <1>3, Zenon
  <1> QED
    BY <1>1, <1>4, <1>5 DEF CachingParse, SwitchesSay, PartsSay, CachingSays

\* The caching of the settings is that of the block in force, by default.
LEMMA SettingsCaching ==
    ASSUME NEW f \in Files, Accepted(f)
    PROVE  \/ Enabled(Content[f], "caching") = {} /\ Settings(f).caching = {}
           \/ \E at \in DOMAIN Content[f], c \in CachingSet :
                 /\ Enabled(Content[f], "caching") = {at} /\ Settings(f).caching = {ByDefault(c)}
                 /\ CachingParse(Content[f][at].block, c)
  <1> DEFINE h == parseCaddyfile(Content[f])
  <1>1. h \in HandlerSet /\ CachingInForce(Content[f], h.caching)
    BY AcceptedParse DEF HandlerParse
  <1>2. Settings(f) = Defaulted(h)
    BY DEF Settings
  <1> HIDE DEF h
  <1>3. Settings(f).caching = {ByDefault(c) : c \in h.caching}
    BY <1>1, <1>2 DEF Defaulted, ByDefault, HandlerSet
  <1>4. h.caching = {} => Settings(f).caching = {}
    BY <1>3
  <1>5. \A c : h.caching = {c} => Settings(f).caching = {ByDefault(c)}
    BY <1>3
  <1> QED
    BY <1>1, <1>4, <1>5 DEF CachingInForce

\* The settings of an accepted block ask for one store at most, by a DSN that
\* reads as one.
LEMMA AcceptedConfigured ==
    ASSUME NEW f \in Files, Accepted(f)
    PROVE  Configured(Settings(f))
  <1>1. CASE Settings(f).caching = {}
    BY <1>1 DEF Configured, DsnsOf
  <1>2. CASE \E c \in CachingSet : \E said : Settings(f).caching = {ByDefault(c)} /\ CachingParse(said, c)
    <2>1. PICK c \in CachingSet : \E said : Settings(f).caching = {ByDefault(c)} /\ CachingParse(said, c)
      BY <1>2
    <2>2. PICK said : Settings(f).caching = {ByDefault(c)} /\ CachingParse(said, c)
      BY <2>1
    <2>3. DsnsOf(Settings(f)) = {ByDefault(c).store_dsn}
      BY <2>2 DEF DsnsOf
    <2> QED
      BY <2>2, <2>3, DefaultSays DEF Configured
  <1> QED
    BY <1>1, <1>2, SettingsCaching

\* Settings are what the block says.
LEMMA SettingsSay ==
    ASSUME NEW f \in Files, Accepted(f)
    PROVE  HandlerSays(Content[f], Settings(f))
  <1> DEFINE h == parseCaddyfile(Content[f])
             s == Settings(f)
             said == Content[f]
  <1>1. h \in HandlerSet /\ WordsSay(said, h) /\ ComplexityInForce(said, h.complexity)
    BY AcceptedParse DEF HandlerParse
  <1>2. s = Defaulted(h)
    BY DEF Settings
  <1> HIDE DEF h
  <1>3. /\ s.upstream = h.upstream /\ s.reverse_proxy = h.reverse_proxy
        /\ s.fetch_schema_interval = h.fetch_schema_interval
        /\ s.fetch_schema_timeout = IF h.fetch_schema_timeout = 0 THEN DefaultTimeout ELSE h.fetch_schema_timeout
        /\ s.disabled_introspection = h.disabled_introspection
        /\ s.disabled_playgrounds = h.disabled_playgrounds
        /\ s.cors_origins = h.cors_origins
        /\ s.cors_allowed_headers = h.cors_allowed_headers
        /\ s.complexity = h.complexity
    BY <1>1, <1>2 DEF Defaulted, HandlerSet
  <1>4. \/ Enabled(said, "caching") = {} /\ s.caching = {}
        \/ \E at \in DOMAIN said, c \in CachingSet :
              /\ Enabled(said, "caching") = {at} /\ s.caching = {ByDefault(c)}
              /\ CachingParse(said[at].block, c)
    BY SettingsCaching
  <1> HIDE DEF s, said
  <1>5. Cardinality({}) = 0 /\ \A x : Cardinality({x}) = 1
    BY FS_EmptySet, FS_Singleton
  <1>6. /\ Cardinality(s.caching) = Cardinality(Enabled(said, "caching"))
        /\ \A at \in Enabled(said, "caching"), c \in s.caching : CachingSays(said[at].block, c)
    <2>1. CASE Enabled(said, "caching") = {} /\ s.caching = {}
      BY <1>5, <2>1
    <2>2. CASE \E at \in DOMAIN said, c \in CachingSet :
                  /\ Enabled(said, "caching") = {at} /\ s.caching = {ByDefault(c)}
                  /\ CachingParse(said[at].block, c)
      <3>1. PICK at \in DOMAIN said, c \in CachingSet :
                  /\ Enabled(said, "caching") = {at} /\ s.caching = {ByDefault(c)}
                  /\ CachingParse(said[at].block, c)
        BY <2>2
      <3>2. CachingSays(said[at].block, ByDefault(c))
        BY <3>1, DefaultSays
      <3>3. Cardinality({at}) = 1 /\ Cardinality({ByDefault(c)}) = 1
        BY <1>5
      <3> QED
        BY <3>1, <3>2, <3>3
    <2> QED
      BY <1>4, <2>1, <2>2
  <1>7. /\ Cardinality(s.complexity) = Cardinality(Enabled(said, "complexity"))
        /\ \A at \in Enabled(said, "complexity"), c \in s.complexity : ComplexitySays(said[at].block, c)
    <2>1. CASE Enabled(said, "complexity") = {} /\ s.complexity = {}
      BY <1>5, <2>1
    <2>2. CASE \E at \in DOMAIN said, c \in ComplexitySet :
                  Enabled(said, "complexity") = {at} /\ s.complexity = {c} /\ ComplexityParse(said[at].block, c)
      <3>1. PICK at \in DOMAIN said, c \in ComplexitySet :
                  Enabled(said, "complexity") = {at} /\ s.complexity = {c} /\ ComplexityParse(said[at].block, c)
        BY <2>2
      <3>2. ComplexitySays(said[at].block, c)
        BY <3>1 DEF ComplexityParse
      <3>3. Cardinality({at}) = 1 /\ Cardinality({c}) = 1
        BY <1>5
      <3> QED
        BY <3>1, <3>2, <3>3
    <2> QED
      BY <1>1, <1>3, <2>1, <2>2 DEF ComplexityInForce
  <1>8. HandlerSays(said, s)
    BY <1>1, <1>3, <1>6, <1>7 DEF WordsSay, HandlerSays
  <1> QED
    BY <1>8 DEF said, s

-----------------------------------------------------------------------------
(***************************************************************************)
(* The handlers.                                                           *)
(***************************************************************************)
\* The handlers that use a store are finitely many.
LEMMA UsersFinite ==
    ASSUME NEW d
    PROVE  IsFiniteSet(Users(d)) /\ IsFiniteSet(Users(d)')
  <1>1. Users(d) \subseteq Handlers /\ Users(d)' \subseteq Handlers
    BY DEF Users
  <1> QED
    BY <1>1, FS_Subset, HandlersAssumption

\* The settings without a file want no store.
LEMMA NewHandlerConfigured == Configured(NewHandler) /\ DsnsOf(NewHandler) = {}
  BY DEF Configured, DsnsOf, NewHandler

\* What a count depends on.
LEMMA CountsKept ==
    ASSUME UsersCounted, pool' = pool, store' = store,
           \A i \in Handlers : conf'[i] = conf[i] \/ store[i] = NoStore
    PROVE  UsersCounted'
  <1>1. ASSUME NEW d \in Dsns
        PROVE  Users(d)' = Users(d)
    BY DEF Users
  <1> QED
    BY <1>1 DEF UsersCounted

\* A handler that takes a store is counted, and gets the one that others have.
LEMMA TakeCounted ==
    ASSUME TypeOK, UsersCounted, NEW i \in Handlers, NEW d \in Dsns,
           DsnsOf(conf[i]) = {d}, store[i] = NoStore, conf' = conf, LoadOrNew(i, d)
    PROVE  UsersCounted'
  <1>1. store'[i] # NoStore /\ \A j \in Handlers \ {i} : store'[j] = store[j]
    <2>1. CASE pool[d].refs > 0
      BY <2>1 DEF LoadOrNew, TypeOK, UsersCounted
    <2>2. CASE ~(pool[d].refs > 0)
      BY <2>2, DistinctAssumption DEF LoadOrNew, TypeOK
    <2> QED
      BY <2>1, <2>2
  <1>2. Users(d)' = Users(d) \cup {i} /\ i \notin Users(d)
    BY <1>1 DEF Users
  <1>3. Cardinality(Users(d)') = Cardinality(Users(d)) + 1
    BY <1>2, UsersFinite, FS_AddElement
  <1>4. ASSUME NEW e \in Dsns, e # d
        PROVE  /\ pool'[e] = pool[e] /\ Users(e)' = Users(e)
               /\ \A j \in Users(e) : store'[j] = store[j]
    <2>1. pool'[e] = pool[e]
      BY <1>4 DEF LoadOrNew, TypeOK
    <2>2. i \notin Users(e)
      BY <1>4 DEF Users
    <2> QED
      BY <1>1, <1>4, <2>1, <2>2 DEF Users
  <1>5. /\ pool'[d].refs = pool[d].refs + 1
        /\ pool'[d].store # NoStore
        /\ \A j \in Users(d)' : store'[j] = pool'[d].store
    <2>1. CASE pool[d].refs > 0
      <3>1. pool'[d].refs = pool[d].refs + 1 /\ pool'[d].store = pool[d].store /\ store'[i] = pool[d].store
        BY <2>1 DEF LoadOrNew, TypeOK
      <3>2. \A j \in Users(d) : store[j] = pool[d].store
        BY DEF UsersCounted
      <3>3. pool[d].store # NoStore
        BY <2>1 DEF UsersCounted, TypeOK
      <3> QED
        BY <1>1, <1>2, <3>1, <3>2, <3>3 DEF Users
    <2>2. CASE ~(pool[d].refs > 0)
      <3>1. pool[d].refs = 0
        BY <2>2 DEF TypeOK
      <3>2. Users(d) = {}
        BY <3>1, UsersFinite, FS_EmptySet DEF UsersCounted
      <3>3. PICK s \in Stores : /\ store' = [store EXCEPT ![i] = s]
                                /\ pool' = [pool EXCEPT ![d] = [store |-> s, refs |-> 1]]
        BY <2>2 DEF LoadOrNew
      <3>4. pool'[d] = [store |-> s, refs |-> 1] /\ store'[i] = s
        BY <3>3 DEF TypeOK
      <3> QED
        BY <1>2, <3>1, <3>2, <3>4, DistinctAssumption
    <2> QED
      BY <2>1, <2>2
  <1>6. pool[d].refs = Cardinality(Users(d)) /\ pool[d].refs \in Nat
    BY DEF UsersCounted, TypeOK
  <1>7. ASSUME NEW e \in Dsns
        PROVE  /\ pool'[e].refs = Cardinality(Users(e)')
               /\ pool'[e].refs = 0 <=> pool'[e].store = NoStore
               /\ \A j \in Users(e)' : store'[j] = pool'[e].store
    <2>1. CASE e = d
      BY <1>3, <1>5, <1>6, <2>1
    <2>2. CASE e # d
      BY <1>4, <2>2 DEF UsersCounted
    <2> QED
      BY <2>1, <2>2
  <1> QED
    BY <1>7 DEF UsersCounted

\* A handler that is cleaned up is counted out, if it was counted.
LEMMA GiveCounted ==
    ASSUME TypeOK, UsersCounted, NEW i \in Handlers, CleanUp(i),
           \A d \in DsnsOf(conf[i]) : store[i] # NoStore \/ pool[d].refs = 0
    PROVE  UsersCounted'
  <1>1. /\ pool' = [d \in Dsns |-> IF d \in DsnsOf(conf[i]) THEN Released(d) ELSE pool[d]]
        /\ store' = [store EXCEPT ![i] = NoStore]
        /\ conf' = [conf EXCEPT ![i] = NewHandler]
    BY DEF CleanUp, Delete, Drop
  <1>2. ASSUME NEW d \in Dsns
        PROVE  Users(d)' = Users(d) \ {i} /\ \A j \in Users(d)' : store'[j] = store[j]
    <2>1. store'[i] = NoStore /\ \A j \in Handlers \ {i} : store'[j] = store[j] /\ conf'[j] = conf[j]
      BY <1>1 DEF TypeOK
    <2> QED
      BY <2>1 DEF Users
  <1>3. ASSUME NEW d \in Dsns
        PROVE  /\ pool'[d].refs = Cardinality(Users(d)')
               /\ pool'[d].refs = 0 <=> pool'[d].store = NoStore
               /\ \A j \in Users(d)' : store'[j] = pool'[d].store
    <2>1. /\ pool[d].refs = Cardinality(Users(d)) /\ pool[d].refs \in Nat
          /\ pool[d].refs = 0 <=> pool[d].store = NoStore
          /\ \A j \in Users(d) : store[j] = pool[d].store
      BY DEF UsersCounted, TypeOK
    <2>2. CASE i \notin Users(d)
      <3>1. Users(d)' = Users(d)
        BY <1>2, <2>2
      <3>2. pool'[d] = pool[d]
        <4>1. CASE d \in DsnsOf(conf[i])
          <5>1. pool[d].refs = 0
            BY <2>2, <4>1 DEF Users
          <5> QED
            BY <1>1, <4>1, <5>1 DEF Released
        <4>2. CASE d \notin DsnsOf(conf[i])
          BY <1>1, <4>2
        <4> QED
          BY <4>1, <4>2
      <3> QED
        BY <1>2, <2>1, <3>1, <3>2
    <2>3. CASE i \in Users(d)
      <3>1. Cardinality(Users(d)') = Cardinality(Users(d)) - 1
        BY <1>2, <2>3, UsersFinite, FS_RemoveElement
      <3>2. pool'[d] = Released(d)
        BY <1>1, <2>3 DEF Users
      <3>3. Cardinality(Users(d)') \in Nat
        BY UsersFinite, FS_CardinalityType
      <3>4. CASE pool[d].refs = 1
        <4>1. pool'[d].refs = 0 /\ pool'[d].store = NoStore
          BY <3>2, <3>4 DEF Released, Unpooled
        <4>2. Users(d)' = {}
          BY <2>1, <3>1, <3>4, UsersFinite, FS_EmptySet
        <4> QED
          BY <2>1, <3>1, <3>4, <4>1, <4>2
      <3>5. CASE pool[d].refs # 1
        <4>1. pool[d].refs # 0
          BY <2>1, <3>1, <3>3
        <4>2. pool'[d] = [pool[d] EXCEPT !.refs = @ - 1]
          BY <3>2, <3>5, <4>1 DEF Released
        <4>3. pool[d] \in [store : Stores \cup {NoStore}, refs : Nat]
          BY DEF TypeOK
        <4>4. pool'[d].refs = pool[d].refs - 1 /\ pool'[d].store = pool[d].store
          BY <4>2, <4>3
        <4> QED
          BY <1>2, <2>1, <3>1, <3>5, <4>1, <4>4
      <3> QED
        BY <3>4, <3>5
    <2> QED
      BY <2>2, <2>3
  <1> QED
    BY <1>3 DEF UsersCounted

-----------------------------------------------------------------------------
LEMMA LoadProxyKeeps == \A i \in Handlers : IInv /\ LoadProxy(i) => IInv'
  <1> SUFFICES ASSUME NEW i \in Handlers, IInv, LoadProxy(i)
               PROVE  IInv'
    OBVIOUS
  <1>1. TypeOK'
    BY DEF IInv, TypeOK, Stages, LoadProxy, loads
  <1>2. UsersCounted'
    BY CountsKept DEF IInv, LoadProxy, loads
  <1>3. Placed'
    BY DEF IInv, Placed, TypeOK, LoadProxy, loads
  <1>4. Provisioned'
    BY DEF IInv, Provisioned, TypeOK, LoadProxy, loads
  <1>5. Refused' /\ AllConfigured'
    BY DEF IInv, Refused, AllConfigured, LoadProxy, loads
  <1> QED
    BY <1>1, <1>2, <1>3, <1>4, <1>5 DEF IInv

LEMMA FetchSchemaKeeps == \A i \in Handlers : IInv /\ FetchSchema(i) => IInv'
  <1> SUFFICES ASSUME NEW i \in Handlers, IInv, FetchSchema(i)
               PROVE  IInv'
    OBVIOUS
  <1>1. TypeOK'
    BY DEF IInv, TypeOK, Stages, FetchSchema, loads, LoopFor
  <1>2. UsersCounted'
    BY CountsKept DEF IInv, FetchSchema, loads, LoopFor
  <1>3. Placed'
    BY DEF IInv, Placed, TypeOK, FetchSchema, loads, LoopFor
  <1>4. Provisioned'
    BY DEF IInv, Provisioned, TypeOK, FetchSchema, loads, LoopFor
  <1>5. Refused' /\ AllConfigured'
    BY DEF IInv, Refused, AllConfigured, FetchSchema, loads, LoopFor
  <1> QED
    BY <1>1, <1>2, <1>3, <1>4, <1>5 DEF IInv

LEMMA ValidateKeeps == \A i \in Handlers : IInv /\ Validate(i) => IInv'
  <1> SUFFICES ASSUME NEW i \in Handlers, IInv, Validate(i)
               PROVE  IInv'
    OBVIOUS
  <1>1. TypeOK'
    BY DEF IInv, TypeOK, Stages, Validate, loads
  <1>2. UsersCounted'
    BY CountsKept DEF IInv, Validate, loads
  <1>3. Placed'
    BY DEF IInv, Placed, TypeOK, Validate, loads
  <1>4. Provisioned'
    BY DEF IInv, Provisioned, TypeOK, Validate, loads
  <1>5. Refused' /\ AllConfigured'
    BY DEF IInv, Refused, AllConfigured, Validate, loads
  <1> QED
    BY <1>1, <1>2, <1>3, <1>4, <1>5 DEF IInv

LEMMA TickKeeps == \A i \in Handlers : IInv /\ Tick(i) => IInv'
  <1> SUFFICES ASSUME NEW i \in Handlers, IInv, Tick(i)
               PROVE  IInv'
    OBVIOUS
  <1>1. TypeOK'
    BY DEF IInv, TypeOK, Stages, Tick, loads
  <1>2. UsersCounted'
    BY CountsKept DEF IInv, Tick, loads
  <1>3. Placed'
    BY DEF IInv, Placed, TypeOK, Tick, loads
  <1>4. Provisioned'
    BY DEF IInv, Provisioned, TypeOK, Tick, loads
  <1>5. Refused' /\ AllConfigured'
    BY DEF IInv, Refused, AllConfigured, Tick, loads
  <1> QED
    BY <1>1, <1>2, <1>3, <1>4, <1>5 DEF IInv

LEMMA FetchDoneKeeps == \A i \in Handlers : IInv /\ FetchDone(i) => IInv'
  <1> SUFFICES ASSUME NEW i \in Handlers, IInv, FetchDone(i)
               PROVE  IInv'
    OBVIOUS
  <1>1. TypeOK'
    BY DEF IInv, TypeOK, Stages, FetchDone, loads
  <1>2. UsersCounted'
    BY CountsKept DEF IInv, FetchDone, loads
  <1>3. Placed'
    BY DEF IInv, Placed, TypeOK, FetchDone, loads
  <1>4. Provisioned'
    BY DEF IInv, Provisioned, TypeOK, FetchDone, loads
  <1>5. Refused' /\ AllConfigured'
    BY DEF IInv, Refused, AllConfigured, FetchDone, loads
  <1> QED
    BY <1>1, <1>2, <1>3, <1>4, <1>5 DEF IInv

LEMMA LoopEndsKeeps == \A i \in Handlers : IInv /\ LoopEnds(i) => IInv'
  <1> SUFFICES ASSUME NEW i \in Handlers, IInv, LoopEnds(i)
               PROVE  IInv'
    OBVIOUS
  <1>1. TypeOK'
    BY DEF IInv, TypeOK, Stages, LoopEnds, loads
  <1>2. UsersCounted'
    BY CountsKept DEF IInv, LoopEnds, loads
  <1>3. Placed'
    BY DEF IInv, Placed, TypeOK, LoopEnds, loads
  <1>4. Provisioned'
    BY DEF IInv, Provisioned, TypeOK, LoopEnds, loads
  <1>5. Refused' /\ AllConfigured'
    BY DEF IInv, Refused, AllConfigured, LoopEnds, loads
  <1> QED
    BY <1>1, <1>2, <1>3, <1>4, <1>5 DEF IInv

LEMMA LoadKeeps == \A config \in Configs : IInv /\ Load(config) => IInv'
  <1> SUFFICES ASSUME NEW config \in Configs, IInv, Load(config)
               PROVE  IInv'
    OBVIOUS
  <1>1. TypeOK'
    BY DEF IInv, TypeOK, Load
  <1>2. UsersCounted'
    BY CountsKept DEF IInv, Load
  <1>3. Placed'
    BY DEF IInv, Placed, Load
  <1>4. Provisioned' /\ Refused'
    BY DEF IInv, Provisioned, Refused, Load
  <1>5. AllConfigured'
    <2>1. config \in Seq(Files) /\ \A k \in DOMAIN config : config[k] \in Files /\ Accepted(config[k])
      BY ConfigsAssumption DEF Load, ToSet
    <2> DEFINE Made == [file : Files, conf : {Settings(f) : f \in Files}]
    <2>2. pending' \in Seq(Made)
      <3>1. \A k \in 1..Len(config) : [file |-> config[k], conf |-> Settings(config[k])] \in Made
        BY <2>1
      <3>2. Len(config) \in Nat /\ DOMAIN config = 1..Len(config)
        BY <2>1
      <3> HIDE DEF Made
      <3> QED
        BY <3>1, <3>2 DEF Load
    <2>3. \A k \in DOMAIN pending' : Configured(pending'[k].conf)
      <3>1. \A k \in DOMAIN pending' : k \in DOMAIN config /\ pending'[k].conf = Settings(config[k])
        BY DEF Load
      <3> QED
        BY <2>1, <3>1, AcceptedConfigured
    <2> QED
      BY <2>2, <2>3 DEF IInv, AllConfigured, Load, Configured
  <1> QED
    BY <1>1, <1>2, <1>3, <1>4, <1>5 DEF IInv

LEMMA NewKeeps == \A i \in Handlers : IInv /\ New(i) => IInv'
  <1> SUFFICES ASSUME NEW i \in Handlers, IInv, New(i)
               PROVE  IInv'
    OBVIOUS
  <1>1. /\ Head(pending) \in [file : Files, conf : {Settings(f) : f \in Files}]
        /\ Configured(Head(pending).conf)
        /\ Tail(pending) \in Seq([file : Files, conf : {Settings(f) : f \in Files}])
        /\ \A k \in DOMAIN Tail(pending) : Configured(Tail(pending)[k].conf)
    <2> DEFINE Made == [file : Files, conf : {Settings(f) : f \in Files}]
    <2>1. /\ pending \in Seq(Made) /\ pending # <<>>
          /\ \A k \in DOMAIN pending : Configured(pending[k].conf)
      BY DEF IInv, AllConfigured, New
    <2> HIDE DEF Made
    <2>2. Head(pending) \in Made /\ Head(pending) = pending[1] /\ 1 \in DOMAIN pending
      BY <2>1
    <2>3. Tail(pending) \in Seq(Made)
      BY <2>1
    <2>4. \A k \in DOMAIN Tail(pending) : k + 1 \in DOMAIN pending /\ Tail(pending)[k] = pending[k + 1]
      BY <2>1
    <2> QED
      BY <2>1, <2>2, <2>3, <2>4 DEF Made
  <1>2. stage[i] = "gone" /\ loop[i] = "none" /\ store[i] = NoStore
    BY DEF New, Free, IInv, Provisioned
  <1>3. TypeOK'
    BY <1>1 DEF IInv, TypeOK, Stages, New
  <1>4. UsersCounted'
    BY <1>2, CountsKept DEF IInv, AllConfigured, New
  <1>5. Placed'
    BY <1>2 DEF IInv, Placed, TypeOK, New
  <1>6. Provisioned'
    BY <1>2 DEF IInv, Provisioned, TypeOK, AllConfigured, New
  <1>7. Refused' /\ AllConfigured'
    <2>1. \A j \in Handlers : conf'[j] = Head(pending).conf \/ conf'[j] = conf[j]
      BY DEF IInv, AllConfigured, New
    <2>2. \A j \in Handlers : Configured(conf'[j])
      BY <1>1, <2>1 DEF IInv, AllConfigured
    <2>3. conf' \in [Handlers -> {NewHandler} \cup {Settings(f) : f \in Files}]
      BY <1>1 DEF IInv, AllConfigured, New
    <2> QED
      BY <1>1, <2>2, <2>3 DEF IInv, Refused, AllConfigured, New, Configured
  <1> QED
    BY <1>3, <1>4, <1>5, <1>6, <1>7 DEF IInv

\* What is left of a load is configured as before.
LEMMA PendingConfigured ==
    ASSUME IInv, pending' = <<>> \/ pending' = pending
    PROVE  /\ pending' \in Seq([file : Files, conf : {Settings(f) : f \in Files}])
           /\ \A k \in DOMAIN pending' : Configured(pending'[k].conf)
  <1> DEFINE Made == [file : Files, conf : {Settings(f) : f \in Files}]
  <1>1. pending \in Seq(Made) /\ \A k \in DOMAIN pending : Configured(pending[k].conf)
    BY DEF IInv, AllConfigured
  <1> HIDE DEF Made
  <1>2. CASE pending' = <<>>
    <2>1. pending' \in Seq(Made) /\ DOMAIN pending' = {}
      BY <1>2
    <2> QED
      BY <2>1 DEF Made
  <1>3. CASE pending' = pending
    BY <1>1, <1>3 DEF Made
  <1> QED
    BY <1>2, <1>3

\* What CleanUp preserves; where the handlers are then is the caller's matter.
LEMMA CleanUpKeeps ==
    ASSUME IInv, NEW i \in Handlers, CleanUp(i),
           \A d \in DsnsOf(conf[i]) : store[i] # NoStore \/ pool[d].refs = 0,
           loading' \subseteq Handlers, serving' = serving \/ serving' = loading, doomed' \subseteq Handlers,
           pending' = <<>> \/ pending' = pending
    PROVE  TypeOK' /\ UsersCounted' /\ Provisioned' /\ Refused' /\ AllConfigured'
  <1>1. /\ pool' = [d \in Dsns |-> IF d \in DsnsOf(conf[i]) THEN Released(d) ELSE pool[d]]
        /\ store' = [store EXCEPT ![i] = NoStore]
        /\ conf' = [conf EXCEPT ![i] = NewHandler]
        /\ file' = [file EXCEPT ![i] = NoFile]
        /\ stage' = [stage EXCEPT ![i] = "gone"]
        /\ cancelled' = [cancelled EXCEPT ![i] = TRUE]
        /\ loop' = loop
    BY DEF CleanUp, Delete, Drop
  <1>2. ASSUME NEW d \in Dsns
        PROVE  /\ pool'[d] \in [store : Stores \cup {NoStore}, refs : Nat]
               /\ pool[d].refs = 0 => pool'[d].refs = 0
    <2>1. pool[d] \in [store : Stores \cup {NoStore}, refs : Nat]
      BY DEF IInv, TypeOK
    <2>2. Released(d) \in [store : Stores \cup {NoStore}, refs : Nat]
      <3>1. CASE pool[d].refs \in {0, 1}
        BY <2>1, <3>1 DEF Released, Unpooled
      <3>2. CASE pool[d].refs \notin {0, 1}
        <4>1. Released(d) = [pool[d] EXCEPT !.refs = @ - 1]
          BY <3>2 DEF Released
        <4>2. pool[d].refs - 1 \in Nat
          BY <2>1, <3>2
        <4> QED
          BY <2>1, <4>1, <4>2
      <3> QED
        BY <3>1, <3>2
    <2>3. pool[d].refs = 0 => Released(d) = pool[d]
      BY DEF Released
    <2> QED
      BY <1>1, <2>1, <2>2, <2>3
  <1>3. TypeOK'
    <2>1. pool' \in [Dsns -> [store : Stores \cup {NoStore}, refs : Nat]]
      BY <1>1, <1>2
    <2> QED
      BY <1>1, <2>1 DEF IInv, TypeOK, Stages
  <1>4. UsersCounted'
    BY GiveCounted DEF IInv
  <1>5. Provisioned'
    BY <1>1 DEF IInv, Provisioned, TypeOK, AllConfigured
  <1>6. Refused'
    BY <1>2 DEF IInv, Refused
  <1>7. AllConfigured'
    <2>1. conf' \in [Handlers -> {NewHandler} \cup {Settings(f) : f \in Files}]
      BY <1>1 DEF IInv, AllConfigured
    <2>2. \A j \in Handlers : Configured(conf'[j])
      BY <1>1, NewHandlerConfigured DEF IInv, AllConfigured
    <2> QED
      BY <2>1, <2>2, PendingConfigured DEF AllConfigured
  <1> QED
    BY <1>3, <1>4, <1>5, <1>6, <1>7

\* A load that fails at a handler.
LEMMA FailsKeeps ==
    ASSUME IInv, NEW i \in loading, Fails(i), stage[i] # "ready",
           \A d \in DsnsOf(conf[i]) : store[i] # NoStore \/ pool[d].refs = 0
    PROVE  IInv'
  <1>1. i \in Handlers /\ CleanUp(i) /\ Abort(i)
    BY DEF IInv, TypeOK, Fails
  <1>2. TypeOK' /\ UsersCounted' /\ Provisioned' /\ Refused' /\ AllConfigured'
    BY <1>1, CleanUpKeeps DEF IInv, TypeOK, Abort
  <1>3. Placed'
    BY <1>1 DEF IInv, Placed, TypeOK, Abort, CleanUp, Drop
  <1> QED
    BY <1>2, <1>3 DEF IInv

LEMMA ProvisionFailsKeep ==
    \A i \in Handlers :
        IInv /\ (LoadProxyFails(i) \/ AcquireFails(i) \/ FetchFails(i) \/ ValidateFails(i)) => IInv'
  <1> SUFFICES ASSUME NEW i \in Handlers, IInv,
                      LoadProxyFails(i) \/ AcquireFails(i) \/ FetchFails(i) \/ ValidateFails(i)
               PROVE  IInv'
    OBVIOUS
  <1>1. Fails(i) /\ stage[i] \notin {"gone", "ready", "abandoned"}
    BY DEF LoadProxyFails, AcquireFails, FetchFails, ValidateFails
  <1>2. i \in loading
    BY <1>1 DEF IInv, Placed
  <1>3. ASSUME NEW d \in DsnsOf(conf[i])
        PROVE  store[i] # NoStore \/ pool[d].refs = 0
    <2>1. CASE LoadProxyFails(i)
      BY <2>1 DEF LoadProxyFails, DsnsOf
    <2>2. CASE AcquireFails(i)
      <3>1. PICK e \in DsnsOf(conf[i]) : ~FactoryAccepts(e)
        BY <2>2 DEF AcquireFails
      <3>2. e = d /\ d \in Dsns
        BY <3>1 DEF IInv, AllConfigured, Configured
      <3> QED
        BY <3>1, <3>2 DEF IInv, Refused
    <2>3. CASE FetchFails(i) \/ ValidateFails(i)
      BY <2>3 DEF FetchFails, ValidateFails, IInv, Provisioned
    <2> QED
      BY <2>1, <2>2, <2>3
  <1> QED
    BY <1>1, <1>2, <1>3, FailsKeeps

LEMMA LoadProxyPanicsKeeps == \A i \in Handlers : IInv /\ LoadProxyPanics(i) => IInv'
  <1> SUFFICES ASSUME NEW i \in Handlers, IInv, LoadProxyPanics(i)
               PROVE  IInv'
    OBVIOUS
  <1>1. store[i] = NoStore /\ stage[i] = "new"
    BY DEF IInv, Provisioned, LoadProxyPanics
  <1>2. TypeOK'
    BY DEF IInv, TypeOK, Stages, LoadProxyPanics, Drop
  <1>3. UsersCounted'
    <2>1. store' = store
      BY <1>1 DEF IInv, TypeOK, LoadProxyPanics, Drop
    <2> QED
      BY <1>1, <2>1, CountsKept DEF IInv, AllConfigured, LoadProxyPanics, Drop
  <1>4. Placed'
    BY <1>1 DEF IInv, Placed, TypeOK, LoadProxyPanics, Drop
  <1>5. Provisioned' /\ Refused'
    <2>1. /\ store' = store /\ pool' = pool /\ loop' = loop
          /\ cancelled' = [cancelled EXCEPT ![i] = TRUE] /\ conf' = [conf EXCEPT ![i] = NewHandler]
      BY <1>1 DEF IInv, TypeOK, LoadProxyPanics, Drop
    <2>2. stage'[i] = "gone" /\ \A j \in Handlers \ {i} : stage'[j] = stage[j] \/ (stage'[j] = "abandoned" /\ j \in loading)
      <3>1. stage' = [j \in Handlers |-> CASE j = i -> "gone"
                                          [] j \in loading \ {i} -> "abandoned"
                                          [] OTHER -> stage[j]]
        BY DEF LoadProxyPanics
      <3>2. stage'[i] = "gone"
        BY <3>1
      <3>3. ASSUME NEW j \in Handlers \ {i}
            PROVE  stage'[j] = stage[j] \/ (stage'[j] = "abandoned" /\ j \in loading)
        <4>1. CASE j \in loading
          BY <3>1, <4>1
        <4>2. CASE j \notin loading
          BY <3>1, <4>2
        <4> QED
          BY <4>1, <4>2
      <3> QED
        BY <3>2, <3>3
    <2>3. Refused'
      BY <2>1 DEF IInv, Refused
    <2>4. ASSUME NEW j \in Handlers \ {i}
          PROVE  cancelled'[j] = cancelled[j] /\ conf'[j] = conf[j]
      BY <2>1 DEF IInv, TypeOK, AllConfigured
    <2>5. \A j \in loading : ~cancelled[j]
      BY DEF IInv, Placed, Provisioned, TypeOK
    <2> QED
      BY <1>1, <2>1, <2>2, <2>3, <2>4, <2>5 DEF IInv, Provisioned
  <1>6. AllConfigured'
    <2>1. conf' = [conf EXCEPT ![i] = NewHandler] /\ pending' = <<>>
      BY DEF LoadProxyPanics, Drop
    <2>2. conf' \in [Handlers -> {NewHandler} \cup {Settings(f) : f \in Files}]
      BY <2>1 DEF IInv, AllConfigured
    <2>3. \A j \in Handlers : Configured(conf'[j])
      BY <2>1, NewHandlerConfigured DEF IInv, AllConfigured
    <2> QED
      BY <2>1, <2>2, <2>3, PendingConfigured DEF AllConfigured
  <1> QED
    BY <1>2, <1>3, <1>4, <1>5, <1>6 DEF IInv

LEMMA AcquireStoreKeeps == \A i \in Handlers : IInv /\ AcquireStore(i) => IInv'
  <1> SUFFICES ASSUME NEW i \in Handlers, IInv, AcquireStore(i)
               PROVE  IInv'
    OBVIOUS
  <1>1. stage[i] = "proxied" /\ store[i] = NoStore /\ i \in loading
    BY DEF IInv, Provisioned, Placed, AcquireStore
  <1>2. Placed'
    BY <1>1 DEF IInv, Placed, TypeOK, AcquireStore, loads
  <1>3. AllConfigured'
    BY DEF IInv, AllConfigured, AcquireStore, loads
  <1>4. CASE DsnsOf(conf[i]) = {}
    <2>1. TypeOK'
      BY <1>4 DEF IInv, TypeOK, Stages, AcquireStore, loads
    <2>2. UsersCounted'
      BY <1>4, CountsKept DEF IInv, AcquireStore
    <2>3. Provisioned' /\ Refused'
      <3>1. /\ UNCHANGED <<store, pool, conf, cancelled, loop>>
            /\ stage' = [stage EXCEPT ![i] = "stored"]
        BY <1>4 DEF AcquireStore
      <3>2. Refused'
        BY <3>1 DEF IInv, Refused
      <3>3. Provisioned'
        BY <1>1, <1>4, <3>1 DEF IInv, Provisioned, TypeOK
      <3> QED
        BY <3>2, <3>3
    <2> QED
      BY <1>2, <1>3, <2>1, <2>2, <2>3 DEF IInv
  <1>5. CASE DsnsOf(conf[i]) # {}
    <2>1. PICK d \in DsnsOf(conf[i]) : LoadOrNew(i, d)
      BY <1>5 DEF AcquireStore
    <2>2. DsnsOf(conf[i]) = {d} /\ d \in Dsns /\ FactoryAccepts(d)
      BY DEF IInv, AllConfigured, Configured, AcquireStore
    <2>3. /\ store' \in [Handlers -> Stores \cup {NoStore}]
          /\ store'[i] # NoStore /\ \A j \in Handlers \ {i} : store'[j] = store[j]
          /\ pool' \in [Dsns -> [store : Stores \cup {NoStore}, refs : Nat]]
          /\ \A e \in Dsns \ {d} : pool'[e] = pool[e]
      <3>1. pool \in [Dsns -> [store : Stores \cup {NoStore}, refs : Nat]]
        BY DEF IInv, TypeOK
      <3>2. CASE pool[d].refs > 0
        <4>1. pool' = [pool EXCEPT ![d].refs = @ + 1] /\ store' = [store EXCEPT ![i] = pool[d].store]
          BY <2>1, <3>2 DEF LoadOrNew
        <4>2. pool[d].store \in Stores
          BY <2>2, <3>1, <3>2 DEF IInv, UsersCounted
        <4>3. [pool[d] EXCEPT !.refs = @ + 1] \in [store : Stores \cup {NoStore}, refs : Nat]
          BY <2>2, <3>1
        <4> QED
          BY <2>2, <3>1, <4>1, <4>2, <4>3, DistinctAssumption DEF IInv, TypeOK
      <3>3. CASE ~(pool[d].refs > 0)
        <4>1. PICK s \in Stores : /\ store' = [store EXCEPT ![i] = s]
                                  /\ pool' = [pool EXCEPT ![d] = [store |-> s, refs |-> 1]]
          BY <2>1, <3>3 DEF LoadOrNew
        <4>2. [store |-> s, refs |-> 1] \in [store : Stores \cup {NoStore}, refs : Nat]
          OBVIOUS
        <4>3. s # NoStore
          BY DistinctAssumption
        <4>4. store \in [Handlers -> Stores \cup {NoStore}]
          BY DEF IInv, TypeOK
        <4> QED
          BY <2>2, <3>1, <4>1, <4>2, <4>3, <4>4
      <3> QED
        BY <3>2, <3>3
    <2>4. TypeOK'
      BY <2>3 DEF IInv, TypeOK, Stages, AcquireStore, loads
    <2>5. UsersCounted'
      BY <1>1, <2>1, <2>2, TakeCounted DEF IInv, AcquireStore
    <2>6. Provisioned'
      BY <2>3 DEF IInv, Provisioned, TypeOK, AcquireStore
    <2>7. Refused'
      BY <2>2, <2>3 DEF IInv, Refused
    <2> QED
      BY <1>2, <1>3, <2>4, <2>5, <2>6, <2>7 DEF IInv
  <1> QED
    BY <1>4, <1>5

LEMMA SwapKeeps == IInv /\ Swap => IInv'
  <1> SUFFICES ASSUME IInv, Swap
               PROVE  IInv'
    OBVIOUS
  <1>1. UsersCounted'
    BY CountsKept DEF IInv, Swap
  <1>2. Placed'
    BY DEF IInv, Placed, Swap
  <1> QED
    BY <1>1, <1>2 DEF IInv, TypeOK, Provisioned, Refused, AllConfigured, Configured, Swap

LEMMA LoadFailsKeeps == IInv /\ LoadFails => IInv'
  <1> SUFFICES ASSUME IInv, LoadFails
               PROVE  IInv'
    OBVIOUS
  <1>1. UsersCounted'
    BY CountsKept DEF IInv, LoadFails
  <1>2. Placed'
    BY DEF IInv, Placed, LoadFails
  <1>3. AllConfigured'
    BY PendingConfigured DEF IInv, AllConfigured, LoadFails
  <1> QED
    BY <1>1, <1>2, <1>3 DEF IInv, TypeOK, Provisioned, Refused, LoadFails

LEMMA CleanupKeeps == \A i \in Handlers : IInv /\ Cleanup(i) => IInv'
  <1> SUFFICES ASSUME NEW i \in Handlers, IInv, Cleanup(i)
               PROVE  IInv'
    OBVIOUS
  <1>1. stage[i] = "ready" /\ i \in doomed /\ CleanUp(i)
    BY DEF IInv, Placed, Cleanup
  <1>2. \A d \in DsnsOf(conf[i]) : store[i] # NoStore
    BY <1>1 DEF IInv, Provisioned
  <1>3. TypeOK' /\ UsersCounted' /\ Provisioned' /\ Refused' /\ AllConfigured'
    BY <1>1, <1>2, CleanUpKeeps DEF IInv, TypeOK, Cleanup
  <1>4. Placed'
    BY <1>1 DEF IInv, Placed, TypeOK, Cleanup, CleanUp, Drop
  <1> QED
    BY <1>3, <1>4 DEF IInv

\* Where nothing has begun.
LEMMA FreshCounted ==
    ASSUME store = [i \in Handlers |-> NoStore], pool = [d \in Dsns |-> Unpooled]
    PROVE  UsersCounted
  <1>1. \A d \in Dsns : Users(d) = {}
    BY DEF Users
  <1> QED
    BY <1>1, FS_EmptySet DEF UsersCounted, Unpooled

LEMMA InitHolds == Init => IInv
  <1> SUFFICES ASSUME Init
               PROVE  IInv
    OBVIOUS
  <1>1. TypeOK
    BY DEF Init, TypeOK, Stages, Unpooled
  <1>2. UsersCounted
    BY FreshCounted DEF Init
  <1>3. Placed /\ Provisioned /\ Refused
    BY DEF Init, Placed, Provisioned, Refused, Unpooled
  <1>4. AllConfigured
    BY NewHandlerConfigured DEF Init, AllConfigured
  <1> QED
    BY <1>1, <1>2, <1>3, <1>4 DEF IInv

LEMMA RestartKeeps == IInv /\ Restart => IInv'
  <1> SUFFICES ASSUME Restart
               PROVE  IInv'
    OBVIOUS
  <1>1. TypeOK'
    BY DEF Restart, TypeOK, Stages, Unpooled
  <1>2. \A d \in Dsns : Users(d)' = {}
    BY DEF Restart, Users
  <1>3. UsersCounted'
    BY <1>2, FS_EmptySet DEF Restart, UsersCounted, Unpooled
  <1>4. Placed' /\ Provisioned' /\ Refused'
    BY DEF Restart, Placed, Provisioned, Refused, Unpooled
  <1>5. AllConfigured'
    BY NewHandlerConfigured DEF Restart, AllConfigured, Configured, DsnsOf
  <1> QED
    BY <1>1, <1>3, <1>4, <1>5 DEF IInv

LEMMA StepKeeps == IInv /\ [Next]_vars => IInv'
  <1> SUFFICES ASSUME IInv, [Next]_vars
               PROVE  IInv'
    OBVIOUS
  <1>1. CASE \E config \in Configs : Load(config)
    BY <1>1, LoadKeeps
  <1>2. CASE \E i \in Handlers : New(i) \/ ProvisionStep(i) \/ Cleanup(i)
    <2>1. PICK i \in Handlers : New(i) \/ ProvisionStep(i) \/ Cleanup(i)
      BY <1>2
    <2> QED
      BY <2>1, NewKeeps, LoadProxyKeeps, LoadProxyPanicsKeeps, AcquireStoreKeeps, FetchSchemaKeeps,
         ValidateKeeps, ProvisionFailsKeep, CleanupKeeps DEF ProvisionStep
  <1>3. CASE \E i \in Handlers : LoopStep(i)
    BY <1>3, TickKeeps, FetchDoneKeeps, LoopEndsKeeps, RestartKeeps DEF LoopStep, TickerPanics
  <1>4. CASE Swap \/ LoadFails
    BY <1>4, SwapKeeps, LoadFailsKeeps
  <1>5. CASE Restart
    BY <1>5, RestartKeeps
  <1>6. CASE UNCHANGED vars
    <2>1. UsersCounted'
      BY <1>6, CountsKept DEF IInv, vars
    <2>2. TypeOK'
      BY <1>6 DEF IInv, TypeOK, vars
    <2>3. Placed'
      BY <1>6 DEF IInv, Placed, vars
    <2>4. Provisioned' /\ Refused'
      BY <1>6 DEF IInv, Provisioned, Refused, vars
    <2>5. AllConfigured'
      BY <1>6, PendingConfigured DEF IInv, AllConfigured, vars
    <2> QED
      BY <2>1, <2>2, <2>3, <2>4, <2>5 DEF IInv
  <1> QED
    BY <1>1, <1>2, <1>3, <1>4, <1>5, <1>6 DEF Next

-----------------------------------------------------------------------------
\* The invariant of the lifecycle, from which the others follow.
THEOREM InvariantHolds == Spec => []IInv
  BY InitHolds, StepKeeps, PTL DEF Spec

\* Every variable of the lifecycle stays in its type.
THEOREM TypeCorrect == Spec => []TypeOK
  <1>1. IInv => TypeOK
    BY DEF IInv
  <1> QED
    BY <1>1, InvariantHolds, PTL

\* Every count of the pool of stores is the number of handlers that use the
\* store, whatever fails on the way.
THEOREM StoresCounted == Spec => []UsersCounted
  <1>1. IInv => UsersCounted
    BY DEF IInv
  <1> QED
    BY <1>1, InvariantHolds, PTL

\* A handler in service has what it was provisioned with, whatever happens to
\* the loads after its own.
THEOREM ServiceIntact == Spec => []ServingIntact
  <1>1. IInv => ServingIntact
    <2> SUFFICES ASSUME IInv, NEW i \in serving
                 PROVE  /\ stage[i] = "ready" /\ ~cancelled[i] /\ Valid(conf[i])
                        /\ conf[i].caching # {} => store[i] \in Open
                        /\ conf[i].fetch_schema_interval # 0 => loop[i] # "none"
      BY DEF ServingIntact
    <2>1. i \in Handlers /\ stage[i] = "ready"
      BY DEF IInv, Placed, TypeOK
    <2>2. ~cancelled[i] /\ Valid(conf[i]) /\ (conf[i].fetch_schema_interval # 0 => loop[i] # "none")
      BY <2>1 DEF IInv, Provisioned
    <2>3. ASSUME conf[i].caching # {}
          PROVE  store[i] \in Open
      <3>1. PICK d : d \in DsnsOf(conf[i])
        BY <2>3 DEF DsnsOf
      <3>2. d \in Dsns /\ store[i] # NoStore
        BY <2>1, <3>1 DEF IInv, AllConfigured, Configured, Provisioned
      <3>3. store[i] = pool[d].store
        BY <2>1, <3>1, <3>2 DEF IInv, UsersCounted, Users
      <3> QED
        BY <3>2, <3>3 DEF Open
    <2> QED
      BY <2>1, <2>2, <2>3
  <1> QED
    BY <1>1, InvariantHolds, PTL

-----------------------------------------------------------------------------
LEMMA FiledAtFirst == Init => Filed
  BY DEF Init, Filed

\* A handler is made with what its block in the load says, and keeps it.
LEMMA FiledKept == IInv /\ Filed /\ [Next]_vars => Filed'
  <1> SUFFICES ASSUME IInv, Filed, [Next]_vars
               PROVE  Filed'
    OBVIOUS
  <1> USE DEF loads
  <1>1. stage \in [Handlers -> Stages] /\ file \in [Handlers -> Files \cup {NoFile}] /\ DOMAIN conf = Handlers
    BY DEF IInv, TypeOK, AllConfigured
  <1>2. ASSUME NEW config \in Configs, Load(config)
        PROVE  Filed'
    <2>1. \A k \in DOMAIN config : config[k] \in Files /\ Accepted(config[k])
      <3>1. config \in Seq(Files)
        BY ConfigsAssumption
      <3> QED
        BY <1>2, <3>1 DEF Load, ToSet
    <2>2. pending' = [k \in DOMAIN config |-> [file |-> config[k], conf |-> Settings(config[k])]]
      BY <1>2 DEF Load
    <2>3. UNCHANGED <<stage, file, conf>>
      BY <1>2 DEF Load
    <2> QED
      BY <2>1, <2>2, <2>3 DEF Filed
  <1>3. ASSUME NEW i \in Handlers, New(i)
        PROVE  Filed'
    <2> DEFINE Made == [file : Files, conf : {Settings(f) : f \in Files}]
    <2>1. pending \in Seq(Made) /\ pending # <<>>
      BY <1>3 DEF IInv, AllConfigured, New
    <2> HIDE DEF Made
    <2>2. Head(pending) = pending[1] /\ 1 \in DOMAIN pending
      BY <2>1
    <2>3. \A k \in DOMAIN Tail(pending) : k + 1 \in DOMAIN pending /\ Tail(pending)[k] = pending[k + 1]
      BY <2>1
    <2>4. /\ pending' = Tail(pending) /\ stage' = [stage EXCEPT ![i] = "new"]
          /\ file' = [file EXCEPT ![i] = Head(pending).file]
          /\ conf' = [conf EXCEPT ![i] = Head(pending).conf]
      BY <1>3 DEF New
    <2> QED
      BY <1>1, <2>2, <2>3, <2>4 DEF Filed
  <1>4. ASSUME NEW i \in Handlers, LoadProxy(i) \/ AcquireStore(i) \/ FetchSchema(i) \/ Validate(i)
        PROVE  Filed'
    <2>1. stage[i] # "gone" /\ UNCHANGED <<pending, file, conf>> /\ \A j \in Handlers \ {i} : stage'[j] = stage[j]
      BY <1>1, <1>4 DEF LoadProxy, AcquireStore, FetchSchema, Validate
    <2> QED
      BY <2>1 DEF Filed
  <1>5. ASSUME NEW i \in Handlers, Drop(i), pending' = pending \/ pending' = <<>>,
               \A j \in Handlers : IF j = i THEN stage'[j] = "gone" ELSE stage[j] = "gone" => stage'[j] = "gone"
        PROVE  Filed'
    <2>1. file' = [file EXCEPT ![i] = NoFile] /\ conf' = [conf EXCEPT ![i] = NewHandler]
      BY <1>5 DEF Drop
    <2> QED
      BY <1>1, <1>5, <2>1 DEF Filed
  <1>6. ASSUME NEW i \in Handlers,
               LoadProxyFails(i) \/ LoadProxyPanics(i) \/ AcquireFails(i) \/ FetchFails(i)
                   \/ ValidateFails(i) \/ Cleanup(i)
        PROVE  Filed'
    <2>1. CASE LoadProxyPanics(i)
      <3>1. Drop(i) /\ pending' = <<>>
        BY <2>1 DEF LoadProxyPanics
      <3>2. \A j \in Handlers : IF j = i THEN stage'[j] = "gone" ELSE stage[j] = "gone" => stage'[j] = "gone"
        BY <2>1 DEF LoadProxyPanics, IInv, Placed
      <3> QED
        BY <1>5, <3>1, <3>2
    <2>2. CASE CleanUp(i) /\ (pending' = pending \/ pending' = <<>>)
      <3>1. \A j \in Handlers : IF j = i THEN stage'[j] = "gone" ELSE stage[j] = "gone" => stage'[j] = "gone"
        BY <1>1, <2>2 DEF CleanUp
      <3> QED
        BY <1>5, <2>2, <3>1 DEF CleanUp
    <2>3. ~LoadProxyPanics(i) => CleanUp(i) /\ (pending' = pending \/ pending' = <<>>)
      BY <1>6 DEF LoadProxyFails, AcquireFails, FetchFails, ValidateFails, Cleanup, Fails, Abort
    <2> QED
      BY <2>1, <2>2, <2>3
  <1>7. ASSUME UNCHANGED <<pending, stage, file, conf>>
        PROVE  Filed'
    BY <1>7 DEF Filed
  <1>8. ASSUME NEW i \in Handlers, LoopStep(i)
        PROVE  Restart \/ UNCHANGED <<pending, stage, file, conf>>
    BY <1>8 DEF LoopStep, TickerPanics, Tick, FetchDone, LoopEnds
  <1>9. Swap \/ UNCHANGED vars => UNCHANGED <<pending, stage, file, conf>>
    BY DEF Swap, vars
  <1>10. LoadFails \/ Restart => Filed'
    BY DEF LoadFails, Restart, Filed
  <1> QED
    BY <1>2, <1>3, <1>4, <1>6, <1>7, <1>8, <1>9, <1>10 DEF Next, ProvisionStep

\* A handler in service runs what its block says, read as a whole: the last
\* word on each matter, and the one caching and the one complexity block that
\* are enabled.  This is what UnmarshalCaddyfile and the parsers that it calls
\* make of any block that they accept, with the defaults of Provision, and no
\* load, failure or clean-up gives a handler the settings of another block.
THEOREM FilesObeyed == Spec => []RunsAsWritten
  <1>1. IInv /\ Filed => RunsAsWritten
    <2> SUFFICES ASSUME IInv, Filed, NEW i \in serving
                 PROVE  HandlerSays(Content[file[i]], conf[i])
      BY DEF RunsAsWritten
    <2>1. i \in Handlers /\ stage[i] = "ready"
      BY DEF IInv, Placed, TypeOK
    <2>2. file[i] \in Files /\ Accepted(file[i]) /\ conf[i] = Settings(file[i])
      BY <2>1 DEF Filed
    <2> QED
      BY <2>2, SettingsSay
  <1>2. Spec => []Filed
    BY FiledAtFirst, FiledKept, InvariantHolds, PTL DEF Spec
  <1> QED
    BY <1>1, <1>2, InvariantHolds, PTL
=============================================================================
