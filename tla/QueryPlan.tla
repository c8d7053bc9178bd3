------------------------------ MODULE QueryPlan ------------------------------
(***************************************************************************)
(* The caching planner: caching_plan.go, with the rules, varies and their  *)
(* checksums (caching_rule.go, caching_vary.go).                           *)
(*                                                                         *)
(* Plans are kept in the store under the hash of the query and are shared  *)
(* by concurrent requests and, while a configuration is being reloaded, by *)
(* instances with different rules.  A plan is computed by visiting the     *)
(* rules of a Go map, that is in an order that differs from one request to *)
(* the next.  The program counter of a process is the planner's stage:     *)
(*                                                                         *)
(*   "get" -> "compute" -> "save" -> "key" -> "planned"                    *)
(*                                                                         *)
(* or "unsaved" when the plan cannot be saved and "unkeyed" when no result *)
(* key can be calculated, both errors that end the request.                *)
(***************************************************************************)
EXTENDS Integers, FiniteSets, SequencesExt

CONSTANTS
    Procs,        \* requests
    Queries,      \* plan cache keys: normalized queries of a schema
    Configs,      \* instances of the handler, by configuration
    Headers, Cookies, \* names a vary may list
    Values,       \* what a request may send for one of them, as sequences of tokens
    Missing,      \* it sends nothing
    FieldTypes,   \* FieldTypes[q]: the fields q selects, by type
    Rules,        \* Rules[c]: the rules of c, by name
    Varies,       \* Varies[c]: the header and cookie names of each vary of c
    AllTypes,     \* the types of a rule that does not list any
    StoreFaults,  \* may the store's operations fail?
    NoPlan, NoKey

Inputs == Headers \cup Cookies

\* A rule lists fields by type, or covers all types.
RuleOK(rule) ==
    /\ rule.types # AllTypes => IsFiniteSet(DOMAIN rule.types)
    /\ rule.maxAge \in Nat \ {0} /\ rule.swr \in Nat

\* What Validate() of caching.go checks: an instance serves only then.
ASSUME ValidConfigs ==
    \A c \in Configs : \A r \in DOMAIN Rules[c] :
        /\ RuleOK(Rules[c][r])
        /\ Rules[c][r].varies \in Seq(DOMAIN Varies[c])

ASSUME SomeAssumption == Queries # {} /\ Configs # {}

\* A vary lists names of headers and cookies (caching_vary.go).
ASSUME VaryLists ==
    \A c \in Configs : \A name \in DOMAIN Varies[c] : Varies[c][name] \in Seq(Inputs)

\* The text that calcQueryResultCacheKey puts around names and values.
HeaderHead == "header:"
CookieHead == "cookie:"
Equals     == "="
Semicolon  == ";"

Heads == {HeaderHead, CookieHead}
Marks == Heads \cup {Equals, Semicolon}

\* The tokens that values are written in; the marks may be among them.
Tokens == UNION {ToSet(v) : v \in Values}

ASSUME ValueAssumption == Values \subseteq Seq(Tokens)

\* Nothing sent is no value, and no name is a mark.
ASSUME DistinctAssumption ==
    /\ Headers \cap Cookies = {}
    /\ Inputs \cap Marks = {}
    /\ Missing \notin Values

\* The checksums of a configuration's rules and varies; no two collide.
RulesHash(c)  == Rules[c]
VariesHash(c) == Varies[c]

VARIABLES
    plans,            \* the store's plans, by query
    pc, query, config, sent,  \* each request, the instance it came to, its headers
    left, plan,       \* the rules still to visit and the plan made so far
    resultKey         \* the key of the query's result

request == <<query, config, sent>>
vars == <<plans, pc, request, left, plan, resultKey>>

Stages == {"idle", "get", "compute", "save", "key", "planned", "unsaved", "unkeyed"}

VaryNames == UNION {DOMAIN Varies[c] : c \in Configs}

ListedTypes(c) ==
    UNION {DOMAIN Rules[c][r].types : r \in {x \in DOMAIN Rules[c] : Rules[c][x].types # AllTypes}}

TypeNames ==
    (UNION {DOMAIN FieldTypes[q] : q \in Queries}) \cup UNION {ListedTypes(c) : c \in Configs}

\* AllTypes is no set of types.
ASSUME AllTypesAssumption == \A types \in SUBSET TypeNames : types # AllTypes

Plan == [ maxAge      : Nat,
          swr         : Nat,
          varyNames   : Seq(VaryNames),
          types       : (SUBSET TypeNames) \cup {AllTypes},
          passthrough : BOOLEAN,
          rulesHash   : {RulesHash(c) : c \in Configs},
          variesHash  : {VariesHash(c) : c \in Configs} ]

\* What net/http lets a request send: a ";" separates cookies, and so is in none.
Sendable ==
    {values \in [Inputs -> Values \cup {Missing}] :
        \A i \in Cookies : values[i] # Missing => Semicolon \notin ToSet(values[i])}

\* The type invariant; it says too that a request which calculates a result key
\* or saves a plan has a plan (getPlan).
TypeOK ==
    /\ plans \in [Queries -> Plan \cup {NoPlan}]
    /\ pc \in [Procs -> Stages]
    /\ query \in [Procs -> Queries]
    /\ config \in [Procs -> Configs]
    /\ sent \in [Procs -> Sendable]
    /\ plan \in [Procs -> Plan \cup {NoPlan}]
    /\ \A p \in Procs :
          /\ left[p] \subseteq DOMAIN Rules[config[p]]
          /\ pc[p] \in {"compute", "save", "key", "planned"} => plan[p] \in Plan

Idle == [i \in Inputs |-> Missing]

Init ==
    /\ plans = [q \in Queries |-> NoPlan]
    /\ pc = [p \in Procs |-> "idle"]
    /\ query \in [Procs -> {CHOOSE q \in Queries : TRUE}]
    /\ config \in [Procs -> {CHOOSE c \in Configs : TRUE}]
    /\ sent = [p \in Procs |-> Idle]
    /\ left = [p \in Procs |-> {}]
    /\ plan = [p \in Procs |-> NoPlan]
    /\ resultKey = [p \in Procs |-> NoKey]

Goto(p, stage) == pc' = [pc EXCEPT ![p] = stage]

-----------------------------------------------------------------------------
\* matchRule: the query selects every field that the rule lists for some type.
Matches(rule, fieldTypes) ==
    \/ rule.types = AllTypes
    \/ \E t \in DOMAIN rule.types \cap DOMAIN fieldTypes :
          rule.types[t] \subseteq fieldTypes[t]

\* The plan before any rule matched.
FreshPlan(c) ==
    [ maxAge |-> 0, swr |-> 0, varyNames |-> <<>>, types |-> {}, passthrough |-> TRUE,
      rulesHash |-> RulesHash(c), variesHash |-> VariesHash(c) ]

\* Mutant: a rule without swr switches swr off.
TakeSmallest(pl, rule) ==
    [ pl EXCEPT
        !.maxAge = IF @ = 0 \/ @ > rule.maxAge THEN rule.maxAge ELSE @,
        !.swr = IF @ = 0 \/ @ > rule.swr THEN rule.swr ELSE @,
        !.varyNames = @ \o rule.varies,
        !.types = IF rule.types = AllTypes \/ @ = AllTypes THEN AllTypes
                  ELSE @ \cup DOMAIN rule.types,
        !.passthrough = FALSE ]

\* The body of computePlan's loop for a rule that matches.  Once a rule covers
\* all types the plan's types are nil, and stay so.
Merge(pl, rule) ==
    [ pl EXCEPT
        !.maxAge = IF @ = 0 \/ @ > rule.maxAge THEN rule.maxAge ELSE @,
        !.swr = IF @ = 0 \/ (@ > rule.swr /\ rule.swr > 0) THEN rule.swr ELSE @,
        !.varyNames = @ \o rule.varies,
        !.types = IF rule.types = AllTypes \/ @ = AllTypes THEN AllTypes
                  ELSE @ \cup DOMAIN rule.types,
        !.passthrough = FALSE ]

\* What is read of an input.  A missing header reads as empty, a missing cookie
\* is told from an empty one.
Read(input, value) ==
    IF input \in Headers /\ value = Missing THEN <<>> ELSE value

\* Mutant: values are hashed without the names they belong to.
PartUnnamed(input, value) ==
    (IF value = Missing THEN <<>> ELSE value) \o <<Semicolon>>

\* What is hashed of one header or cookie: text in which nothing is escaped.
\* The code prints the cookie it found, name and value, and then the value; of a
\* missing cookie it prints neither.
Part(input, value) ==
    IF input \in Headers
    THEN <<HeaderHead, input, Equals>> \o Read(input, value) \o <<Semicolon>>
    ELSE IF value = Missing THEN <<CookieHead, Equals, Semicolon>>
    ELSE <<CookieHead, input, Equals>> \o value \o <<Equals>> \o value \o <<Semicolon>>

\* The parts of every vary, in the order of the plan's vary names.
Parts(names, varies, values) ==
    LET of(name) == [i \in DOMAIN varies[name] |->
                        Part(varies[name][i], values[varies[name][i]])]
    IN  FlattenSeq([i \in DOMAIN names |-> of(names[i])])

\* calcQueryResultCacheKey: the hash of the query and of the parts, written one
\* after the other; no two texts collide.
ResultKey(q, names, varies, values) ==
    <<q, FlattenSeq(Parts(names, varies, values))>>

-----------------------------------------------------------------------------
\* A request comes to one of the instances.
Arrive(p, q, c, values) ==
    /\ pc[p] = "idle"
    /\ Goto(p, "get")
    /\ query' = [query EXCEPT ![p] = q]
    /\ config' = [config EXCEPT ![p] = c]
    /\ sent' = [sent EXCEPT ![p] = values]
    /\ UNCHANGED <<plans, left, plan, resultKey>>

\* Mutant: the checksums are not compared.
FoundAny(pl, c) == pl # NoPlan

\* The checksums of a stored plan are those of the instance.
Current(pl, c) ==
    /\ pl # NoPlan
    /\ pl.rulesHash = RulesHash(c)
    /\ pl.variesHash = VariesHash(c)

\* Mutant: the error of the store's Get is not looked at.
GetCachedUnchecked(p) ==
    /\ pc[p] = "get"
    /\ plan' = [plan EXCEPT ![p] = plans[query[p]]]
    /\ Goto(p, "key")
    /\ UNCHANGED <<plans, request, left, resultKey>>

\* getCached finds a plan of the instance's rules and varies ...
GetCached(p) ==
    /\ pc[p] = "get"
    /\ Current(plans[query[p]], config[p])
    /\ plan' = [plan EXCEPT ![p] = plans[query[p]]]
    /\ Goto(p, "key")
    /\ UNCHANGED <<plans, request, left, resultKey>>

\* ... or none, or fails, and computePlan starts.
Compute(p) ==
    /\ pc[p] = "get"
    /\ StoreFaults \/ ~Current(plans[query[p]], config[p])
    /\ plan' = [plan EXCEPT ![p] = FreshPlan(config[p])]
    /\ left' = [left EXCEPT ![p] = DOMAIN Rules[config[p]]]
    /\ Goto(p, "compute")
    /\ UNCHANGED <<plans, request, resultKey>>

\* One turn of its loop, on any of the rules left.
VisitRule(p) ==
    /\ pc[p] = "compute"
    /\ \E r \in left[p] :
          LET rule == Rules[config[p]][r] IN
          /\ left' = [left EXCEPT ![p] = @ \ {r}]
          /\ plan' = IF Matches(rule, FieldTypes[query[p]])
                     THEN [plan EXCEPT ![p] = Merge(@, rule)] ELSE plan
    /\ UNCHANGED <<plans, pc, request, resultKey>>

RulesDone(p) ==
    /\ pc[p] = "compute"
    /\ left[p] = {}
    /\ Goto(p, "save")
    /\ UNCHANGED <<plans, request, left, plan, resultKey>>

SavePlan(p) ==
    /\ pc[p] = "save"
    /\ plans' = [plans EXCEPT ![query[p]] = plan[p]]
    /\ Goto(p, "key")
    /\ UNCHANGED <<request, left, plan, resultKey>>

\* A plan that cannot be saved fails the query.
SaveFails(p) ==
    /\ pc[p] = "save"
    /\ StoreFaults
    /\ Goto(p, "unsaved")
    /\ UNCHANGED <<plans, request, left, plan, resultKey>>

\* The deferred key calculation fails on a vary that the instance lacks.
CalcKey(p) ==
    /\ pc[p] = "key"
    /\ LET names == plan[p].varyNames
           known == ToSet(names) \subseteq DOMAIN Varies[config[p]]
       IN  /\ Goto(p, IF known THEN "planned" ELSE "unkeyed")
           /\ resultKey' = [resultKey EXCEPT ![p] =
                IF known THEN ResultKey(query[p], names, Varies[config[p]], sent[p])
                ELSE NoKey]
    /\ UNCHANGED <<plans, request, left, plan>>

\* The request has used its plan, or was answered with an error.
Leave(p) ==
    /\ pc[p] \in {"planned", "unsaved", "unkeyed"}
    /\ Goto(p, "idle")
    /\ query' = [query EXCEPT ![p] = CHOOSE q \in Queries : TRUE]
    /\ config' = [config EXCEPT ![p] = CHOOSE c \in Configs : TRUE]
    /\ sent' = [sent EXCEPT ![p] = Idle]
    /\ left' = [left EXCEPT ![p] = {}]
    /\ plan' = [plan EXCEPT ![p] = NoPlan]
    /\ resultKey' = [resultKey EXCEPT ![p] = NoKey]
    /\ UNCHANGED plans

\* The store drops a plan: it is full, or the query's schema is purged.
Drop(q) ==
    /\ plans[q] # NoPlan
    /\ plans' = [plans EXCEPT ![q] = NoPlan]
    /\ UNCHANGED <<pc, request, left, plan, resultKey>>

Step(p) ==
    \/ GetCached(p) \/ Compute(p) \/ VisitRule(p) \/ RulesDone(p)
    \/ SavePlan(p) \/ SaveFails(p) \/ CalcKey(p) \/ Leave(p)

Next ==
    \/ \E p \in Procs : Step(p)
    \/ \E p \in Procs, q \in Queries, c \in Configs,
          values \in Sendable : Arrive(p, q, c, values)
    \/ \E q \in Queries : Drop(q)

Spec == Init /\ [][Next]_vars

-----------------------------------------------------------------------------
(***************************************************************************)
(* What a plan should be, whatever the order of the rules.                 *)
(***************************************************************************)
Matching(q, c) ==
    {r \in DOMAIN Rules[c] : Matches(Rules[c][r], FieldTypes[q])}

\* The smallest element of a non-empty set of numbers.
Least(s) == CHOOSE x \in s : \A y \in s : x <= y

Follows(pl, q, c) ==
    LET rules == {Rules[c][r] : r \in Matching(q, c)}
        swrs  == {rule.swr : rule \in rules} \ {0}
    IN  /\ pl.passthrough = (rules = {})
        /\ pl.maxAge = IF rules = {} THEN 0 ELSE Least({rule.maxAge : rule \in rules})
        /\ pl.swr = IF swrs = {} THEN 0 ELSE Least(swrs)
        /\ pl.types = IF \E rule \in rules : rule.types = AllTypes THEN AllTypes
                      ELSE UNION {DOMAIN rule.types : rule \in rules}
        /\ ToSet(pl.varyNames) = UNION {ToSet(rule.varies) : rule \in rules}

\* Whether it computed the plan or found one in the store, written by any
\* request to any instance, a request uses a plan that says what its own
\* instance's rules say of the query, in whatever order computePlan met them.
PlanFollowsRules ==
    \A p \in Procs : pc[p] \in {"key", "planned"} => Follows(plan[p], query[p], config[p])

\* No query fails for a vary that its instance does not have: a plan found in
\* the store names none (getCached's checksums, the check in Validate).
NoUnknownVary ==
    \A p \in Procs : pc[p] # "unkeyed"

\* The headers and cookies that the query of process p varies on.
VariesOn(p) ==
    UNION { UNION { ToSet(Varies[config[p]][name]) : name \in ToSet(Rules[config[p]][r].varies) } :
               r \in Matching(query[p], config[p]) }

Separated(p, other) ==
    /\ query[p] = query[other]
    /\ \A i \in VariesOn(p) : Read(i, sent[p][i]) = Read(i, sent[other][i])

\* A text in which no part seems to end and another to begin.  "en;q=0.9" is one.
Uncut(text) ==
    \A k \in 1..(Len(text) - 1) : ~(text[k] = Semicolon /\ text[k + 1] \in Heads)

\* No header that the query of p varies on was sent with text of that kind.
NothingDisguised(p) ==
    \A i \in VariesOn(p) \cap Headers : Uncut(Read(i, sent[p][i]))

\* Two requests to instances of the same configuration that get the same result
\* key agree on the query and on everything that the matching rules vary on,
\* even when their plans list the varies in different orders, as long as no
\* header that counts has ";header:" or ";cookie:" in its value.  With such a
\* header the key of other headers can be written: caching_plan.go:251,266
\* escapes nothing, so a vary on A and B has one key for
\* A = "1;header:B=2", B = "3" and for A = "1", B = "2;header:B=3".
VariesSeparate ==
    \A p, other \in Procs :
        /\ pc[p] = "planned" /\ pc[other] = "planned" /\ config[p] = config[other]
        /\ resultKey[p] = resultKey[other]
        /\ NothingDisguised(p) /\ NothingDisguised(other)
        => Separated(p, other)
=============================================================================
