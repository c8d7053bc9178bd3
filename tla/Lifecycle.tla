------------------------------ MODULE Lifecycle ------------------------------
(***************************************************************************)
(* The life of gbox handlers in a Caddy process: New, Provision, Validate  *)
(* and Cleanup (handler.go, caching.go), the interval loops they start     *)
(* (schema_fetcher.go) and the reference-counted stores they share         *)
(* (cachingStores, a caddy.UsagePool).                                     *)
(*                                                                         *)
(* Caddy loads one configuration at a time, each with some handlers.  It   *)
(* provisions and validates them in turn; when one fails, it cleans up it  *)
(* and those before it; when all are ready, they replace the handlers in   *)
(* service, which it cleans up after that.                                 *)
(***************************************************************************)
EXTENDS Caddyfile

CONSTANTS
    Files,       \* gbox blocks
    Content,     \* Content[f]: the directives of a block
    Configs,     \* configurations: sequences of gbox blocks
    Handlers,    \* slots for handlers
    Stores,      \* identities for stores
    NoFile,
    NoStore

Accepted(f) == ~parseCaddyfile(Content[f]).err
Settings(f) == Defaulted(parseCaddyfile(Content[f]))

\* The DSN of a handler's store, if it has one.
DsnsOf(h) == {c.store_dsn : c \in h.caching}
Dsns == DOMAIN Dsn

ASSUME DistinctAssumption == NoStore \notin Stores /\ NoFile \notin Files
ASSUME ConfigsAssumption == \A config \in Configs : config \in Seq(Files)
ASSUME HandlersAssumption == IsFiniteSet(Handlers)
ASSUME ContentAssumption == \A f \in Files : Content[f] \in Seq(Lines)

VARIABLES
    pending,    \* the load under way: blocks, and their settings, to make handlers of
    loading,    \* its handlers so far
    serving,    \* the handlers in service
    doomed,     \* handlers that Caddy is about to clean up
    stage,      \* how far each handler has come
    file,       \* the block of each handler ...
    conf,       \* ... and the settings that it makes
    store,      \* the store that each handler got
    cancelled,  \* is its background context cancelled?
    loop,       \* its interval loop
    pool        \* cachingStores, by DSN: a store and the count of its users

vars == <<pending, loading, serving, doomed, stage, file, conf, store, cancelled, loop, pool>>
loads == <<pending, loading, serving, doomed>>

\* "abandoned": ready, but left behind by a load that panicked.
Stages == {"gone", "new", "proxied", "stored", "fetched", "ready", "abandoned"}
Unpooled == [store |-> NoStore, refs |-> 0]
Open == {pool[d].store : d \in Dsns} \ {NoStore}

Init ==
    /\ pending = <<>> /\ loading = {} /\ serving = {} /\ doomed = {}
    /\ stage = [i \in Handlers |-> "gone"]
    /\ file = [i \in Handlers |-> NoFile]
    /\ conf = [i \in Handlers |-> NewHandler]
    /\ store = [i \in Handlers |-> NoStore]
    /\ cancelled = [i \in Handlers |-> TRUE]
    /\ loop = [i \in Handlers |-> "none"]
    /\ pool = [d \in Dsns |-> Unpooled]

-----------------------------------------------------------------------------
\* caddy.UsagePool.  Deleting what is not in the pool does nothing.
LoadOrNew(i, d) ==
    IF pool[d].refs > 0
    THEN /\ store' = [store EXCEPT ![i] = pool[d].store]
         /\ pool' = [pool EXCEPT ![d].refs = @ + 1]
    ELSE \E s \in Stores \ Open :
            /\ store' = [store EXCEPT ![i] = s]
            /\ pool' = [pool EXCEPT ![d] = [store |-> s, refs |-> 1]]

\* Mutant: what was never counted is released all the same.
ReleasedAnyway(d) ==
    IF pool[d].refs = 1 THEN Unpooled ELSE [pool[d] EXCEPT !.refs = @ - 1]

Released(d) ==
    CASE pool[d].refs = 0 -> pool[d]
      [] pool[d].refs = 1 -> Unpooled
      [] OTHER -> [pool[d] EXCEPT !.refs = @ - 1]

Delete(ds) == pool' = [d \in Dsns |-> IF d \in ds THEN Released(d) ELSE pool[d]]

\* Nothing but its loop, if that still runs, refers to a handler any more.
Drop(i) ==
    /\ cancelled' = [cancelled EXCEPT ![i] = TRUE]
    /\ store' = [store EXCEPT ![i] = NoStore]
    /\ file' = [file EXCEPT ![i] = NoFile]
    /\ conf' = [conf EXCEPT ![i] = NewHandler]
    /\ UNCHANGED loop

\* Handler.Cleanup.
CleanUp(i) ==
    /\ Delete(DsnsOf(conf[i]))
    /\ Drop(i)
    /\ stage' = [stage EXCEPT ![i] = "gone"]

\* Mutant: a failed load takes the handlers in service with it.
AbortAll(i) ==
    /\ pending' = <<>> /\ loading' = {}
    /\ doomed' = (loading \cup serving) \ {i}
    /\ UNCHANGED serving

\* Mutant: the handlers that are ready wait for the one that failed.
AbortOne(i) == UNCHANGED loads

\* The load is given up: its other handlers are to be cleaned up.
Abort(i) ==
    /\ pending' = <<>> /\ loading' = {}
    /\ doomed' = loading \ {i}
    /\ UNCHANGED serving

Fails(i) == CleanUp(i) /\ Abort(i)

-----------------------------------------------------------------------------
Free == {i \in Handlers : stage[i] = "gone" /\ loop[i] = "none"}
NextSlot == CHOOSE i \in Free : TRUE

\* A load begins, when none is under way and the last one has been tidied up.
\* A configuration with a block that does not parse is refused by the adapter.
Load(config) ==
    /\ pending = <<>> /\ loading = {} /\ doomed = {}
    /\ \A f \in ToSet(config) : Accepted(f)
    /\ Cardinality(Free) >= Len(config)
    /\ pending' = [k \in DOMAIN config |-> [file |-> config[k], conf |-> Settings(config[k])]]
    /\ UNCHANGED <<loading, serving, doomed, stage, file, conf, store, cancelled, loop, pool>>

\* CaddyModule.New for the next block, once the handlers before it are ready.
New(i) ==
    /\ pending # <<>> /\ i \in Free /\ i = NextSlot
    /\ \A j \in loading : stage[j] = "ready"
    /\ pending' = Tail(pending)
    /\ loading' = loading \cup {i}
    /\ stage' = [stage EXCEPT ![i] = "new"]
    /\ file' = [file EXCEPT ![i] = Head(pending).file]
    /\ conf' = [conf EXCEPT ![i] = Head(pending).conf]
    /\ cancelled' = [cancelled EXCEPT ![i] = FALSE]
    /\ UNCHANGED <<serving, doomed, store, loop, pool>>

\* Provision, as far as the reverse proxy and the rewrite.
LoadProxy(i) ==
    /\ stage[i] = "new"
    /\ stage' = [stage EXCEPT ![i] = "proxied"]
    /\ UNCHANGED <<loads, file, conf, store, cancelled, loop, pool>>

\* If they cannot be loaded and there is no caching, Cleanup follows ...
LoadProxyFails(i) ==
    /\ stage[i] = "new" /\ conf[i].caching = {}
    /\ Fails(i)

\* ... with caching it panics, for Caching.Cleanup calls a cancel function that
\* Caching.Provision has not set.  Nothing else of the load is cleaned up, then
\* or later: the handlers that were ready keep their stores and their loops.
LoadProxyPanics(i) ==
    /\ stage[i] = "new" /\ conf[i].caching # {}
    /\ Drop(i)
    /\ stage' = [j \in Handlers |-> CASE j = i -> "gone"
                                     [] j \in loading \ {i} -> "abandoned"
                                     [] OTHER -> stage[j]]
    /\ pending' = <<>> /\ loading' = {}
    /\ UNCHANGED <<serving, doomed, pool>>

\* Mutant: a store that another handler opened is taken without being counted.
AcquireStoreUncounted(i) ==
    /\ stage[i] = "proxied"
    /\ \A d \in DsnsOf(conf[i]) : FactoryAccepts(d)
    /\ stage' = [stage EXCEPT ![i] = "stored"]
    /\ IF DsnsOf(conf[i]) = {} THEN UNCHANGED <<store, pool>>
       ELSE \E d \in DsnsOf(conf[i]) :
               IF pool[d].refs > 0
               THEN /\ store' = [store EXCEPT ![i] = pool[d].store]
                    /\ UNCHANGED pool
               ELSE LoadOrNew(i, d)
    /\ UNCHANGED <<loads, file, conf, cancelled, loop>>

\* Caching.Provision.
AcquireStore(i) ==
    /\ stage[i] = "proxied"
    /\ \A d \in DsnsOf(conf[i]) : FactoryAccepts(d)
    /\ stage' = [stage EXCEPT ![i] = "stored"]
    /\ IF DsnsOf(conf[i]) = {} THEN UNCHANGED <<store, pool>>
       ELSE \E d \in DsnsOf(conf[i]) : LoadOrNew(i, d)
    /\ UNCHANGED <<loads, file, conf, cancelled, loop>>

AcquireFails(i) ==
    /\ stage[i] = "proxied"
    /\ \E d \in DsnsOf(conf[i]) : ~FactoryAccepts(d)
    /\ Fails(i)

LoopFor(interval) ==
    CASE interval = 0 -> "none" [] interval > 0 -> "waiting" [] OTHER -> "panicking"

\* schemaFetcher.Provision: the first fetch, and the loop if there is an interval.
FetchSchema(i) ==
    /\ stage[i] = "stored"
    /\ stage' = [stage EXCEPT ![i] = "fetched"]
    /\ loop' = [loop EXCEPT ![i] = LoopFor(conf[i].fetch_schema_interval)]
    /\ UNCHANGED <<loads, file, conf, store, cancelled, pool>>

FetchFails(i) == stage[i] = "stored" /\ Fails(i)

\* Validate, of a handler whose loop may run by now.
Validate(i) ==
    /\ stage[i] = "fetched" /\ Valid(conf[i])
    /\ stage' = [stage EXCEPT ![i] = "ready"]
    /\ UNCHANGED <<loads, file, conf, store, cancelled, loop, pool>>

ValidateFails(i) ==
    /\ stage[i] = "fetched" /\ ~Valid(conf[i])
    /\ Fails(i)

\* The load fails elsewhere, in another module's Provision or an app's Start,
\* when the handlers that there are by then are ready.
LoadFails ==
    /\ loading # {} /\ \A i \in loading : stage[i] = "ready"
    /\ pending' = <<>> /\ loading' = {}
    /\ doomed' = loading
    /\ UNCHANGED <<serving, stage, file, conf, store, cancelled, loop, pool>>

\* The new handlers go into service.
Swap ==
    /\ pending = <<>> /\ loading # {}
    /\ \A i \in loading : stage[i] = "ready"
    /\ serving' = loading
    /\ doomed' = serving
    /\ loading' = {}
    /\ UNCHANGED <<pending, stage, file, conf, store, cancelled, loop, pool>>

Cleanup(i) ==
    /\ i \in doomed
    /\ doomed' = doomed \ {i}
    /\ CleanUp(i)
    /\ UNCHANGED <<pending, loading, serving>>

-----------------------------------------------------------------------------
\* The process ends and starts again.
Restart ==
    /\ pending' = <<>> /\ loading' = {} /\ serving' = {} /\ doomed' = {}
    /\ stage' = [i \in Handlers |-> "gone"]
    /\ file' = [i \in Handlers |-> NoFile]
    /\ conf' = [i \in Handlers |-> NewHandler]
    /\ store' = [i \in Handlers |-> NoStore]
    /\ cancelled' = [i \in Handlers |-> TRUE]
    /\ loop' = [i \in Handlers |-> "none"]
    /\ pool' = [d \in Dsns |-> Unpooled]

\* startInterval: a ticker takes no negative interval, and the process ends ...
TickerPanics(i) == loop[i] = "panicking" /\ Restart

\* ... and the loop, which fetches at every tick, whatever comes of it.
Tick(i) ==
    /\ loop[i] = "waiting"
    /\ loop' = [loop EXCEPT ![i] = "fetching"]
    /\ UNCHANGED <<loads, stage, file, conf, store, cancelled, pool>>

\* Mutant: a fetch that fails is tried again at once.
FetchDoneRetrying(i) ==
    /\ loop[i] = "fetching"
    /\ loop' = [loop EXCEPT ![i] = IF cancelled[i] THEN "fetching" ELSE "waiting"]
    /\ UNCHANGED <<loads, stage, file, conf, store, cancelled, pool>>

FetchDone(i) ==
    /\ loop[i] = "fetching"
    /\ loop' = [loop EXCEPT ![i] = "waiting"]
    /\ UNCHANGED <<loads, stage, file, conf, store, cancelled, pool>>

LoopEnds(i) ==
    /\ loop[i] = "waiting" /\ cancelled[i]
    /\ loop' = [loop EXCEPT ![i] = "none"]
    /\ UNCHANGED <<loads, stage, file, conf, store, cancelled, pool>>

ProvisionStep(i) ==
    \/ LoadProxy(i) \/ LoadProxyFails(i) \/ LoadProxyPanics(i)
    \/ AcquireStore(i) \/ AcquireFails(i)
    \/ FetchSchema(i) \/ FetchFails(i)
    \/ Validate(i) \/ ValidateFails(i)

LoopStep(i) == TickerPanics(i) \/ Tick(i) \/ FetchDone(i) \/ LoopEnds(i)

Next ==
    \/ \E config \in Configs : Load(config)
    \/ \E i \in Handlers : New(i) \/ ProvisionStep(i) \/ Cleanup(i)
    \/ \E i \in Handlers : LoopStep(i)
    \/ Swap \/ LoadFails
    \/ Restart

Spec == Init /\ [][Next]_vars

\* A load and a clean-up go on once begun, and so does a fetch, which has a
\* timeout.  A loop's select takes one of the cases that are ready at random,
\* so that it cannot pass the cancelled context by for ever.
Fairness ==
    /\ WF_vars(Swap)
    /\ WF_vars(\E i \in Handlers : New(i))
    /\ \A i \in Handlers :
          /\ WF_vars(ProvisionStep(i))
          /\ WF_vars(Cleanup(i))
          /\ WF_vars(TickerPanics(i)) /\ WF_vars(FetchDone(i)) /\ SF_vars(LoopEnds(i))

FairSpec == Spec /\ Fairness

-----------------------------------------------------------------------------
Users(d) == {i \in Handlers : store[i] # NoStore /\ d \in DsnsOf(conf[i])}

TypeOK ==
    /\ loading \subseteq Handlers /\ serving \subseteq Handlers /\ doomed \subseteq Handlers
    /\ stage \in [Handlers -> Stages]
    /\ file \in [Handlers -> Files \cup {NoFile}]
    /\ store \in [Handlers -> Stores \cup {NoStore}]
    /\ cancelled \in [Handlers -> BOOLEAN]
    /\ loop \in [Handlers -> {"none", "waiting", "fetching", "panicking"}]
    /\ pool \in [Dsns -> [store : Stores \cup {NoStore}, refs : Nat]]

\* The count of a DSN's store is the number of handlers that use it, through
\* every failure of a load at every point, and nobody's store is closed or
\* another one than that of the others with the same DSN (LoadOrNew in
\* Caching.Provision, Delete in Caching.Cleanup).
UsersCounted ==
    \A d \in Dsns :
        /\ pool[d].refs = Cardinality(Users(d))
        /\ pool[d].refs = 0 <=> pool[d].store = NoStore
        /\ \A i \in Users(d) : store[i] = pool[d].store

\* Whatever becomes of later loads, a handler in service is provisioned and
\* valid, has its store if it caches, and its loop runs until it is cleaned up.
ServingIntact ==
    \A i \in serving :
        /\ stage[i] = "ready" /\ ~cancelled[i] /\ Valid(conf[i])
        /\ conf[i].caching # {} => store[i] \in Open
        /\ conf[i].fetch_schema_interval # 0 => loop[i] # "none"

\* What a block says, read as a whole: the last word counts.
LastOf(block, name, default) ==
    LET at == {i \in DOMAIN block : block[i].name = name}
    IN  IF at = {} THEN default ELSE block[Max(at)]

LastArgs(block, name) == LastOf(block, name, [args |-> <<>>]).args
LastArg(block, name, default) == Arg(LastOf(block, name, [args |-> <<default>>]))
LastBlock(block, name) == LastOf(block, name, [block |-> <<>>]).block

Names(block) == {block[i].name : i \in DOMAIN block}

Enabled(block, name) ==
    {i \in DOMAIN block : block[i].name = name /\ LastArg(block[i].block, "enabled", "true") = "true"}

Switch(block, name, default) == Truth[LastArg(block, name, default)]

Number(block, name, values) ==
    LET word == LastArg(block, name, "0") IN IF word = "0" THEN 0 ELSE values[word]

TypesSay(said, types) ==
    /\ DOMAIN types = Names(said)
    /\ \A i \in DOMAIN said : types[said[i].name] = ToSet(said[i].args)

RuleSays(said, r) ==
    /\ r.max_age = Number(said, "max_age", Duration)
    /\ r.swr = Number(said, "swr", Duration)
    /\ r.varies = ToSet(LastArgs(said, "varies"))
    /\ TypesSay(LastBlock(said, "types"), r.types)

\* Where each token of a line is a name, the last line that has a name says what
\* is under it, if it is the last one of the line.
Tokens(d) == <<d.name>> \o d.args
Headings(said) == UNION {ToSet(Tokens(said[i])) : i \in DOMAIN said}
LastUnder(said, name) ==
    LET d == said[Max({i \in DOMAIN said : name \in ToSet(Tokens(said[i]))})]
    IN  IF Last(Tokens(d)) = name THEN d.block ELSE <<>>

RulesSay(said, rules) ==
    /\ DOMAIN rules = Headings(said)
    /\ \A r \in Headings(said) : RuleSays(LastUnder(said, r), rules[r])

VarySays(said, v) ==
    v.headers = ToSet(LastArgs(said, "headers")) /\ v.cookies = ToSet(LastArgs(said, "cookies"))

VariesSay(said, varies) ==
    /\ DOMAIN varies = Headings(said)
    /\ \A v \in Headings(said) : VarySays(LastUnder(said, v), varies[v])

\* A type has the keys of its lines, and maybe those of others.
TypeKeysSay(said, keys) ==
    /\ DOMAIN keys = Names(said)
    /\ \A i \in DOMAIN said : ToSet(said[i].args) \subseteq keys[said[i].name]

CachingSays(said, c) ==
    /\ c.store_dsn = StoreDsn(LastArg(said, "store_dsn", ""))
    /\ c.auto_invalidate_cache = Switch(said, "auto_invalidate_cache", "false")
    /\ c.debug_headers = Switch(said, "debug_headers", "false")
    /\ RulesSay(LastBlock(said, "rules"), c.rules)
    /\ VariesSay(LastBlock(said, "varies"), c.varies)
    /\ TypeKeysSay(LastBlock(said, "type_keys"), c.type_keys)

ComplexitySays(said, c) ==
    /\ c.max_depth = Number(said, "max_depth", Numeral)
    /\ c.node_count_limit = Number(said, "node_count_limit", Numeral)
    /\ c.max_complexity = Number(said, "max_complexity", Numeral)

HandlerSays(said, h) ==
    /\ h.upstream = LastArg(said, "upstream", "")
    /\ h.reverse_proxy = LastArgs(said, "upstream")
    /\ h.fetch_schema_interval = Number(said, "fetch_schema_interval", Duration)
    /\ h.fetch_schema_timeout =
          LET n == Number(said, "fetch_schema_timeout", Duration) IN IF n = 0 THEN DefaultTimeout ELSE n
    /\ h.disabled_introspection = Switch(said, "disabled_introspection", "false")
    /\ h.disabled_playgrounds = Switch(said, "disabled_playgrounds", "false")
    /\ h.cors_origins = ToSet(LastArgs(said, "cors_origins"))
    /\ h.cors_allowed_headers = ToSet(LastArgs(said, "cors_allowed_headers"))
    /\ Cardinality(h.caching) = Cardinality(Enabled(said, "caching"))
    /\ \A at \in Enabled(said, "caching"), c \in h.caching : CachingSays(said[at].block, c)
    /\ Cardinality(h.complexity) = Cardinality(Enabled(said, "complexity"))
    /\ \A at \in Enabled(said, "complexity"), c \in h.complexity : ComplexitySays(said[at].block, c)

\* A handler in service runs what its file says, read as a whole: the last word
\* counts, at most one block of a kind is enabled and it is the one in force
\* (UnmarshalCaddyfile and the parsers it calls).
RunsAsWritten == \A i \in serving : HandlerSays(Content[file[i]], conf[i])

\* The interval loop of a handler that was cleaned up comes to an end, also if
\* the clean-up comes while it fetches (startInterval's select).
LoopsEnd == \A i \in Handlers : cancelled[i] ~> loop[i] = "none"

\* Every load comes to an end, with each of its handlers in service or cleaned
\* up, and so are those in service before it; but for the handlers that were
\* ready when Cleanup panicked on the next one, which nobody cleans up.
\* (the failures of Provision and Validate, Caching.Cleanup)
LoadsEnd ==
    /\ pending # <<>> ~> pending = <<>>
    /\ \A i \in Handlers :
          /\ i \in loading ~> i \in serving \/ stage[i] \in {"gone", "abandoned"}
          /\ i \in doomed ~> stage[i] = "gone"
=============================================================================
