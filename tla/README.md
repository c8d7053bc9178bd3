# GBox in TLA+

GBox is a GraphQL reverse proxy, a Caddy module: it validates requests, forwards
them to an upstream GraphQL server and caches the results of queries by the types
they contain. This directory models how it serves, caches, purges, follows the
upstream's schema and is configured and reloaded; model-checks that with TLC on
small instances and proves theorems about it with TLAPS for all instances.

    tlc -workers 2 -config ResultCache_writes.cfg MCResultCache
    tlapm ResultCacheProofs.tla

`PROJECT.json` lists the runs, the lines of code each definition stands for, and
the hazards; each run's properties are the ones of its `.cfg`.

## 1. Inventory

| Component | State | Operations | Correct when | Here |
|---|---|---|---|---|
| **Query result cache**: `caching_handler.go`, `caching_result.go`, `caching_swr.go`, `caching_purger.go` | results in the store, under a key and a set of tags; the copies in the hands of requests | hit, miss, pass, count a hit, refresh a stale result in the background, purge by tags, auto invalidation by a mutation's answer | no result older than a purge of its tags is served; a mutation's author sees it; lifetimes end; nothing but the upstream keeps a request waiting | `ResultCache`, `CacheContract` |
| **Cache-Control**: `caching_result.go`, `caching_request.go` | none | `Status`, `ValidFor` | RFC 7234 | `CacheControl`, `ResultAging` |
| **Planner**: `caching_plan.go`, `caching_rule.go`, `caching_vary.go` | plans in the store, under the hash of a query | find or compute a plan, calculate the result key | the plan says what the rules say, in any order; results that vary are kept apart | `QueryPlan` |
| **Schema fetcher**: `schema_fetcher.go`, `onSchemaChanged` of `handler.go` | cached introspection; the schema of the fetcher and that of the handler | the fetches of `Provision`, interval fetches, schema change and purge | it serves with a valid schema, follows the upstream's, and no result of an old schema stays | `SchemaFetcher` |
| **Tag analyzer**: `caching_tag.go` | the walk over an answer, the tags so far | walk a result, collect key values | a mutation's purge meets the results that show its objects, and of other objects only where keys are confused | `TagAnalyzer` |
| **Test upstream**: `internal/testserver` | its data | resolve and execute | | `TestUpstream` (what `TagAnalyzer` analyzes) |
| **Configuration**: `caddyfile*.go`, `Validate` of `caching.go`, the factories of `caching_store.go` | none | parse, default, validate | a handler runs what its file says | `Caddyfile` |
| **Lifecycle**: `handler.go`, `caching.go`, `startInterval` of `schema_fetcher.go` | usage-counted stores, background contexts, interval loops | `Provision`, `Validate`, `Cleanup`, tick | a store is closed with its last user; a failed load is undone; loops end | `Lifecycle` |
| **HTTP pipeline**: `router.go`, `complexity.go`, `utils.go` | `h.schema`, `h.schemaDocument` | rewrite, unmarshal, normalize, validate, forward | one request sees one schema | `Gateway` |
| **Websocket**: `ws.go`, and **metrics**: `metrics.go` | the first subscription of a connection, the gauge of operations in flight | `Read`, subscribe, refuse, close | a refused connection ends; the gauge shows the work | `Gateway` |
| **Admin API**: `admin/` | none | purge mutations | what it answers is so | `AdminApi`, `Gateway` |
| **Store**: gocache, freecache, redis | | Get, Set, Invalidate | | external, as used |
| Response writer, `cmd`, charts, workflows | | I/O, packaging | | not modelled, see section 6 |

How they interact: a request is bound to the handler's schema and forwarded
through `Caching.HandleRequest`, which asks the planner for a plan and then the
store for a result. A hit is written to the store again, to count it. A stale one is
served and refreshed by a goroutine that outlives the request. A mutation's answer
is analyzed, and the type keys found are purged before the answer is written. The
admin API and the schema fetcher purge through the same function. All goroutines,
and all instances of the handler whose DSN is the same, share one store, without a
lock and without transactions: that is where the hard behaviours are.

* The read of a result, the write that counts the hit and the write of a refresh
  are separate, and purges come in between.
* A miss is in flight while the mutation that outdates it is made and purged.
* A store operation fails: one tag of several, a plan that cannot be saved.
* Rules are visited in the random order of a Go map, plans outlive configurations.
* The upstream's schema changes between the two fetches of `Provision`, during a
  fetch, or while the process is down; a crash separates two writes of a fetch.
* `onSchemaChanged` assigns the schema and its document one after the other, and
  requests read them one after the other.
* A reload provisions new handlers while the old ones serve, over shared stores; it
  may fail at any handler and at any point of its provision.
* Connections and requests end in many ways, and each must leave the gauge as it was.

## 2. Modules

| Module | What it is |
|---|---|
| `CacheControl` | pure operators: `IsStale`, `ValidFor` and its branches |
| `ResultCache` | the cache as a state machine, with its properties and its inductive invariant |
| `CacheContract` | what the cache promises, abstractly; `ResultCache` implements it |
| `MCResultCache` | queries, objects and tags for TLC |
| `ResultCacheProofs` | type correctness, the invariant and three safety properties, proved |
| `CacheContractProofs` | the refinement, proved |
| `ResultAging`, `MCResultAging`, `ResultAgingProofs` | one result growing old under fixed directives, against RFC 7234 |
| `QueryPlan`, `MCQueryPlan`, `QueryPlanProofs` | the planner over shared plans |
| `SchemaFetcher`, `MCSchemaFetcher`, `SchemaFetcherProofs` | fetching, schema change and purge |
| `JsonValues` | JSON as upstreams answer it and the analyzer reads it |
| `TagAnalyzer`, `MCTagAnalyzer`, `TagAnalyzerProofs` | the analyzer, over any answers; in the runs over those of |
| `TestUpstream` | the upstream of the repository's tests: data, resolvers, executor |
| `Caddyfile` | pure operators: the parsers, defaults and validation of a configuration |
| `Lifecycle`, `MCLifecycle`, `LifecycleProofs` | handlers, stores and loops over reloads |
| `AdminApi` | pure operators: how admin mutations answer |
| `Gateway`, `MCGateway`, `GatewayProofs` | requests, connections, admin and schema changes composed |

### ResultCache

A process is the goroutine of a request; its `pc` names the place in the code
(the module's head lists them). A hit goes `lookup -> bump -> send` and, when
stale, `-> refresh -> fill`; a miss `lookup -> forward -> fill`; a mutation
`mutate -> purge -> ack`. Each action is the code between two accesses to what is
shared: `Lookup` is `resolvePlan` up to the store's answer, `Bump` the write of
`increaseQueryResultHitTimes`, `TakeAnswer` the moment the upstream answers, `Fill`
the write of `cachingQueryResult`, `Purge` one turn of the loop of
`purgeQueryResultByTags`, `Acknowledge` the deferred `WriteResponse`.

The upstream's data is one version number per object, and a result's body is the
version it shows of every object it reads. `Reads[k]` are the objects that the
query of key `k` shows, `Keyed[k]` those whose type key `AnalyzeResult` finds in it
and `Static[k]` its schema, operation, type and field tags; the three are constants
per key.
`Mutate` picks the tags found in the answer and the objects the upstream changed
independently: an answer may fail to show what it changed. History variables and
fields (`overtaken`, `floor`, `acked`, `seen`) record what the properties need and
no guard of the code reads.

What is assumed of the store, which is not part of this repository:

* `Set` with its tags is one step, and so is `Invalidate` of one tag; a failing
  `Invalidate` has deleted some of the keys. The races inside the stores (the
  read-modify-write of freecache's tag lists) are left out.
* A lifetime that is not positive means none. freecache counts in seconds and
  drops the rest of the remaining lifetime, redis does not: `Rounding`.
* The index of a tag may or may not be forgotten when the tag is invalidated; it
  is not evicted. Results may be evicted at any time.
* Reading the clock and the write that uses the reading are one step.

Left out: headers and `HitTime` (only a header shows it), metrics, and subscriptions
and unknown operations, which are refused before they touch any state.

### CacheContract

A memory of answers: `Ask`, `Recall`, `Remember`, `Forget`, `Purge`, and
`Acknowledge` of a change only when no purge is owed for it. It has no store, no
index, no stages, no faults and no clock. A purge takes everything that carries the
tag except what was already late; what a process holds at that moment becomes late.
`ResultCache` instantiates it with `memo <- Remembered` (the results of the store
without their ages), `held <- InHand` (the copies about to be stored),
`Tagged[k] <- TagsOf(k)`. A failed `Invalidate` is `Forget`, a refresh is `Ask`, a
counted hit is `Recall` and `Remember`.

### CacheControl and ResultAging

`ValidFor` is split along its early returns. The reference is RFC 7234, 5.2.1,
written directive by directive (`Acceptable`). Two combinations differ from it and
`Settled` excludes them: a fresh result is served to a request that says `no-cache`
(`caching_result.go:94`), and with `max-age` and `max-stale` a fresh result older
than `max-age` is refused and, once it is stale, accepted again up to
`max-age + max-stale` (`caching_result.go:111-127`). `BackOnlyAsStale` excludes
nothing: over the life of a result it says that this second case is the only one in
which a client is given what it was refused before.

### QueryPlan

A request gets a plan from the store or computes it rule by rule, in any order
(`VisitRule` is one turn of the loop over the map), saves it and calculates the
result key. Instances of several configurations share the stored plans, as they do
during a reload. A hash is modelled as what is hashed: no two texts collide.

The text of a result key is written as the code writes it, in tokens: `header:`, a
name, `=`, a value, `;`, then the next part, and nothing is escaped
(`caching_plan.go:251,266`). A value is a sequence of tokens, and the marks may be among
them. So different inputs can give one key: with a vary on the headers A and B,
`A: 1;header:B=2`, `B: 3` and `A: 1`, `B: 2;header:B=3` do. `VariesSeparate` leaves out
requests with `;header:` or `;cookie:` in a header that counts (`NothingDisguised`), and
these only: any other text, `en;q=0.9` for one, can be read back from the key. A cookie
cannot hold a `;` (`Sendable`).

### SchemaFetcher

An instance is one provisioned handler with its fetcher, over a store that outlives
it. Its stage follows `fetch`: introspect, cache the data, convert it, give the
handler the new schema, purge the old one's results, remember the new one. `Stop`
is a `Cleanup` or a crash; with `Crashes` it strikes in the middle of a fetch, as
`Cleanup`, which cancels the context of a running fetch, does too. Caching is on.

### TagAnalyzer and TestUpstream

`TagAnalyzer` sends an operation, takes an answer and walks the operation over it as
`EnterField` does, one field at a time. `Fields[d]` is the normalized operation as
the walker visits it: each field has the type it is selected on, its name, its path
of aliases and the number of the field around it (`WalkerAssumption`: that one comes
first, and the path goes on from there). `Collect` is `collectTypeKeyTags`:
`Reached` goes along the path, through lists, and `KeyAt` is what it finds at the
end. A query's result is stored under its tags, a mutation's key tags purge.

The reference reads the answer along its selection and not along paths: `Met` takes a
field from those objects only on whose real type it is selected, which the analyzer
does not know; `Shown` is the keys read that way, `Holes` the places where there is
none. What upstreams may answer is a constant, `Answers`. All that is assumed of it
(`UpstreamAssumption`) is that an object has no field that was not selected on its
type. In the runs the upstream is `TestUpstream`, the executor of the test server: it
turns a selection into an answer over the data of its resolvers, with the null
propagation of its generated code, or it answers without data. The instance adds to
the test schema what it lacks: a nullable object, an interface, a field that fails, keys
that are numbers and a second key of the same kind as the id (`rank`, `sequel`).

A number has a text and what Go's `int64` makes of it (`Number`), and a key tag is made
of the latter (`caching_tag.go:89`): `1` and `1.5` have one tag.

### Caddyfile and Lifecycle

`Caddyfile` translates the parsers: a directive is a name, arguments and a block,
and parsing stops at the first error. `Lifecycle` loads configurations of such
blocks as Caddy does: `New`, `Provision` in its stages (proxy, store, first fetch,
loop), `Validate`, one handler after the other; when one fails, its `Cleanup` and
that of the handlers before it (`doomed`); when all are ready they replace the old
ones (`Swap`), whose `Cleanup` follows. `pool` is Caddy's usage pool. A `Cleanup`
after `LoadModule` failed calls a function that `Caching.Provision` has not set and
panics (`LoadProxyPanics`), and nobody cleans up the handlers of that load which were
ready (`abandoned`): they keep their stores and their loops, and count as users, until
the process ends. A load may also fail elsewhere, in another module or app, when the gbox
handlers that there are by then are ready (`LoadFails`). A negative
interval panics in the loop's own goroutine and ends the process (`TickerPanics`).
Handlers are slots: one that was cleaned up is used again once its loop is over.

`RunsAsWritten` is the reference for the parsers: it reads the block as a whole (the
last word counts) and knows nothing of the order in which they worked. It speaks of
everything that the model keeps of a file but the headers of a schema fetch, which are
all kept, and of type keys it asks for at least those of a type's own lines; that a type
gets others as well is not caught. On a line that names a rule or a vary every further
token is another one, and the block is the last one's (`Enter`, and `Headings` and
`LastUnder` in the reference). `Lines`
are the directives that files consist of, down to the innermost braces
(`LinesAssumption`, `ContentAssumption`): in the run those of the twenty-three blocks. What
reads as a number, a duration, a URL, an address or a DSN, and what the replacer makes of
a DSN's placeholders, are constants.

### AdminApi and Gateway

`Gateway` is one handler in service. A request takes the schema when it is
unmarshalled, the document and then the schema again when it is handed to caching
(`Receive`, `Validate`, `BindSchema`); a schema change assigns schema, then document
(`SchemaChanges`, `DocumentChanges`), then purges. A connection is read by the
reverse proxy through `wsConn.Read` (`Read`, `ReadSubscribe`, `Subscribe`,
`SubscribeFails`), which writes what it read to the upstream and reads again. The
gauge is raised and lowered where the code does it. An admin request runs its fields
one after the other and answers with `Data`. The cache is the set of results it
holds, and a purge of it is one step; `ResultCache` is its inside. A hit is two steps, as
in the code: `Hit` reads the result, `CountHit` stores what was read again, without
tags, also when it was purged in between. The result is then in the cache under its key,
and the index finds it only if a tagged one was there to be replaced (`tagged`).

Schemas replace each other in one direction here (`1 .. LastSchema`); that they may
come back is the matter of `SchemaFetcher`. The gauge counts a connection whose
upstream is gone for ever (`lost`), because the code does.

## 3. Runs

| Run | Question | Instance |
|---|---|---|
| `writes` | do purges and acknowledged mutations survive every interleaving when the store fails, and is every step one of the contract? | 2 processes, 1 cached query over 2 objects of which one has its key in the result, 1 passthrough query, store faults |
| `hits` | do types, the inductive invariant and the lifetimes hold as results age? | 2 processes, 1 query, 3 kinds of requests, 2 ticks with max_age = 1 and swr = 2, both roundings |
| `live` | does anything but the upstream keep a request, a refresh or a purge loop from ending? | 2 processes, 1 query, store faults, 1 tick, no symmetry |
| `aging` | does `ValidFor` decide as RFC 7234? | every combination of small directives at every age up to a horizon, max_age = 3 |
| `plans` | is every plan used right, and are varying results kept apart? | 2 requests, 2 configurations with 5 rules, 2 headers, 1 cookie, 2 values of which one ends like another header, store faults |
| `fetch` | which schema is served, which results are forgotten, does the fetcher follow the upstream? | 1 instance, 3 schemas of which one does not convert, 4 changes, crashes, store faults |
| `tags` | do the tags of mutations and queries meet, and only where they share an object? | 18 operations on the test server, answered with and without data, 2 stored results, 1 restricted rule |
| `reload` | are stores counted, serving handlers intact, files obeyed, loads and loops ended? | 3 handler slots, 2 stores, 23 files alone and 2 configurations of two handlers |
| `gateway` | does the gauge show the work, do requests see one schema, is the admin told the truth, do connections end? | 2 clients, 1 schema change, 6 operations, 3 chunks of frames, 2 admin documents, caching on or off |
| `resurrected`, `crash`, `alias` | where code and documentation disagree, see below | as above |

The bounds: two processes are what the races need, since every one of them is
between one request that holds a result and one other step (a purge, a fill, a
mutation); the theorems lift the bound for the properties of `ResultCache` and for
the contract. `MaxVersion = 1` tells an old body from a new one. The largest run is `plans` with
2.2 million states. In `hits` a result
is fresh at age 1 and stale at age 2, when the store still holds it unless a rounded
lifetime has just ended. In `plans` two requests suffice for a plan that one saves
and the other finds, and the rules are such that each of max_age, swr, types and
varies comes from a different one. In `fetch` the upstream may go from one schema to
another and back, twice, with data that does not convert in between. In `tags` two
stored results make one that a purge meets and one that it must spare. In `reload`
three slots hold two handlers of one configuration beside one in service, or one
that is loaded beside one in service and one whose loop is still fetching; two
stores are the two DSNs that a factory accepts. In `gateway` one change of the schema
is all that a request can see inconsistently, and two clients are a request or a
connection against an admin or another of its kind.

`Symmetry` of the processes is used in the safety runs of `ResultCache` and
`QueryPlan` only. No run switches deadlock checking off except `aging`, whose result
stops aging at a horizon.

What the passing runs show, in the words of the modules:

* `PurgedUnlessOvertaken`: a cached result older than a successful purge of one of
  its tags comes from a request that was in flight during that purge (a miss not
  stored yet, or a hit not counted yet). This is the strongest form that holds; the
  weaker it leaves room for is the finding `resurrected`.
* `AckedWritesVisible`: read your writes, for the objects whose type key the
  mutation's answer and the query's result both show and whose purge did not fail.
* `ContractKept`: the cache implements its contract.
* `LifetimeBound`; `OnlyUpstreamBlocks`: a process is idle again and again or waits
  for ever for one answer of the upstream.
* `AgreesWithRFC`, `StaleOnlyIfWelcome`, `BackOnlyAsStale`.
* `PlanFollowsRules`, `NoUnknownVary`, `VariesSeparate` (but for disguised headers).
* `OnlyValidServed`, `OldResultsTracked`, `FollowsUpstream`. `OldResultsTracked` is
  stated for a single instance: with two it is false, since one may serve under a
  schema whose introspection data the other has already replaced in the store.
* `PurgeMeetsResults`: a mutation and a result that both select an object's key
  plainly share its tag, wherever in the answers the object is; `PurgesOnlyShared`: a
  result that the mutation purges by a key shows one of the objects of its answer, the
  same type and key and a value with the same tag; `FailsAtHoles`: which
  answers make the analysis fail, and with it the purge: those with a hole where a
  covered key is selected. The last two leave out operations in which one path leads
  to fields of several types, as in `search { ... on UserTest { id } ... on BookTest
  { id } }` (`both`): there `collectTypeKeyTags` takes every book for a user as well,
  and what one type has may be a hole for the other. `PurgesOnlyShared` also leaves out tags of
  abstract types and pairs of operations in which one key of a type has the alias of
  another (`title: id`), and takes numbers with the same whole part for one: in these
  cases the code does purge results of other objects.
* `UsersCounted`, `ServingIntact`, `RunsAsWritten`, `LoopsEnd`. `LoadsEnd`: each handler
  of a load comes into service or is cleaned up, except those a panic has abandoned.
* `GaugeShowsWork`, `SchemasAgree` (a result is never kept under a schema older than
  the document that tagged it, and a request in whose time no assignment fell sees
  one schema throughout), `ConnectionsEnd`. `AdminTold`: an admin who is told of a purge
  finds none of the results it was to reach but those made anew since, and those a hit
  had read before the purge and put back (the finding `resurrected`, seen from outside).
  For `purgeAll` these are the results of the schema at the time of the request.

### Fairness

`FairSpec` of `ResultCache` is weak fairness of each process while it has a request and
is not waiting for the upstream: the Go scheduler runs every goroutine, and store
operations return. Nothing is assumed of the upstream (`AtUpstream`), since nothing in
the code bounds the wait: the reverse proxy that the Caddyfile generates sets no
response timeout (`caddyfile.go:62-67`), and a refresh runs under `ctxBackground`, which
only a `Cleanup` ends (`caching_handler.go:100-103`). Arrivals, mutations, admin
purges, evictions and time have no fairness. `FairSpec` of `SchemaFetcher` is weak
fairness of an instance's own steps (the ticker) and strong fairness of `Introspect`
and `Keep`: an upstream or a store that fails at every single attempt is no place to
follow anything from. Starts, stops and purge faults have none.

`FairSpec` of `Lifecycle`: a load once begun goes on (`New`, `ProvisionStep`, `Swap`,
`Cleanup`), a fetch returns because it has a timeout (`FetchDone`), and `LoopEnds` is
strongly fair since the `select` of `startInterval` picks at random among the cases
that are ready and cannot take the tick for ever. Loads, ticks and restarts have no
fairness. `FairSpec` of `Gateway`: what `Read` and the proxy's copying have begun goes
on, and a read of a closed connection fails at once, with one weak fairness condition for
each client's connection; clients, upstreams, admins and
schema changes have none.

### Findings

Three runs end in a violation, each of something the repository says:

* `resurrected`: `caching.go:49` promises that a mutation purges every related
  result. A hit read before the purge and counted after it puts the purged result
  back (`caching_result.go:75`), and without tags, so that no later purge finds it.
  The same write lets a stale copy replace the result of a refresh just stored.
* `crash`: `handler.go:162` purges the results of an old schema on a change. The new
  introspection data is cached first (`schema_fetcher.go:161`), so that a process
  that stops in between finds nothing changed when it is back.
* `alias`: `caching.go:49` again. The key tag is made of the alias in the answer
  (`caching_tag.go:65`), so that a mutation that selects the key under an alias
  purges by a tag that no plainly selected result has.

### Divergences seen without a run

Read in the code while modelling it; the models follow the code.

* A hit counted when the lifetime has run out stores the result without an
  expiration (`caching_result.go:76`); `caching_rule.go:21` bounds how long a stale
  result is served. `LifetimeBound` is about lifetimes that the store is given.
* `caching_handler.go:73` respects `no-store`; a stale hit's background refresh does
  not (`caching_swr.go:31`).
* `caching_vary.go:14` says that cookie names identify a result key; of a missing
  cookie no name is hashed (`caching_plan.go:266`). Within one configuration the
  order of the parts tells them apart, across two that share a store it does not.
* The gauge's help text (`metrics.go:23`) counts operations being handled; a
  websocket connection whose upstream write fails is never counted out, since only
  a failing `Read` does that (`ws.go:86`).
* A refused subscribe frame is still copied to the upstream, because `Read` returns
  what it read together with `io.EOF` (`ws.go:119-123`).
* All types of one `type_keys` block share one map of fields
  (`caddyfile_caching.go:218`).
* A type with such a key of another one may have none of it in an answer, or a null,
  and then the whole analysis fails (`caching_tag.go:91`).
* Names and values are hashed without being escaped (`caching_plan.go:251,266`), so that
  a request can be given the result key of another by one header's text.
* `title: id` in a mutation makes a tag of the id that reads as one of a title, and so do
  numbers that `int64` makes equal (`caching_tag.go:65,89`): the mutation purges results
  of objects that it does not show.
* A second token on the line of a rule or a vary becomes a rule or a vary of its own and
  takes the block (`caddyfile_caching.go:93,178`).
* Nothing sets a refresh a deadline: a hung upstream keeps its goroutine until the
  handler's `Cleanup` (`caching_handler.go:100`).
* A negative `fetch_schema_interval` panics the ticker (`schema_fetcher.go:68`).
* `Cleanup` after a failed `LoadModule` panics when caching is configured
  (`caching.go:135`), and the other handlers of the load are abandoned.

## 4. Theorems

All are proved for every value of the constants that the modules' assumptions
allow: any number of processes, keys, objects, tags, handlers, stores, files, any
durations.

`ResultCacheProofs`:

* `TypeCorrect`: `Spec => []TypeOK`.
* `InvariantHolds`: `Spec => []IInv`.
* `PurgesReach`: `Spec => []PurgedUnlessOvertaken`.
* `WritesVisible`: `Spec => []AckedWritesVisible`.
* `LifetimesBounded`: `Spec => []LifetimeBound`.

`PurgedUnlessOvertaken` is not inductive: a `Bump` or a `Fill` may store anything as
far as it tells. `IInv` adds what is true of the results in the hands of processes
(`HeldFresh`: unless marked, they are as fresh as the last purge of their tags), of
the index (`StoredIndexed`, `HeldIndexed`: what no purge overtook can be found under
all its tags, including a copy that will be written back without any) and of the
mutations under way (`FloorReached`, `MutationsPurged`, `AckedPurged`: what is
acknowledged was purged, and what was purged raised the floor). The step of each
action is a lemma; those that neither store nor purge share one (`QuietInv`). The
facts about `InvalidateOk` and `InvalidateFails` (`FloorRises`, `InvalidateStore`,
`InvalidateHeld`) serve the mutations' loop and the admin purges alike.

`CacheContractProofs`: `CacheImplementsContract`, `Spec => ContractKept`. The initial
state maps to the contract's, and each action of `ResultCache` is named with the step
of the contract that it is, or leaves the mapped variables alone (`QuietRefines`).
`IInv` is what makes it go through: that a purge reaches everything with the tag but
what is late is `StoredIndexed`, and that nothing is acknowledged while a purge is
owed is `MutationsPurged`.

`ResultAgingProofs`: `Agreement`, `NoUnwelcomeStale` and the action property
`RefusedForGood` (`BackOnlyAsStale`), by cases on which directives are present: `ValidFor`
is monotone in the age within each branch (`AcceptedDownward`), and only the branch for
`max-age` with `max-stale` has a second bound that is above the first.

`LifecycleProofs`: `TypeCorrect`, `StoresCounted`, `ServiceIntact`, from
`InvariantHolds`. A count is right only if `Cleanup` and the store that a handler got
agree, so `IInv` says where each handler is (`Placed`: one at most is being
provisioned, and none while others are left to be cleaned up), what it has at its
stage (`Provisioned`), that no factory has accepted what it refuses now (`Refused`)
and that the settings at hand come from accepted files (`AllConfigured`). The counts
themselves move with `FS_AddElement` and `FS_RemoveElement`.

`FilesObeyed` (`Spec => []RunsAsWritten`) has two halves. Of the parsers it is shown,
for any files, that what comes of a block without an error is what the block says. For
each of them a `Step` lemma shows this of one more directive (`LastOfAppend`: the last
word on a matter is the new directive's, if it is on that matter, or else the one
before; `LinesAppend` and `UnderAppend` where every token of a line is a name), a `Start` lemma of the empty block, and a `Parsed` lemma concludes by
`ParsedIsGood`, the induction over the block. A parser of blocks within blocks uses the
`Parsed` lemma of the inner one, from `TypesParsed` up to `HandlerParsed`. Since no
parser can be the parameter of a lemma, they are passed as functions on the records of
their type (`step`), and the `Parsed` lemmas look alike. `SettingsSay` adds the
defaults, and `AcceptedConfigured` shows that an accepted file names one store at most,
by a DSN that reads as one, which the counts need. Of the handlers it is
shown that each has the settings of its own file, and that Caddy has accepted that file
(`Filed`).

`SchemaFetcherProofs`: `TypeCorrect` and `ValidServed` for any number of instances,
from `Handed`, which says what an instance has in its hands at each stage; and
`ResultsTracked`, `Alone => (Spec => []OldResultsTracked)`: with one instance, what
it converts and purges by is what is cached (`Tracked`), so that a result's schema is
always one of the three that the property names. That `Alone` is needed is not the
proof's weakness: with two instances the property is false.

`QueryPlanProofs`: `TypeCorrect`, `PlansFollow` and `VariesKnown`, for any number of
rules, visited in any order. A finished plan says the least max_age of all matching
rules; on the way it says that of the rules visited so far (`Says` of `Visited`),
which one turn of the loop keeps true whichever rule it takes. Stored plans say it of
every configuration whose checksums they have (`StoredRight`): that is why a request
may use a plan that an instance of another configuration has saved. For
`VariesSeparate` it is shown that the hashed text can be read back although nothing in it
is escaped. A part begins with `header:` or `cookie:`, ends with `;` and has no `;` before
a head inside (`PartIsPart`, which is where `NothingDisguised` is used), so that of two
equal texts the first parts are equally long (`NoShorter`), and then all of them are the
same (`Decode`, by induction over the parts). Equal texts thus have the same parts
(`KeyParts`), a finished plan's varies are those of the rules that match (`PlanVaries`),
and the parts of an input tell what was sent of it (`PartsSeparate`).

`TagAnalyzerProofs`: `TypeCorrect`, `PurgesMeetResults`, `OnlySharedPurged` and
`FailsOnlyAtHoles`, for any operations and any answers. Between its steps the walk has
the tags of exactly the covered fields visited so far, and no hole among them
(`AtHand`, by `VisitedNext`); a stored result has those of all its fields
(`StoredTagged`). What these tags say of the answer is the comparison of the two ways
to read it: along its path the analyzer reaches whatever a field is selected on
(`OnIsReached`), and nothing else if no path leads to several types (`ReachedIsOn`),
for then whatever an object has under an alias was selected on its type
(`ChosenHere`, which is where `UpstreamAssumption` is used). `OnlySharedPurged` applies
this to both sides of a purge: the tag they share comes from a key that each of them
shows (`TaggedIsShown`), and since no alias disguises a key it is the same key.

Both use induction, over chunks and over fields, as `LifecycleProofs` does over
directives. The library's induction theorems take an operator as a parameter, so that
it is stated here for sets (`FromZero`: a set of naturals with 0 and all successors is
all of `Nat`, since a least number outside it would contradict the well-foundedness of
`<`). That the recursive functions of `FlattenSeq`, `Reached` and `Met` exist is proved
the same way, by prolonging them by one step (`FlattenExists`, `ReachedExists`,
`MetExists`).

`GatewayProofs`: `TypeCorrect`, `GaugeRight`, `OneSchema` and `AdminsTold`, for any
number of clients, schemas, operations and admin fields. `OneThing` says that a client
is not counted twice, and an action counts one in, counts one out or moves nobody
(`GaugeUp`, `GaugeDown`, `GaugeSame`, by `FS_AddElement` and `FS_RemoveElement`).
`Seen` says what a request that is on its way has seen of a schema that only grows,
and `Assigned` where the two assignments of a change are; `Told` is `AdminTold` field
by field, while the request still runs: it says too that what a field has purged is in no
hit's hands, so that `CountHit` cannot put it back (`PurgedApart`). That the first subscribing frame of a chunk
is one (`FirstOpIn`) needs a least element, which comes from the well-foundedness
of `<` on the naturals.

Assumptions used: the named `ASSUME`s of the modules, all of which TLC evaluates in
the runs.

Only model-checked: liveness (`OnlyUpstreamBlocks`, `FollowsUpstream`, `LoopsEnd`,
`LoadsEnd`, `ConnectionsEnd`), which is out of the prover's reach together with
`ENABLED`. Every safety invariant and action property that a passing run checks is also
proved. The prover also says nothing of the runs that end in a violation.

## 5. Plan

What is left, the most valuable first:

1. The planner composed with the result cache: results made under the rules of one
   configuration and served under those of the next (`caching_plan.go:239`). Today
   the result key is a constant of `ResultCache`, and `QueryPlan` ends where it begins.
2. `SchemaFetcher` with two instances: the strongest tracking property that holds when
   one instance stores a result under a schema that the other has purged.
3. `Lifecycle` composed with `Gateway`: requests to a handler while it is replaced.

Runs are kept few, one per question: a finding's run gives way when a deeper
property needs its place.

## 6. Not modelled

* The buffering response writer (`caching_responsewriter.go`): I/O, one object per request,
  nothing shared. What it makes of a failed upstream is `AnswerUncached`.
* The introspection schema of the admin API and of the test server in the generated
  code, the complexity tables and the marshalling of scalars: tables, and conversions
  that no property depends on.
* `cmd`, module registration, charts, workflows, playground pages: packaging.
* The counters and the histogram of `metrics.go`: nothing reads them; the gauge,
  which must come back, is modelled.
* The stores themselves, outside this repository: eviction, expiry and failure are
  modelled, the races inside them are not.
* Planner and result cache composed: that a result made under an old configuration's
  rules is served under the new ones' is said under the hazards; the two modules
  share only the result key, which is a constant in `ResultCache`.
