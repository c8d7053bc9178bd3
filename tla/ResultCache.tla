----------------------------- MODULE ResultCache -----------------------------
(***************************************************************************)
(* The query result cache: caching_handler.go, caching_result.go,          *)
(* caching_swr.go and caching_purger.go, run by any number of concurrent   *)
(* requests and background refreshes over one store.                       *)
(*                                                                         *)
(* A process is one goroutine that serves a request.  Its program counter: *)
(*                                                                         *)
(*   "idle"     no request                                                 *)
(*   "pass"     a passthrough query, being forwarded                       *)
(*   "lookup"   the plan is known, the store is about to be read           *)
(*   "bump"     a hit: the copy read is about to be stored with HitTime+1  *)
(*   "send"     a hit: the copy read is about to be written to the client  *)
(*   "forward"  a miss: the query is being forwarded to the upstream       *)
(*   "refresh"  the background goroutine of a stale hit: same, for SWR     *)
(*   "fill"     the upstream answered, its answer is about to be stored    *)
(*   "mutate"   a mutation is being forwarded to the upstream              *)
(*   "purge"    its answer is known, tags in todo are left to invalidate   *)
(*   "ack"      the mutation's answer is about to be written to the client *)
(*                                                                         *)
(* The upstream's data is abstracted to a version number per object; a     *)
(* query's answer is the version it saw of each object it reads.           *)
(***************************************************************************)
EXTENDS CacheControl, FiniteSets

CONSTANTS
    Procs,          \* goroutines
    Keys,           \* query result cache keys, one per query and vary values
    Objs,           \* upstream objects; an object is also its type-key tag
    CoarseTags,     \* schema, type, field and operation tags
    Reads,          \* Reads[k]: the objects the answer of query k shows
    Keyed,          \* Keyed[k]: those of them that carry their type key in it
    Static,         \* Static[k]: the coarse tags of query k
    Passthrough,    \* keys whose query no caching rule matches
    MaxAge, Swr,    \* of the matching rules, in ticks of the store's clock
    AutoInvalidate, \* the configuration's auto_invalidate
    StoreFaults,    \* may the store's operations fail?
    Rounding,       \* what the store may drop of a lifetime, in ticks
    Requests,       \* the Cache-Control directives clients send
    NoEntry, NoKey, Never,
    MaxVersion, MaxTime  \* bounds of the model

Tags == Objs \cup CoarseTags

\* The tags AnalyzeResult finds in the answer of query k.
TagsOf(k) == Keyed[k] \cup Static[k]

Lifetime == MaxAge + Swr

Version == [Objs -> Nat]

(***************************************************************************)
(* A stored cachingQueryResult.  The store's key lifetime is expireAt.     *)
(* One field is history: overtaken says that a purge of one of the entry's *)
(* tags succeeded after the upstream produced the body.                    *)
(***************************************************************************)
Entry == [ body      : Version,
           createdAt : Nat,
           expireAt  : Nat \cup {Never},
           overtaken : BOOLEAN ]

ASSUME DataAssumption ==
    /\ Reads \in [Keys -> SUBSET Objs]
    /\ Keyed \in [Keys -> SUBSET Objs]
    /\ \A k \in Keys : Keyed[k] \subseteq Reads[k]
    /\ Static \in [Keys -> SUBSET CoarseTags]
    /\ Passthrough \subseteq Keys

ASSUME ConfigAssumption ==
    /\ MaxAge \in Nat \ {0} /\ Swr \in Nat
    /\ AutoInvalidate \in BOOLEAN /\ StoreFaults \in BOOLEAN
    /\ Rounding \subseteq Nat
    /\ Requests \subseteq Directives
    /\ MaxVersion \in Nat /\ MaxTime \in Nat

\* What the contract of the cache sees of a stored result and of one in hand.
Memos == [body : Version, late : BOOLEAN]
Holdings == [key : Keys, body : Version, late : BOOLEAN]

ASSUME DistinctAssumption ==
    /\ NoEntry \notin Entry /\ NoKey \notin Keys /\ Never \notin Nat
    /\ NoEntry \notin Memos /\ NoEntry \notin Holdings

VARIABLES
    db,      \* the upstream: version of every object
    now,     \* the clock
    store,   \* the store's results, by key
    index,   \* the store's tag index
    pc, key, cc, copy,   \* of each process: its request and the result it holds
    found, todo, failed, \* of each mutation: tags found, left, failed to purge
    seen,    \* history: db as the process's mutation left it
    floor,   \* history: what query k could see at the last purge of a tag of k
    acked    \* history: versions acknowledged to clients as purged

upstream == <<db, now>>
local    == <<key, cc, copy>>
mutation == <<found, todo, failed, seen>>
history  == <<floor, acked>>
vars     == <<upstream, store, index, pc, local, mutation, history>>

Stages == { "idle", "pass", "lookup", "bump", "send", "forward", "refresh",
            "fill", "mutate", "purge", "ack" }

Querying == {"pass", "lookup", "bump", "send", "forward", "refresh", "fill"}

\* A process that serves a query has a key, and one that is about to store or
\* to write a result has a result: no hit is declared without one.
RequestsHeld ==
    \A p \in Procs : /\ pc[p] \in Querying => key[p] \in Keys
                     /\ pc[p] \in {"bump", "send", "fill"} => copy[p] \in Entry

\* The type invariant; it says too that the code has a result in its hands
\* wherever it uses one (resolvePlan, handleQueryRequest).
TypeOK ==
    /\ db \in Version /\ now \in Nat
    /\ store \in [Keys -> Entry \cup {NoEntry}]
    /\ index \in [Tags -> SUBSET Keys]
    /\ pc \in [Procs -> Stages]
    /\ key \in [Procs -> Keys \cup {NoKey}]
    /\ cc \in [Procs -> Directives]
    /\ copy \in [Procs -> Entry \cup {NoEntry}]
    /\ found \in [Procs -> SUBSET Objs]
    /\ todo \in [Procs -> SUBSET Objs]
    /\ failed \in [Procs -> SUBSET Objs]
    /\ seen \in [Procs -> Version]
    /\ floor \in [Keys -> Version]
    /\ acked \in Version
    /\ RequestsHeld

Zero == [o \in Objs |-> 0]

Init ==
    /\ db = Zero /\ now = 0
    /\ store = [k \in Keys |-> NoEntry]
    /\ index = [t \in Tags |-> {}]
    /\ pc = [p \in Procs |-> "idle"]
    /\ key = [p \in Procs |-> NoKey]
    /\ cc = [p \in Procs |-> NoDirective]
    /\ copy = [p \in Procs |-> NoEntry]
    /\ found = [p \in Procs |-> {}]
    /\ todo = [p \in Procs |-> {}]
    /\ failed = [p \in Procs |-> {}]
    /\ seen = [p \in Procs |-> Zero]
    /\ floor = [k \in Keys |-> Zero]
    /\ acked = Zero

-----------------------------------------------------------------------------
(***************************************************************************)
(* The store (gocache over freecache or redis).  A lifetime that is not    *)
(* positive means "no expiration" there.  Invalidate looks the tag up in   *)
(* the index and deletes the keys found; it stops at the first error, with *)
(* some of them deleted (freecache calls a key that is gone an error).     *)
(***************************************************************************)
Deadline(ttl) == IF ttl > 0 THEN now + ttl ELSE Never

Expired(e, t) == e # NoEntry /\ e.expireAt # Never /\ e.expireAt <= t

Snapshot(k) == [o \in Objs |-> IF o \in Reads[k] THEN db[o] ELSE 0]

Overtake(e) == IF e = NoEntry THEN NoEntry ELSE [e EXCEPT !.overtaken = TRUE]

\* Does process p hold a result of a query tagged t that it will store?
Holds(p, t) == pc[p] \in {"bump", "fill"} /\ t \in TagsOf(key[p])

InvalidateOk(t) ==
    /\ store' = [k \in Keys |-> IF k \in index[t] THEN NoEntry ELSE store[k]]
    /\ \/ index' = index
       \/ index' = [index EXCEPT ![t] = {}]
    /\ copy' = [p \in Procs |->
                  IF Holds(p, t) THEN Overtake(copy[p]) ELSE copy[p]]
    /\ floor' = [k \in Keys |->
                  IF t \in TagsOf(k) THEN Snapshot(k) ELSE floor[k]]

InvalidateFails(t) ==
    /\ StoreFaults
    /\ \E gone \in SUBSET index[t] :
          store' = [k \in Keys |-> IF k \in gone THEN NoEntry ELSE store[k]]
    /\ UNCHANGED <<index, copy, floor>>

-----------------------------------------------------------------------------
\* The request of process p is over.
Finish(p) ==
    /\ pc' = [pc EXCEPT ![p] = "idle"]
    /\ key' = [key EXCEPT ![p] = NoKey]
    /\ cc' = [cc EXCEPT ![p] = NoDirective]
    /\ copy' = [copy EXCEPT ![p] = NoEntry]

Goto(p, stage) == pc' = [pc EXCEPT ![p] = stage]

\* A query arrives and its plan is found; resolvePlan first looks at
\* Passthrough.  A query without a plan is answered with an error and never
\* gets here.
StartQuery(p, k, d) ==
    /\ pc[p] = "idle"
    /\ Goto(p, IF k \in Passthrough THEN "pass" ELSE "lookup")
    /\ key' = [key EXCEPT ![p] = k]
    /\ cc' = [cc EXCEPT ![p] = d]
    /\ UNCHANGED <<upstream, store, index, copy, mutation, history>>

Usable(p, e) == e # NoEntry /\ ValidFor(now - e.createdAt, MaxAge, cc[p])

\* Mutant: a hit whatever the store's Get returned.
LookupUnchecked(p) ==
    /\ pc[p] = "lookup"
    /\ copy' = [copy EXCEPT ![p] = store[key[p]]]
    /\ Goto(p, "bump")
    /\ UNCHANGED <<upstream, store, index, key, cc, mutation, history>>

\* resolvePlan reads the store and accepts what it finds.
Lookup(p) ==
    /\ pc[p] = "lookup"
    /\ Usable(p, store[key[p]])
    /\ copy' = [copy EXCEPT ![p] = store[key[p]]]
    /\ Goto(p, "bump")
    /\ UNCHANGED <<upstream, store, index, key, cc, mutation, history>>

\* resolvePlan finds nothing, nothing usable, or cannot read the store.
Miss(p) ==
    /\ pc[p] = "lookup"
    /\ StoreFaults \/ ~Usable(p, store[key[p]])
    /\ Goto(p, "forward")
    /\ UNCHANGED <<upstream, store, index, local, mutation, history>>

\* Mutant: every hit gives the result its whole lifetime again.
RemainingAlways(p) == Lifetime

\* increaseQueryResultHitTimes stores the copy back, for what remains of its
\* lifetime and without tags.  What remains is seldom a whole number of the
\* store's units: redis keeps the rest (Rounding = {0}), freecache, which counts
\* in seconds, drops it (Rounding = {0, 1} when a tick is a second).
Remaining(p) == Lifetime - (now - copy[p].createdAt)

Bump(p) ==
    /\ pc[p] = "bump"
    /\ \E lost \in Rounding :
          store' = [store EXCEPT ![key[p]] =
                      [copy[p] EXCEPT !.expireAt = Deadline(Remaining(p) - lost)]]
    /\ Goto(p, "send")
    /\ UNCHANGED <<upstream, index, local, mutation, history>>

\* A failing store is logged, the hit is served all the same.
BumpFails(p) ==
    /\ pc[p] = "bump"
    /\ StoreFaults
    /\ Goto(p, "send")
    /\ UNCHANGED <<upstream, store, index, local, mutation, history>>

\* The copy is written to the client.  When it is valid the request is over...
ServeValid(p) ==
    /\ pc[p] = "send"
    /\ ~IsStale(now - copy[p].createdAt, MaxAge)
    /\ Finish(p)
    /\ UNCHANGED <<upstream, store, index, mutation, history>>

\* ... and when it is stale a background goroutine revalidates it.
ServeStale(p) ==
    /\ pc[p] = "send"
    /\ IsStale(now - copy[p].createdAt, MaxAge)
    /\ copy' = [copy EXCEPT ![p] = NoEntry]
    /\ Goto(p, "refresh")
    /\ UNCHANGED <<upstream, store, index, key, cc, mutation, history>>

\* Writing the hit to the client fails: nothing is revalidated.
ClientGone(p) ==
    /\ pc[p] = "send"
    /\ Finish(p)
    /\ UNCHANGED <<upstream, store, index, mutation, history>>

-----------------------------------------------------------------------------
\* What the upstream answers to p's query at this moment.
Answer(p) ==
    [ body |-> Snapshot(key[p]), createdAt |-> now, expireAt |-> Never,
      overtaken |-> FALSE ]

TakeAnswer(p) ==
    /\ copy' = [copy EXCEPT ![p] = Answer(p)]
    /\ Goto(p, "fill")
    /\ UNCHANGED <<upstream, store, index, key, cc, mutation, history>>

\* A miss is cached when the upstream said 200 with a JSON body, unless the
\* request said no-store.
ForwardMiss(p) == pc[p] = "forward" /\ ~cc[p].noStore /\ TakeAnswer(p)

\* swrQueryResult: the same without a look at the request's directives.
RefreshStale(p) == pc[p] = "refresh" /\ TakeAnswer(p)

\* The answer is an error, has another status or content type, or is not to
\* be cached: a forwarded one is still written to the client.
AnswerUncached(p) ==
    /\ pc[p] \in {"pass", "forward", "refresh"}
    /\ Finish(p)
    /\ UNCHANGED <<upstream, store, index, mutation, history>>

\* Mutant: of the tags, only the type keys reach the store.
FillKeyed(p) ==
    /\ pc[p] = "fill"
    /\ store' = [store EXCEPT ![key[p]] =
                   [copy[p] EXCEPT !.createdAt = now,
                                   !.expireAt = Deadline(Lifetime)]]
    /\ index' = [t \in Tags |->
                   IF t \in Keyed[key[p]] THEN index[t] \cup {key[p]} ELSE index[t]]
    /\ Finish(p)
    /\ UNCHANGED <<upstream, mutation, history>>

\* cachingQueryResult stores the answer under all its tags, from now on.
Fill(p) ==
    /\ pc[p] = "fill"
    /\ store' = [store EXCEPT ![key[p]] =
                   [copy[p] EXCEPT !.createdAt = now,
                                   !.expireAt = Deadline(Lifetime)]]
    /\ index' = [t \in Tags |->
                   IF t \in TagsOf(key[p]) THEN index[t] \cup {key[p]} ELSE index[t]]
    /\ Finish(p)
    /\ UNCHANGED <<upstream, mutation, history>>

\* The answer cannot be analyzed or stored; a miss is answered all the same.
FillFails(p) ==
    /\ pc[p] = "fill"
    /\ Finish(p)
    /\ UNCHANGED <<upstream, store, index, mutation, history>>

-----------------------------------------------------------------------------
StartMutation(p) ==
    /\ pc[p] = "idle"
    /\ Goto(p, "mutate")
    /\ UNCHANGED <<upstream, store, index, local, mutation, history>>

Writable == {o \in Objs : db[o] < MaxVersion}

\* The upstream changes the objects in changed and answers; AnalyzeResult
\* finds the type keys of the objects in tags.  It finds none when the answer
\* is an error or has another status or content type, when its analysis fails,
\* and when it shows no object with a key.
Mutate(p) ==
    /\ pc[p] = "mutate"
    /\ \E changed \in SUBSET Writable, tags \in SUBSET Objs :
          /\ AutoInvalidate \/ tags = {}
          /\ db' = [o \in Objs |-> IF o \in changed THEN db[o] + 1 ELSE db[o]]
          /\ found' = [found EXCEPT ![p] = tags]
          /\ todo' = [todo EXCEPT ![p] = tags]
    /\ seen' = [seen EXCEPT ![p] = db']
    /\ Goto(p, "purge")
    /\ UNCHANGED <<now, store, index, local, failed, history>>

\* Mutant: the loop ends at the first error.
PurgeUntilError(p) ==
    /\ pc[p] = "purge"
    /\ \E t \in todo[p] :
          \/ /\ InvalidateOk(t)
             /\ todo' = [todo EXCEPT ![p] = @ \ {t}]
             /\ UNCHANGED failed
          \/ /\ InvalidateFails(t)
             /\ todo' = [todo EXCEPT ![p] = {}]
             /\ failed' = [failed EXCEPT ![p] = @ \cup {t}]
    /\ UNCHANGED <<upstream, pc, key, cc, found, seen, acked>>

\* Mutant: a tag that failed is tried again.
PurgeRetrying(p) ==
    /\ pc[p] = "purge"
    /\ \E t \in todo[p] :
          \/ /\ InvalidateOk(t)
             /\ todo' = [todo EXCEPT ![p] = @ \ {t}]
             /\ UNCHANGED failed
          \/ /\ InvalidateFails(t)
             /\ failed' = [failed EXCEPT ![p] = @ \cup {t}]
             /\ UNCHANGED todo
    /\ UNCHANGED <<upstream, pc, key, cc, found, seen, acked>>

\* One turn of the loop of purgeQueryResultByTags, which goes on after an error.
\* The tags come sorted by their text, which the model leaves open.
Purge(p) ==
    /\ pc[p] = "purge"
    /\ \E t \in todo[p] :
          /\ todo' = [todo EXCEPT ![p] = @ \ {t}]
          /\ \/ InvalidateOk(t) /\ UNCHANGED failed
             \/ InvalidateFails(t) /\ failed' = [failed EXCEPT ![p] = @ \cup {t}]
    /\ UNCHANGED <<upstream, pc, key, cc, found, seen, acked>>

\* Mutant: the mutation's answer does not wait for the purges.
PurgeDoneEarly(p) ==
    /\ pc[p] = "purge"
    /\ Goto(p, "ack")
    /\ UNCHANGED <<upstream, store, index, local, mutation, history>>

PurgeDone(p) ==
    /\ pc[p] = "purge"
    /\ todo[p] = {}
    /\ Goto(p, "ack")
    /\ UNCHANGED <<upstream, store, index, local, mutation, history>>

\* The deferred write of the mutation's answer.
Acknowledge(p) ==
    /\ pc[p] = "ack"
    /\ acked' = [o \in Objs |->
                   IF o \in found[p] \ failed[p] /\ acked[o] < seen[p][o]
                   THEN seen[p][o] ELSE acked[o]]
    /\ Finish(p)
    /\ found' = [found EXCEPT ![p] = {}]
    /\ todo' = [todo EXCEPT ![p] = {}]
    /\ failed' = [failed EXCEPT ![p] = {}]
    /\ seen' = [seen EXCEPT ![p] = Zero]
    /\ UNCHANGED <<upstream, store, index, floor>>

-----------------------------------------------------------------------------
\* A purge mutation of the admin API, or the purge of an old schema.
AdminPurge(t) ==
    /\ InvalidateOk(t) \/ InvalidateFails(t)
    /\ UNCHANGED <<upstream, pc, key, cc, mutation, acked>>

\* The store is full and drops an entry.
Evict(k) ==
    /\ store[k] # NoEntry
    /\ store' = [store EXCEPT ![k] = NoEntry]
    /\ UNCHANGED <<upstream, index, pc, local, mutation, history>>

\* Time passes; the store drops what has expired.
Tick ==
    /\ now < MaxTime
    /\ now' = now + 1
    /\ store' = [k \in Keys |-> IF Expired(store[k], now') THEN NoEntry ELSE store[k]]
    /\ UNCHANGED <<db, index, pc, local, mutation, history>>

\* What a process does on its own, once it has a request.
Step(p) ==
    \/ Lookup(p) \/ Miss(p)
    \/ Bump(p) \/ BumpFails(p)
    \/ ServeValid(p) \/ ServeStale(p) \/ ClientGone(p)
    \/ ForwardMiss(p) \/ RefreshStale(p) \/ AnswerUncached(p)
    \/ Fill(p) \/ FillFails(p)
    \/ Mutate(p) \/ Purge(p) \/ PurgeDone(p) \/ Acknowledge(p)

Next ==
    \/ \E p \in Procs : Step(p)
    \/ \E p \in Procs, k \in Keys, d \in Requests : StartQuery(p, k, d)
    \/ \E p \in Procs : StartMutation(p)
    \/ \E t \in Tags : AdminPurge(t)
    \/ \E k \in Keys : Evict(k)
    \/ Tick

Spec == Init /\ [][Next]_vars

\* Process p has a request to the upstream under way.  Neither the reverse proxy
\* nor the background context of a refresh sets it a deadline.
AtUpstream(p) == pc[p] \in {"pass", "forward", "refresh", "mutate"}

\* The Go scheduler runs every goroutine and operations of the store return.  The
\* upstream, like the clients, need not do anything.
FairSpec == Spec /\ \A p \in Procs : WF_vars(~AtUpstream(p) /\ Step(p))

-----------------------------------------------------------------------------
Cached(k) == store[k] # NoEntry

\* A result that a purge of one of its tags has not reached is as fresh as that
\* purge: it shows no object as it was before.  This holds across every
\* interleaving of hits, misses, refreshes, mutations and admin purges, so a
\* result older than a purge of its tags can only come from a request that was
\* in flight during the purge (cachingQueryResult, purgeQueryResultByTags).
PurgedUnlessOvertaken ==
    \A k \in Keys : Cached(k) /\ ~store[k].overtaken =>
        \A o \in Reads[k] : floor[k][o] <= store[k].body[o]

\* Read your writes: once a mutation's answer is written, and unless the store
\* refused to purge the object, no cached result that carries the object's type
\* key predates the mutation, except one overtaken by its purge: the answer is
\* written after the purges (the deferred WriteResponse of
\* handleMutationRequest), one failed tag does not save the others.
AckedWritesVisible ==
    \A k \in Keys : Cached(k) /\ ~store[k].overtaken =>
        \A o \in Keyed[k] : acked[o] <= store[k].body[o]

\* No sequence of hits, refreshes and delays makes the store keep a result
\* beyond max_age + swr from its creation, where it gives it a lifetime at all:
\* increaseQueryResultHitTimes carries over what remains of it.
LifetimeBound ==
    \A k \in Keys : Cached(k) /\ store[k].expireAt # Never =>
        store[k].expireAt <= store[k].createdAt + Lifetime

\* Nothing but the upstream keeps a request, a refresh or a purge loop from
\* coming to its end: a process is idle again and again, or waits for ever for one
\* answer of the upstream, however the others interleave or hang and whatever of
\* the store fails (handleQueryRequest, swrQueryResult, handleMutationRequest).
OnlyUpstreamBlocks ==
    \A p \in Procs : []<>(pc[p] = "idle") \/ <>[]AtUpstream(p)

-----------------------------------------------------------------------------
(***************************************************************************)
(* The inductive invariant behind the two purge properties.  What is       *)
(* stored is protected by the tag index: the purge that raises the floor   *)
(* of a key deletes the key.  What a process holds is protected by its     *)
(* overtaken mark.  What is acknowledged is below the floor.               *)
(***************************************************************************)
StoredIndexed ==
    \A k \in Keys : Cached(k) /\ ~store[k].overtaken =>
        \A t \in TagsOf(k) : k \in index[t]

HeldFresh ==
    \A p \in Procs : pc[p] \in {"bump", "fill"} /\ ~copy[p].overtaken =>
        \A o \in Reads[key[p]] : floor[key[p]][o] <= copy[p].body[o]

HeldIndexed ==
    \A p \in Procs : pc[p] = "bump" /\ ~copy[p].overtaken =>
        \A t \in TagsOf(key[p]) : key[p] \in index[t]

FloorReached == \A k \in Keys, o \in Objs : floor[k][o] <= db[o]

AckedPurged == \A k \in Keys : \A o \in Keyed[k] : acked[o] <= floor[k][o]

MutationsPurged ==
    \A p \in Procs : pc[p] \in {"purge", "ack"} =>
        /\ \A o \in Objs : seen[p][o] <= db[o]
        /\ \A k \in Keys : \A o \in Keyed[k] :
              o \in found[p] \ (failed[p] \cup todo[p]) => seen[p][o] <= floor[k][o]
        /\ pc[p] = "ack" => todo[p] = {}

\* A strengthening of PurgedUnlessOvertaken and AckedWritesVisible that every
\* step of the program preserves: the store's tag index, the results in the
\* hands of requests and the loops of unfinished mutations together never lose
\* track of a result that a purge must reach.
IInv ==
    /\ PurgedUnlessOvertaken
    /\ StoredIndexed
    /\ HeldFresh
    /\ HeldIndexed
    /\ FloorReached
    /\ AckedPurged
    /\ MutationsPurged

-----------------------------------------------------------------------------
(***************************************************************************)
(* The cache implements its contract: what is remembered are the stored    *)
(* results, what is held are the results that will be stored.  The tag     *)
(* index, lifetimes and the stages of requests and mutations are gone.     *)
(***************************************************************************)
Remembered ==
    [k \in Keys |-> IF store[k] = NoEntry THEN NoEntry
                    ELSE [body |-> store[k].body, late |-> store[k].overtaken]]

InHand ==
    [p \in Procs |->
        IF pc[p] \in {"bump", "fill"}
        THEN [key |-> key[p], body |-> copy[p].body, late |-> copy[p].overtaken]
        ELSE NoEntry]

Contract == INSTANCE CacheContract WITH
    memo <- Remembered, held <- InHand, Nothing <- NoEntry,
    Tagged <- [k \in Keys |-> TagsOf(k)]

\* Every step of every request, refresh, mutation, purge or failure of the
\* store is a step of the contract or changes nothing of what it speaks of:
\* a purge by the index reaches what carries the tag, an acknowledged mutation
\* owes no purge (Invalidate, purgeQueryResultByTags, cachingQueryResult).
ContractKept == Contract!Spec

-----------------------------------------------------------------------------
(***************************************************************************)
(* What the repository says and the code does not do.                      *)
(***************************************************************************)
\* caching.go:49 promises that every cached result related to a mutation's
\* type keys is purged; a hit must not put a purged result back.
PurgedStaysPurged ==
    [][ \A p \in Procs :
          pc[p] = "bump" /\ pc'[p] = "send" /\ copy[p].overtaken =>
             store'[key[p]] = store[key[p]] ]_vars
=============================================================================
