---------------------------- MODULE SchemaFetcher ----------------------------
(***************************************************************************)
(* Fetching the upstream's schema and purging the results of the one it    *)
(* replaces: schema_fetcher.go, onSchemaChanged of handler.go and          *)
(* PurgeQueryResultBySchema of caching_purger.go.                          *)
(*                                                                         *)
(* An instance is one provisioned handler with its fetcher; instances come *)
(* and go (restarts, crashes, reloads) over a store that outlives them.    *)
(* The stage of an instance:                                               *)
(*                                                                         *)
(*   "down"     not running, or its Provision failed                       *)
(*   "load"     Provision is about to read the cached introspection        *)
(*   "fetch"    about to introspect the upstream                           *)
(*   "keep"     about to store the introspection it got                    *)
(*   "convert"  about to turn introspection data into a schema             *)
(*   "purge"    the handler has the new schema, the old one's results are  *)
(*              about to be purged                                         *)
(*   "ready"    waiting for the next tick of the interval                  *)
(*                                                                         *)
(* and its phase: "cache" and "provision" are the two fetches of           *)
(* Provision, "interval" is all that follows.                              *)
(***************************************************************************)
EXTENDS Naturals

CONSTANTS
    Instances,
    Schemas,     \* what the upstream's introspection may answer
    Broken,      \* those that do not convert to a valid schema
    NoSchema, NoQuery,
    Interval,    \* is fetch_schema_interval set?
    Crashes,     \* may an instance stop in the middle of a fetch?
    StoreFaults, \* may the store's operations fail?
    MaxChanges   \* bound of the model: changes of the upstream's schema

\* A query result in the store, tagged with the schema it was made under.
\* History: overtaken says that a purge of the schema succeeded after the
\* request for it had begun.
Result == [schema : Schemas, overtaken : BOOLEAN]

ASSUME SchemaAssumption ==
    /\ Broken \subseteq Schemas /\ NoSchema \notin Schemas /\ NoQuery \notin Result
    /\ Schemas # Broken
    /\ {Interval, Crashes, StoreFaults} \subseteq BOOLEAN /\ MaxChanges \in Nat

VARIABLES
    upstream, changes,  \* the upstream's schema, and how often it changed
    cached, results,    \* the store: introspection data and query results
    stage, phase,       \* of each instance
    data,               \* the introspection data in its hands
    schema,             \* s.schema of its fetcher
    served,             \* h.schema of its handler
    flight,             \* a query it is forwarding
    lost                \* history: replaced schemas that nothing will purge

store   == <<cached, results>>
fetcher == <<stage, phase, data, schema>>
vars    == <<upstream, changes, store, fetcher, served, flight, lost>>

Stages == {"down", "load", "fetch", "keep", "convert", "purge", "ready"}

\* The type invariant; it says too that no instance forwards a query before it
\* has a schema to tag the result with (Provision, schemaChanged).
TypeOK ==
    /\ upstream \in Schemas /\ changes \in 0 .. MaxChanges
    /\ cached \in Schemas \cup {NoSchema}
    /\ results \subseteq Result
    /\ stage \in [Instances -> Stages]
    /\ phase \in [Instances -> {"cache", "provision", "interval"}]
    /\ data \in [Instances -> Schemas \cup {NoSchema}]
    /\ schema \in [Instances -> Schemas \cup {NoSchema}]
    /\ served \in [Instances -> Schemas \cup {NoSchema}]
    /\ flight \in [Instances -> Result \cup {NoQuery}]
    /\ lost \subseteq Schemas

Init ==
    /\ upstream \in Schemas \ Broken /\ changes = 0
    /\ cached = NoSchema /\ results = {}
    /\ stage = [i \in Instances |-> "down"]
    /\ phase = [i \in Instances |-> "cache"]
    /\ data = [i \in Instances |-> NoSchema]
    /\ schema = [i \in Instances |-> NoSchema]
    /\ served = [i \in Instances |-> NoSchema]
    /\ flight = [i \in Instances |-> NoQuery]
    /\ lost = {}

Goto(i, s) == stage' = [stage EXCEPT ![i] = s]

\* Nothing of an instance survives it.  Its schema is lost when the introspection
\* data cached since is another's.
Halt(i) ==
    /\ Goto(i, "down")
    /\ phase' = [phase EXCEPT ![i] = "cache"]
    /\ data' = [data EXCEPT ![i] = NoSchema]
    /\ schema' = [schema EXCEPT ![i] = NoSchema]
    /\ served' = [served EXCEPT ![i] = NoSchema]
    /\ flight' = [flight EXCEPT ![i] = NoQuery]
    /\ lost' = lost \cup ({schema[i]} \ {cached, NoSchema})

\* Mutant: an error of Provision is only logged.
FetchErrorLogged(i) ==
    /\ Goto(i, "ready")
    /\ phase' = [phase EXCEPT ![i] = "interval"]
    /\ data' = [data EXCEPT ![i] = NoSchema]
    /\ UNCHANGED <<schema, served, flight, lost>>

\* An error fails Provision, which Caddy answers with Cleanup; the interval
\* loop logs it and goes on.
FetchError(i) ==
    IF phase[i] = "interval"
    THEN /\ Goto(i, "ready")
         /\ data' = [data EXCEPT ![i] = NoSchema]
         /\ UNCHANGED <<phase, schema, served, flight, lost>>
    ELSE Halt(i)

\* After the cached data Provision fetches from the upstream, after that it is
\* done.
Fetched(i) ==
    /\ IF phase[i] = "cache"
       THEN Goto(i, "fetch") /\ phase' = [phase EXCEPT ![i] = "provision"]
       ELSE Goto(i, "ready") /\ phase' = [phase EXCEPT ![i] = "interval"]
    /\ data' = [data EXCEPT ![i] = NoSchema]

-----------------------------------------------------------------------------
Start(i) ==
    /\ stage[i] = "down"
    /\ Goto(i, "load")
    /\ UNCHANGED <<upstream, changes, store, phase, data, schema, served, flight, lost>>

\* Provision reads the cached introspection and converts it first ...
LoadCached(i) ==
    /\ stage[i] = "load"
    /\ cached # NoSchema
    /\ data' = [data EXCEPT ![i] = cached]
    /\ Goto(i, "convert")
    /\ UNCHANGED <<upstream, changes, store, phase, schema, served, flight, lost>>

\* ... or ignores that there is none.
LoadNothing(i) ==
    /\ stage[i] = "load"
    /\ cached = NoSchema \/ StoreFaults
    /\ Goto(i, "fetch")
    /\ phase' = [phase EXCEPT ![i] = "provision"]
    /\ UNCHANGED <<upstream, changes, store, data, schema, served, flight, lost>>

\* introspect: the upstream answers with introspection data ...
Introspect(i) ==
    /\ stage[i] = "fetch"
    /\ data' = [data EXCEPT ![i] = upstream]
    /\ Goto(i, "keep")
    /\ UNCHANGED <<upstream, changes, store, phase, schema, served, flight, lost>>

\* ... or not, or too late.
IntrospectFails(i) ==
    /\ stage[i] = "fetch"
    /\ FetchError(i)
    /\ UNCHANGED <<upstream, changes, store>>

\* The data is stored, without an expiration, before anything checks it.  What
\* was cached is lost if the instance could not read it.
Keep(i) ==
    /\ stage[i] = "keep"
    /\ cached' = data[i]
    /\ Goto(i, "convert")
    /\ lost' = lost \cup ({cached} \ {NoSchema, data[i], schema[i]})
    /\ UNCHANGED <<upstream, changes, results, phase, data, schema, served, flight>>

KeepFails(i) ==
    /\ stage[i] = "keep"
    /\ StoreFaults
    /\ FetchError(i)
    /\ UNCHANGED <<upstream, changes, store>>

ConvertFails(i) ==
    /\ stage[i] = "convert"
    /\ data[i] \in Broken
    /\ FetchError(i)
    /\ UNCHANGED <<upstream, changes, store>>

\* schemaChanged: the first schema of the instance is handed to the handler ...
First(i) ==
    /\ stage[i] = "convert"
    /\ data[i] \notin Broken
    /\ schema[i] = NoSchema
    /\ schema' = [schema EXCEPT ![i] = data[i]]
    /\ served' = [served EXCEPT ![i] = data[i]]
    /\ Fetched(i)
    /\ UNCHANGED <<upstream, changes, store, flight, lost>>

\* ... and one equal to the last is not.
Unchanged(i) ==
    /\ stage[i] = "convert"
    /\ schema[i] # NoSchema /\ data[i] = schema[i]
    /\ Fetched(i)
    /\ UNCHANGED <<upstream, changes, store, schema, served, flight, lost>>

\* Mutant: data that does not convert replaces the schema all the same.
ChangedUnchecked(i) ==
    /\ stage[i] = "convert"
    /\ schema[i] \notin {NoSchema, data[i]}
    /\ served' = [served EXCEPT ![i] = data[i]]
    /\ Goto(i, "purge")
    /\ UNCHANGED <<upstream, changes, store, phase, data, schema, flight, lost>>

\* Mutant: the old schema's results are purged, but the handler keeps it.
ChangedUnserved(i) ==
    /\ stage[i] = "convert"
    /\ data[i] \notin Broken
    /\ schema[i] \notin {NoSchema, data[i]}
    /\ Goto(i, "purge")
    /\ UNCHANGED <<upstream, changes, store, phase, data, schema, served, flight, lost>>

\* Another schema: the handler gets it first, requests use it from then on.
Changed(i) ==
    /\ stage[i] = "convert"
    /\ data[i] \notin Broken
    /\ schema[i] \notin {NoSchema, data[i]}
    /\ served' = [served EXCEPT ![i] = data[i]]
    /\ Goto(i, "purge")
    /\ UNCHANGED <<upstream, changes, store, phase, data, schema, flight, lost>>

\* Mutant: the tag purged is that of the new schema.
PurgeNew(i) ==
    /\ stage[i] = "purge"
    /\ results' = {r \in results : r.schema # data[i]}
    /\ flight' = [j \in Instances |->
                    IF flight[j] # NoQuery /\ flight[j].schema = data[i]
                    THEN [flight[j] EXCEPT !.overtaken = TRUE] ELSE flight[j]]
    /\ schema' = [schema EXCEPT ![i] = data[i]]
    /\ Fetched(i)
    /\ lost' = lost \ {schema[i]}
    /\ UNCHANGED <<upstream, changes, cached, served>>

\* PurgeQueryResultBySchema of the old schema, then the deferred assignment.
PurgeOld(i) ==
    /\ stage[i] = "purge"
    /\ results' = {r \in results : r.schema # schema[i]}
    /\ flight' = [j \in Instances |->
                    IF flight[j] # NoQuery /\ flight[j].schema = schema[i]
                    THEN [flight[j] EXCEPT !.overtaken = TRUE] ELSE flight[j]]
    /\ schema' = [schema EXCEPT ![i] = data[i]]
    /\ Fetched(i)
    /\ lost' = lost \ {schema[i]}
    /\ UNCHANGED <<upstream, changes, cached, served>>

\* A purge that fails is logged; the old schema is forgotten all the same.
PurgeFails(i) ==
    /\ stage[i] = "purge"
    /\ StoreFaults
    /\ schema' = [schema EXCEPT ![i] = data[i]]
    /\ Fetched(i)
    /\ lost' = lost \cup {schema[i]}
    /\ UNCHANGED <<upstream, changes, store, served, flight>>

TickInterval(i) ==
    /\ stage[i] = "ready"
    /\ Interval
    /\ Goto(i, "fetch")
    /\ UNCHANGED <<upstream, changes, store, phase, data, schema, served, flight, lost>>

-----------------------------------------------------------------------------
\* A provisioned instance forwards a query under the handler's schema ...
BeginQuery(i) ==
    /\ phase[i] = "interval"
    /\ flight[i] = NoQuery
    /\ flight' = [flight EXCEPT ![i] = [schema |-> served[i], overtaken |-> FALSE]]
    /\ UNCHANGED <<upstream, changes, store, fetcher, served, lost>>

\* ... and stores its result under the tag of that schema ...
StoreResult(i) ==
    /\ flight[i] # NoQuery
    /\ results' = results \cup {flight[i]}
    /\ flight' = [flight EXCEPT ![i] = NoQuery]
    /\ UNCHANGED <<upstream, changes, cached, fetcher, served, lost>>

\* ... or does not store it.
DropQuery(i) ==
    /\ flight[i] # NoQuery
    /\ flight' = [flight EXCEPT ![i] = NoQuery]
    /\ UNCHANGED <<upstream, changes, store, fetcher, served, lost>>

\* The instance is stopped between two fetches, or at any moment.
Stop(i) ==
    /\ stage[i] # "down"
    /\ Crashes \/ stage[i] = "ready"
    /\ Halt(i)
    /\ UNCHANGED <<upstream, changes, store>>

UpstreamChanges ==
    /\ changes < MaxChanges
    /\ \E s \in Schemas \ {upstream} : upstream' = s
    /\ changes' = changes + 1
    /\ UNCHANGED <<store, fetcher, served, flight, lost>>

\* A result expires or is evicted.
Expire ==
    /\ \E r \in results : results' = results \ {r}
    /\ UNCHANGED <<upstream, changes, cached, fetcher, served, flight, lost>>

Fetching(i) ==
    \/ LoadCached(i) \/ LoadNothing(i)
    \/ Introspect(i) \/ IntrospectFails(i)
    \/ Keep(i) \/ KeepFails(i)
    \/ ConvertFails(i) \/ First(i) \/ Unchanged(i) \/ Changed(i)
    \/ PurgeOld(i) \/ PurgeFails(i)
    \/ TickInterval(i)

Next ==
    \/ \E i \in Instances : Fetching(i)
    \/ \E i \in Instances : Start(i) \/ Stop(i)
    \/ \E i \in Instances : BeginQuery(i) \/ StoreResult(i) \/ DropQuery(i)
    \/ UpstreamChanges
    \/ Expire

Spec == Init /\ [][Next]_vars

\* The loop of a running instance runs, and introspection and the store do not
\* fail for ever.
FairSpec ==
    /\ Spec
    /\ \A i \in Instances :
          /\ WF_vars(Fetching(i))
          /\ SF_vars(Introspect(i)) /\ SF_vars(Keep(i))

-----------------------------------------------------------------------------
\* With a single instance no result of a replaced schema is forgotten: one that
\* no purge overtook has a schema that the running fetcher holds, and will
\* compare and purge when it fetches another, or that is cached, so that the next
\* Provision holds it.  The exceptions, kept in lost: a purge that failed, cached
\* data that could not be read, and an instance that stopped after it had cached
\* other data.  It spans the upstream's changes, the two fetches of Provision,
\* requests in flight and restarts (schemaChanged, onSchemaChanged).
OldResultsTracked ==
    \A r \in results : ~r.overtaken =>
        \/ r.schema \in lost \cup {cached}
        \/ \E i \in Instances : schema[i] = r.schema

\* Introspection data that does not convert never replaces a schema: what an
\* instance serves with, once provisioned, is a schema the upstream had and
\* that converted (the error returns of fetchByIntrospectionData).
OnlyValidServed ==
    \A i \in Instances : phase[i] = "interval" => served[i] \in Schemas \ Broken

\* An instance that keeps running with an interval comes to serve the schema
\* that the upstream has, whatever failed on the way (startInterval).
FollowsUpstream ==
    \A i \in Instances :
        []<>(stage[i] = "down" \/ upstream \in Broken \/ served[i] = upstream)

-----------------------------------------------------------------------------
(***************************************************************************)
(* What the repository says and the code does not do.                      *)
(***************************************************************************)
\* handler.go:162 announces that all query results of an old schema are purged
\* when the schema changes; this includes a change met by the Provision of a
\* restarted instance, for which the introspection data is cached.
OldResultsPurged ==
    \A i \in Instances : phase[i] = "interval" /\ stage[i] = "ready" =>
        \A r \in results : ~r.overtaken => r.schema = served[i]
=============================================================================
