-------------------------- MODULE SchemaFetcherProofs --------------------------
(***************************************************************************)
(* Whatever fails, a provisioned instance serves with a schema that the    *)
(* upstream had and that converted; and a single instance forgets no       *)
(* result of a schema that it replaced.                                    *)
(***************************************************************************)
EXTENDS SchemaFetcher, TLAPS

\* What an instance has in its hands at its stage and phase.
Handed ==
    \A i \in Instances :
        /\ stage[i] \in {"keep", "convert", "purge"} => data[i] \in Schemas
        /\ stage[i] = "purge" => /\ schema[i] # NoSchema
                                 /\ served[i] = data[i]
        /\ stage[i] # "purge" => served[i] = schema[i]
        /\ stage[i] = "ready" => phase[i] = "interval"
        /\ phase[i] = "cache" => schema[i] = NoSchema
        /\ phase[i] = "interval" => schema[i] # NoSchema
        /\ served[i] \notin Broken
        /\ served[i] = NoSchema => schema[i] = NoSchema

Inv == TypeOK /\ Handed

\* What a result, stored or in flight, can be found by.
TrackedBy(s, i) == s \in lost \cup {cached, schema[i]}

\* The only instance converts and purges by what is cached, and it keeps track of
\* the results in the store and in its hands.
Tracked ==
    \A i \in Instances :
        /\ stage[i] \in {"convert", "purge"} => data[i] = cached
        /\ \A r \in results : ~r.overtaken => TrackedBy(r.schema, i)
        /\ flight[i] # NoQuery /\ ~flight[i].overtaken => TrackedBy(flight[i].schema, i)

Alone == \E i : Instances = {i}

-----------------------------------------------------------------------------
LEMMA InitHolds == Init => Inv
  BY SchemaAssumption DEF Init, Inv, TypeOK, Handed, Stages

\* An instance that goes down leaves nothing behind but what is lost.
LEMMA HaltKeeps ==
    ASSUME Inv, NEW i \in Instances, Halt(i), UNCHANGED <<upstream, changes, store>>
    PROVE  Inv'
  <1>1. TypeOK'
    BY DEF Halt, Goto, Inv, TypeOK, Stages, store
  <1>2. Handed'
    BY SchemaAssumption DEF Halt, Goto, Inv, TypeOK, Handed
  <1> QED
    BY <1>1, <1>2 DEF Inv

LEMMA ErrorKeeps ==
    ASSUME Inv, NEW i \in Instances, FetchError(i), stage[i] # "purge", UNCHANGED <<upstream, changes, store>>
    PROVE  Inv'
  <1>1. CASE phase[i] = "interval"
    <2>1. TypeOK'
      BY <1>1 DEF FetchError, Goto, Inv, TypeOK, Stages, store
    <2>2. Handed'
      BY <1>1 DEF FetchError, Goto, Inv, TypeOK, Handed
    <2> QED
      BY <2>1, <2>2 DEF Inv
  <1>2. CASE phase[i] # "interval"
    BY <1>2, HaltKeeps DEF FetchError
  <1> QED
    BY <1>1, <1>2

\* The steps of a fetch up to the conversion.
LEMMA GetKeeps ==
    ASSUME Inv, NEW i \in Instances,
           Start(i) \/ LoadCached(i) \/ LoadNothing(i) \/ Introspect(i) \/ Keep(i) \/ TickInterval(i)
    PROVE  Inv'
  <1>1. TypeOK'
    <2>1. CASE Keep(i)
      BY <2>1 DEF Keep, Goto, Inv, TypeOK, Stages, Handed
    <2>2. CASE Start(i) \/ LoadCached(i) \/ LoadNothing(i) \/ Introspect(i) \/ TickInterval(i)
      BY <2>2 DEF Start, LoadCached, LoadNothing, Introspect, TickInterval, Goto, Inv, TypeOK, Stages, store
    <2> QED
      BY <2>1, <2>2
  <1>2. Handed'
    BY DEF Start, LoadCached, LoadNothing, Introspect, Keep, TickInterval, Goto, Inv, TypeOK, Handed
  <1> QED
    BY <1>1, <1>2 DEF Inv

\* The conversion hands the schema on.
LEMMA ConvertKeeps ==
    ASSUME Inv, NEW i \in Instances, First(i) \/ Unchanged(i) \/ Changed(i)
    PROVE  Inv'
  <1>1. data[i] \in Schemas
    BY DEF First, Unchanged, Changed, Inv, Handed
  <1>2. TypeOK'
    BY <1>1 DEF First, Unchanged, Changed, Fetched, Goto, Inv, TypeOK, Stages, store
  <1>3. Handed'
    BY <1>1, SchemaAssumption DEF First, Unchanged, Changed, Fetched, Goto, Inv, TypeOK, Handed
  <1> QED
    BY <1>2, <1>3 DEF Inv

LEMMA PurgeKeeps ==
    ASSUME Inv, NEW i \in Instances, PurgeOld(i) \/ PurgeFails(i)
    PROVE  Inv'
  <1>1. data[i] \in Schemas /\ schema[i] \in Schemas
    BY DEF PurgeOld, PurgeFails, Inv, TypeOK, Handed
  <1>2. flight' \in [Instances -> Result \cup {NoQuery}]
    <2>1. ASSUME NEW r \in Result
          PROVE  [r EXCEPT !.overtaken = TRUE] \in Result
      BY DEF Result
    <2>2. CASE PurgeOld(i)
      BY <2>1, <2>2 DEF PurgeOld, Inv, TypeOK
    <2>3. CASE PurgeFails(i)
      BY <2>3 DEF PurgeFails, Inv, TypeOK
    <2> QED
      BY <2>2, <2>3
  <1>3. TypeOK'
    BY <1>1, <1>2 DEF PurgeOld, PurgeFails, Fetched, Goto, Inv, TypeOK, Stages, store
  <1>4. Handed'
    BY <1>1 DEF PurgeOld, PurgeFails, Fetched, Goto, Inv, TypeOK, Handed
  <1> QED
    BY <1>3, <1>4 DEF Inv

\* Queries, the upstream and the store's own doing.
LEMMA OthersKeep ==
    ASSUME Inv,
           \/ \E i \in Instances : BeginQuery(i) \/ StoreResult(i) \/ DropQuery(i)
           \/ UpstreamChanges \/ Expire \/ UNCHANGED vars
    PROVE  Inv'
  <1>1. CASE \E i \in Instances : BeginQuery(i)
    <2>1. PICK i \in Instances : BeginQuery(i)
      BY <1>1
    <2>2. [schema |-> served[i], overtaken |-> FALSE] \in Result
      BY <2>1 DEF BeginQuery, Inv, TypeOK, Handed, Result
    <2> QED
      BY <2>1, <2>2 DEF BeginQuery, Inv, TypeOK, Handed, store, fetcher
  <1>2. CASE \E i \in Instances : StoreResult(i) \/ DropQuery(i)
    <2>1. TypeOK'
      BY <1>2 DEF StoreResult, DropQuery, Inv, TypeOK, store, fetcher
    <2>2. Handed'
      BY <1>2 DEF StoreResult, DropQuery, Inv, Handed, store, fetcher
    <2> QED
      BY <2>1, <2>2 DEF Inv
  <1>3. CASE UpstreamChanges \/ Expire \/ UNCHANGED vars
    BY <1>3, SchemaAssumption DEF UpstreamChanges, Expire, vars, Inv, TypeOK, Handed, store, fetcher
  <1> QED
    BY <1>1, <1>2, <1>3

LEMMA StepKeeps == Inv /\ [Next]_vars => Inv'
  <1> SUFFICES ASSUME Inv, [Next]_vars
               PROVE  Inv'
    OBVIOUS
  <1>1. ASSUME NEW i \in Instances, Fetching(i)
        PROVE  Inv'
    <2>1. CASE IntrospectFails(i) \/ KeepFails(i) \/ ConvertFails(i)
      BY <2>1, ErrorKeeps DEF IntrospectFails, KeepFails, ConvertFails
    <2> QED
      BY <1>1, <2>1, GetKeeps, ConvertKeeps, PurgeKeeps DEF Fetching
  <1>2. ASSUME NEW i \in Instances, Start(i) \/ Stop(i)
        PROVE  Inv'
    BY <1>2, GetKeeps, HaltKeeps DEF Stop
  <1> QED
    BY <1>1, <1>2, OthersKeep DEF Next

-----------------------------------------------------------------------------
LEMMA TrackedInit == Init => Tracked
  BY DEF Init, Tracked

\* What goes on around the results: schemas change hands, and every one that is
\* let go is cached or lost.
LEMMA TrackedKept ==
    ASSUME Inv, Tracked, Alone, NEW i \in Instances,
           results' \subseteq results, flight'[i] \in {flight[i], NoQuery},
           stage'[i] \in {"convert", "purge"} => data'[i] = cached',
           \A s \in Schemas : TrackedBy(s, i) => TrackedBy(s, i)'
    PROVE  Tracked'
  <1> SUFFICES ASSUME NEW j \in Instances
               PROVE  /\ stage'[j] \in {"convert", "purge"} => data'[j] = cached'
                      /\ \A r \in results' : ~r.overtaken => TrackedBy(r.schema, j)'
                      /\ flight'[j] # NoQuery /\ ~flight'[j].overtaken => TrackedBy(flight[j].schema, j)'
    BY DEF Tracked
  <1>1. j = i
    BY DEF Alone
  <1>2. \A r \in results : r.schema \in Schemas
    BY DEF Inv, TypeOK, Result
  <1>3. flight[i] # NoQuery => flight[i].schema \in Schemas
    BY DEF Inv, TypeOK, Result
  <1> QED
    BY <1>1, <1>2, <1>3 DEF Tracked, TrackedBy

LEMMA TrackedFetching ==
    ASSUME Inv, Tracked, Alone, NEW i \in Instances, Fetching(i) \/ Start(i) \/ Stop(i)
    PROVE  Tracked'
  <1>1. CASE Halt(i) /\ UNCHANGED store
    BY <1>1, TrackedKept DEF Halt, Goto, TrackedBy, Inv, TypeOK, store
  <1>2. CASE FetchError(i) /\ UNCHANGED store
    BY <1>1, <1>2, TrackedKept DEF FetchError, Goto, TrackedBy, Inv, TypeOK, store
  <1>3. CASE Start(i) \/ LoadCached(i) \/ LoadNothing(i) \/ Introspect(i) \/ TickInterval(i)
    BY <1>3, TrackedKept DEF Start, LoadCached, LoadNothing, Introspect, TickInterval, Goto,
       TrackedBy, Inv, TypeOK, store
  <1>4. CASE Keep(i)
    BY <1>4, TrackedKept, SchemaAssumption DEF Keep, Goto, TrackedBy, Inv, TypeOK
  <1>5. CASE First(i) \/ Unchanged(i) \/ Changed(i)
    BY <1>5, TrackedKept, SchemaAssumption DEF First, Unchanged, Changed, Fetched, Goto, Tracked, TrackedBy, Inv, TypeOK, store
  <1>6. CASE PurgeFails(i)
    BY <1>6, TrackedKept DEF PurgeFails, Fetched, Goto, TrackedBy, Inv, TypeOK, store
  <1>7. CASE PurgeOld(i)
    <2>1. data[i] = cached /\ schema'[i] = cached' /\ cached' = cached /\ stage'[i] \notin {"convert", "purge"}
      BY <1>7 DEF PurgeOld, Fetched, Goto, Tracked, Inv, TypeOK
    <2>2. \A s : TrackedBy(s, i) /\ s # schema[i] => TrackedBy(s, i)'
      BY <1>7 DEF PurgeOld, TrackedBy
    <2>3. \A r \in results' : ~r.overtaken => TrackedBy(r.schema, i)'
      BY <1>7, <2>2 DEF PurgeOld, Tracked
    <2>4. flight'[i] # NoQuery /\ ~flight'[i].overtaken => TrackedBy(flight[i].schema, i)'
      <3>1. CASE flight[i] # NoQuery /\ flight[i].schema = schema[i]
        <4>1. flight[i] \in Result
          BY <3>1 DEF Inv, TypeOK
        <4>2. flight'[i] = [flight[i] EXCEPT !.overtaken = TRUE]
          BY <1>7, <3>1 DEF PurgeOld
        <4> QED
          BY <4>1, <4>2 DEF Result
      <3>2. CASE ~(flight[i] # NoQuery /\ flight[i].schema = schema[i])
        <4>1. flight'[i] = flight[i]
          BY <1>7, <3>2 DEF PurgeOld
        <4> QED
          BY <4>1, <3>2, <2>2 DEF Tracked, TrackedBy
      <3> QED
        BY <3>1, <3>2
    <2> QED
      BY <2>1, <2>3, <2>4 DEF Tracked, Alone
  <1> QED
    BY <1>1, <1>2, <1>3, <1>4, <1>5, <1>6, <1>7 DEF Fetching, Stop, IntrospectFails, KeepFails, ConvertFails

LEMMA TrackedOthers ==
    ASSUME Inv, Tracked, Alone,
           \/ \E i \in Instances : BeginQuery(i) \/ StoreResult(i) \/ DropQuery(i)
           \/ UpstreamChanges \/ Expire \/ UNCHANGED vars
    PROVE  Tracked'
  <1>1. CASE \E i \in Instances : BeginQuery(i)
    <2>1. PICK i \in Instances : BeginQuery(i)
      BY <1>1
    <2>2. TrackedBy(served[i], i)
      BY DEF Inv, Handed, Tracked, TrackedBy
    <2>3. flight'[i] = [schema |-> served[i], overtaken |-> FALSE]
      BY <2>1 DEF BeginQuery, Inv, TypeOK
    <2> QED
      BY <2>1, <2>2, <2>3 DEF BeginQuery, Tracked, TrackedBy, Alone, store, fetcher
  <1>2. CASE \E i \in Instances : StoreResult(i)
    <2>1. PICK i \in Instances : StoreResult(i)
      BY <1>2
    <2>2. flight'[i] = NoQuery /\ results' = results \cup {flight[i]} /\ flight[i] # NoQuery
      BY <2>1 DEF StoreResult, Inv, TypeOK
    <2> QED
      BY <2>1, <2>2 DEF StoreResult, Tracked, TrackedBy, Alone, fetcher
  <1>3. CASE \E i \in Instances : DropQuery(i)
    <2>1. PICK i \in Instances : DropQuery(i)
      BY <1>3
    <2>2. flight'[i] = NoQuery
      BY <2>1 DEF DropQuery, Inv, TypeOK
    <2> QED
      BY <2>1, <2>2 DEF DropQuery, Tracked, TrackedBy, Alone, fetcher, store
  <1>4. CASE UpstreamChanges \/ Expire \/ UNCHANGED vars
    BY <1>4 DEF UpstreamChanges, Expire, vars, Tracked, TrackedBy, store, fetcher
  <1> QED
    BY <1>1, <1>2, <1>3, <1>4

LEMMA TrackedStep == Inv /\ Alone /\ Tracked /\ [Next]_vars => Tracked'
  BY TrackedFetching, TrackedOthers DEF Next

-----------------------------------------------------------------------------
\* The invariant from which the others follow.
THEOREM InvariantHolds == Spec => []Inv
  BY InitHolds, StepKeeps, PTL DEF Spec

\* Every variable stays in its type, and whoever forwards a query has a schema
\* to tag its result with (Provision, schemaChanged).
THEOREM TypeCorrect == Spec => []TypeOK
  <1>1. Inv => TypeOK
    BY DEF Inv
  <1> QED
    BY <1>1, InvariantHolds, PTL

\* No instance serves with introspection data that did not convert, whatever
\* the upstream answered and the store held (fetchByIntrospectionData).
THEOREM ValidServed == Spec => []OnlyValidServed
  <1>1. Inv => OnlyValidServed
    BY DEF Inv, TypeOK, Handed, OnlyValidServed
  <1> QED
    BY <1>1, InvariantHolds, PTL

\* A single instance, over any number of restarts, keeps track of the results of
\* every schema, but for those that the model calls lost (onSchemaChanged).
THEOREM ResultsTracked == Alone => (Spec => []OldResultsTracked)
  <1> SUFFICES ASSUME Alone
               PROVE  Spec => []OldResultsTracked
    OBVIOUS
  <1>1. Tracked => OldResultsTracked
    BY DEF Alone, Tracked, TrackedBy, OldResultsTracked
  <1>2. Inv /\ Tracked /\ [Next]_vars => Tracked'
    BY TrackedStep
  <1> QED
    BY <1>1, <1>2, InvariantHolds, TrackedInit, PTL DEF Spec
=============================================================================
