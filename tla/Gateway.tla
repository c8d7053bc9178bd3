------------------------------- MODULE Gateway -------------------------------
(***************************************************************************)
(* A gbox handler in service, as its clients see it: the router and the    *)
(* GraphQL over HTTP pipeline (router.go, utils.go, complexity.go), the    *)
(* websocket connections it listens to (ws.go), the gauge of operations in *)
(* flight that both keep (metrics.go), the admin API, and the changes of   *)
(* the schema that come while they work (handler.go).                      *)
(*                                                                         *)
(* Schemas are versions 1 .. LastSchema of which each replaces the one     *)
(* before it.  The cache is what its clients can tell of it: which results *)
(* it holds.  A purge of it is one step here, ages and the refresh of stale *)
(* results are left out; ResultCache has them.                             *)
(***************************************************************************)
EXTENDS AdminApi, Integers, FiniteSets

CONSTANTS
    Clients,       \* each sends requests, opens connections or administers
    LastSchema,
    Settings,      \* of a handler: [caching, auto_invalidate, introspection, complexity]
    Operations,    \* what the bodies of requests unmarshal to
    Chunks,        \* what a websocket connection reads at once: sequences of frames
    AdminDocs,     \* the admin's requests: sequences of fields
    MaxLost,       \* bound: connections whose upstream is gone when they write
    None

Versions == 1 .. LastSchema

ASSUME ClientsAssumption == IsFiniteSet(Clients)
ASSUME SchemasAssumption == LastSchema \in Nat \ {0}
ASSUME NoneAssumption == None \notin Operations
ASSUME ChunksAssumption ==
    \A chunk \in Chunks : chunk \in Seq([op : Operations \cup {None}, whole : BOOLEAN])
ASSUME FieldsAssumption ==
    \A fields \in AdminDocs :
        /\ fields \in Seq(ToSet(fields))
        /\ \A i \in DOMAIN fields : fields[i].does \in PurgeFields \cup PlainFields

\* An operation is a record [type, names, asked, fits, introspects, size, tags]:
\* its type, the names of the operations in its document, the name asked for,
\* the schemas it normalizes under, whether it is an introspection, its
\* measures [depth, nodes, complexity] and the tags of its results.
NoName == ""

VARIABLES
    conf,         \* the handler's settings
    schema,       \* Handler.schema ...
    document,     \* ... and Handler.schemaDocument
    change,       \* a run of onSchemaChanged: [step, to]
    http,         \* each client's request
    conn,         \* each client's websocket connection
    admin,        \* each client's admin request
    inFlight,     \* the gauge operationInFlight, by labels
    lost,         \* connections that ended without a read that fails, by labels
    cache         \* the results in the store: [op, schema, document, tagged]

vars == <<conf, schema, document, change, http, conn, admin, inFlight, lost, cache>>

-----------------------------------------------------------------------------
\* normalizeGraphqlRequest
OperationName(op) ==
    IF op.asked = NoName /\ Len(op.names) = 1 THEN op.names[1] ELSE op.asked

Normalizes(op, version) ==
    /\ version \in op.fits
    /\ op.asked # NoName \/ Len(op.names) <= 1
    /\ OperationName(op) \in ToSet(op.names)

\* Complexity.validateRequest, for the limits that are set.
WithinLimits(op, limits) ==
    \A measure \in DOMAIN limits : limits[measure] > 0 => op.size[measure] <= limits[measure]

\* validateGraphqlRequest
Accepts(op) ==
    /\ op.introspects => conf.introspection
    /\ \A limits \in conf.complexity : WithinLimits(op, limits)

\* CalculateComplexity may not know what to do with fields that the schema,
\* another one by now, does not have.
MeasureFails(op) == conf.complexity # {} /\ schema \notin op.fits

\* metricsOperationLabels, of a normalized request.
Labels(op) == <<op.type, OperationName(op)>>
AllLabels == {Labels(op) : op \in Operations}

CountedIn(op) == [inFlight EXCEPT ![Labels(op)] = @ + 1]
CountedOut(op) == [inFlight EXCEPT ![Labels(op)] = @ - 1]

\* initRouter, as far as its handlers are modelled.
Routes(settings) ==
    {"/graphql", "websocket"} \cup (IF settings.caching THEN {"/admin/graphql"} ELSE {})

NoRequest == [at |-> "idle", op |-> None, norm |-> 0, document |-> 0, schema |-> 0, overlapped |-> FALSE]
NoConn == [at |-> "idle", link |-> FALSE, request |-> None, seen |-> None, refused |-> FALSE]
NoAdmin == [at |-> "idle", schema |-> 0, fields |-> <<>>, values |-> <<>>, purged |-> <<>>, data |-> Null]

\* A client does one thing at a time, and then it has done with the admin's answer.
Idle(c) == http[c].at = "idle" /\ conn[c].at = "idle" /\ admin[c].at \in {"idle", "answered"}
Forget(c) == admin' = [admin EXCEPT ![c] = NoAdmin]

Init ==
    /\ conf \in Settings
    /\ schema = 1 /\ document = 1
    /\ change = [step |-> "none", to |-> 1]
    /\ http = [c \in Clients |-> NoRequest]
    /\ conn = [c \in Clients |-> NoConn]
    /\ admin = [c \in Clients |-> NoAdmin]
    /\ inFlight = [l \in AllLabels |-> 0]
    /\ lost = [l \in AllLabels |-> 0]
    /\ cache = {}

-----------------------------------------------------------------------------
\* onSchemaChanged: two assignments that nothing guards, then the purge by the
\* old schema.
Overlapped ==
    [c \in Clients |-> IF http[c].at \in {"normalized", "binding"}
                       THEN [http[c] EXCEPT !.overlapped = TRUE] ELSE http[c]]

\* Mutant: the document first.
AssignFirstSwapped(to) == document' = to /\ UNCHANGED schema
AssignFirst(to) == schema' = to /\ UNCHANGED document
AssignSecond(to) == schema' = to /\ document' = to

SchemaChanges ==
    /\ change.step = "none" /\ change.to < LastSchema
    /\ change' = [step |-> "assigning", to |-> change.to + 1]
    /\ AssignFirst(change.to + 1)
    /\ http' = Overlapped
    /\ UNCHANGED <<conf, conn, admin, inFlight, lost, cache>>

DocumentChanges ==
    /\ change.step = "assigning"
    /\ AssignSecond(change.to)
    /\ change' = [change EXCEPT !.step = IF conf.caching THEN "purging" ELSE "none"]
    /\ http' = Overlapped
    /\ UNCHANGED <<conf, conn, admin, inFlight, lost, cache>>

Key(e) == <<e.op, e.schema>>
Keys(results) == {Key(e) : e \in results}

\* A result is in the store's index under its tags from when it is kept on.  One
\* that was purged and put back may or may not still be (tagged is FALSE then).
TagsOf(e) == e.op.tags \cup {<<"schema", e.schema>>, <<"operation", OperationName(e.op)>>}
Tagged(tag) == {e \in cache : tag \in TagsOf(e) /\ e.tagged}
PutBack(tag) == {e \in cache : tag \in TagsOf(e) /\ ~e.tagged}

\* The purge by a tag: every result that is tagged so, or, when the store fails
\* on the way, some of them.
Purged(tag) == \E more \in SUBSET PutBack(tag) : cache' = cache \ (Tagged(tag) \cup more)
PurgeFails(tag) == \E gone \in SUBSET (Tagged(tag) \cup PutBack(tag)) : cache' = cache \ gone
Purge(tag) == Purged(tag) \/ PurgeFails(tag)

OldPurged ==
    /\ change.step = "purging"
    /\ change' = [change EXCEPT !.step = "none"]
    /\ Purge(<<"schema", change.to - 1>>)
    /\ UNCHANGED <<conf, schema, document, http, conn, admin, inFlight, lost>>

-----------------------------------------------------------------------------
\* ServeHTTP and GraphQLHandle, as far as unmarshalHTTPRequest, which takes the
\* schema of this moment.  A request that fails by then is answered at once.
Receive(c, op) ==
    /\ "/graphql" \in Routes(conf) /\ Idle(c) /\ Forget(c)
    /\ http' = IF Normalizes(op, schema)
               THEN [http EXCEPT ![c] = [NoRequest EXCEPT !.at = "normalized", !.op = op, !.norm = schema,
                                                         !.overlapped = change.step = "assigning"]]
               ELSE http
    /\ UNCHANGED <<conf, schema, document, change, conn, inFlight, lost, cache>>

\* The schema no longer matters to it.
Forwarded(r) == [NoRequest EXCEPT !.at = "upstream", !.op = r.op]

\* Mutant: the begin of an operation is not counted.
ValidateUncounted(c) ==
    /\ http[c].at = "normalized" /\ Accepts(http[c].op)
    /\ http' = [http EXCEPT ![c] = IF conf.caching THEN [@ EXCEPT !.at = "binding", !.document = document]
                                                   ELSE Forwarded(@)]
    /\ UNCHANGED <<conf, schema, document, change, conn, admin, inFlight, lost, cache>>

\* validateGraphqlRequest, with the schema of its moment; then the gauge, and the
\* first argument of newCachingRequest.
Validate(c) ==
    /\ http[c].at = "normalized" /\ Accepts(http[c].op)
    /\ inFlight' = CountedIn(http[c].op)
    /\ http' = [http EXCEPT ![c] = IF conf.caching THEN [@ EXCEPT !.at = "binding", !.document = document]
                                                   ELSE Forwarded(@)]
    /\ UNCHANGED <<conf, schema, document, change, conn, admin, lost, cache>>

ValidateFails(c) ==
    /\ http[c].at = "normalized"
    /\ ~Accepts(http[c].op) \/ MeasureFails(http[c].op)
    /\ http' = [http EXCEPT ![c] = NoRequest]
    /\ UNCHANGED <<conf, schema, document, change, conn, admin, inFlight, lost, cache>>

\* The second one.
BindSchema(c) ==
    /\ http[c].at = "binding"
    /\ http' = [http EXCEPT ![c].at = "bound", ![c].schema = schema]
    /\ UNCHANGED <<conf, schema, document, change, conn, admin, inFlight, lost, cache>>

\* The answer is written, and the deferred addMetricsEndRequest runs.
Ends(c) ==
    /\ http' = [http EXCEPT ![c] = NoRequest]
    /\ inFlight' = CountedOut(http[c].op)

HasNoPlan(r) ==
    \/ r.op.type = "subscription"
    \/ r.op.type = "query" /\ r.document \notin r.op.fits

\* Mutant: a request that caching refuses is not counted out.
RefuseUncounted(c) ==
    /\ http[c].at = "bound"
    /\ HasNoPlan(http[c])
    /\ http' = [http EXCEPT ![c] = NoRequest]
    /\ UNCHANGED <<conf, schema, document, change, conn, admin, inFlight, lost, cache>>

\* HandleRequest has an error for a subscription, and for a query without a
\* cached plan if the document, another one than it passed, does not fit it.
Refuse(c) ==
    /\ http[c].at = "bound"
    /\ HasNoPlan(http[c])
    /\ Ends(c)
    /\ UNCHANGED <<conf, schema, document, change, conn, admin, lost, cache>>

\* resolvePlan reads the result ...
Hit(c) ==
    /\ http[c].at = "bound" /\ http[c].op.type = "query"
    /\ \E e \in cache :
          /\ e.op = http[c].op /\ e.schema = http[c].schema
          /\ http' = [http EXCEPT ![c] = [NoRequest EXCEPT !.at = "hit", !.op = e.op,
                                                           !.schema = e.schema, !.document = e.document]]
    /\ UNCHANGED <<conf, schema, document, change, conn, admin, inFlight, lost, cache>>

Result(r, tagged) == [op |-> r.op, schema |-> r.schema, document |-> r.document, tagged |-> tagged]

\* A result that is stored replaces the one under its key.
Stored(result) == cache' = {e \in cache : Key(e) # Key(result)} \cup {result}

\* ... and stores it again with one more HitTime and without tags
\* (increaseQueryResultHitTimes), also if it was purged in between; it is in the
\* index, then, if one that was stored with tags is there to be replaced ...
StillTagged(r) == \E e \in cache : Key(e) = Key(r) /\ e.tagged

CountHit(c) ==
    /\ http[c].at = "hit"
    /\ Stored(Result(http[c], StillTagged(http[c])))
    /\ Ends(c)
    /\ UNCHANGED <<conf, schema, document, change, conn, admin, lost>>

\* ... or fails to, which is logged.  The hit is answered in both cases.
CountHitFails(c) ==
    /\ http[c].at = "hit"
    /\ Ends(c)
    /\ UNCHANGED <<conf, schema, document, change, conn, admin, lost, cache>>

\* A query that misses, one that passes or whose result cannot be tagged, or a
\* mutation.
Forward(c) ==
    /\ http[c].at = "bound" /\ http[c].op.type # "subscription"
    /\ \/ /\ http[c].op.type = "query" /\ http[c].document \in http[c].op.fits
          /\ http' = [http EXCEPT ![c].at = "missed"]
       \/ http' = [http EXCEPT ![c] = Forwarded(@)]
    /\ UNCHANGED <<conf, schema, document, change, conn, admin, inFlight, lost, cache>>

\* The upstream answers or fails.
Answer(c) ==
    /\ http[c].at \in {"upstream", "missed"}
    /\ Ends(c)
    /\ UNCHANGED <<conf, schema, document, change, conn, admin, lost, cache>>

\* The upstream's answer is stored with its tags: a new result.
Keep(c) ==
    /\ http[c].at = "missed"
    /\ Ends(c)
    /\ Stored(Result(http[c], TRUE))
    /\ admin' = [a \in Clients |-> [admin[a] EXCEPT !.purged = [i \in DOMAIN @ |-> @[i] \ {Key(http[c])}]]]
    /\ UNCHANGED <<conf, schema, document, change, conn, lost>>

\* A mutation's answer purges what it shows.
Invalidate(c) ==
    /\ http[c].at = "upstream" /\ http[c].op.type = "mutation"
    /\ conf.caching /\ conf.auto_invalidate
    /\ Ends(c)
    /\ \E tag \in http[c].op.tags : Purge(tag)
    /\ UNCHANGED <<conf, schema, document, change, conn, admin, lost>>

-----------------------------------------------------------------------------
\* AdminGraphQLHandle makes a resolver with the schema of this moment.
AdminReceive(c, fields) ==
    /\ "/admin/graphql" \in Routes(conf) /\ Idle(c)
    /\ admin' = [admin EXCEPT ![c] = [NoAdmin EXCEPT !.at = "running", !.schema = schema, !.fields = fields]]
    /\ UNCHANGED <<conf, schema, document, change, http, conn, inFlight, lost, cache>>

\* What hits have read and are about to store again.
Held == {Key(http[c]) : c \in {d \in Clients : http[d].at = "hit"}}

\* The next field.  What it claims to have purged is noted down.
Runs(c, keys, value) ==
    admin' = [admin EXCEPT ![c].values = Append(@, value),
                           ![c].purged = Append(@, IF value = TRUE THEN keys ELSE {})]

NextField(c) == admin[c].fields[Len(admin[c].values) + 1]

AdminField(c) ==
    /\ admin[c].at = "running" /\ Len(admin[c].values) < Len(admin[c].fields)
    /\ LET field == NextField(c)
           tag == TagOf(field, <<"schema", admin[c].schema>>)
           keys == Keys(Tagged(tag)) \ Held
       IN  \/ /\ field.does \in PlainFields
              /\ Runs(c, {}, Text) /\ UNCHANGED cache
           \/ /\ field.does \in PurgeFields
              /\ Purged(tag) /\ Runs(c, keys, Resolved(field, TRUE))
           \/ /\ field.does \in PurgeFields
              /\ PurgeFails(tag) /\ Runs(c, keys, Resolved(field, FALSE))
    /\ UNCHANGED <<conf, schema, document, change, http, conn, inFlight, lost>>

AdminAnswer(c) ==
    /\ admin[c].at = "running" /\ Len(admin[c].values) = Len(admin[c].fields)
    /\ admin' = [admin EXCEPT ![c].at = "answered", ![c].data = Data(admin[c].values)]
    /\ UNCHANGED <<conf, schema, document, change, http, conn, inFlight, lost, cache>>

-----------------------------------------------------------------------------
\* GraphQLOverWebsocketHandle and Hijack.  From here on the reverse proxy copies
\* what Read returns to the upstream, until Read or the writing fails; when the
\* copying ends in one direction, it closes both connections.
Upgrade(c) ==
    /\ "websocket" \in Routes(conf) /\ Idle(c)
    /\ conn' = [conn EXCEPT ![c] = [NoConn EXCEPT !.at = "reading", !.link = TRUE]]
    /\ Forget(c)
    /\ UNCHANGED <<conf, schema, document, change, http, inFlight, lost, cache>>

\* wsConn.Read scans what it has read for a whole frame that subscribes, up to
\* the first frame that is not whole.
Subscriptions(chunk) ==
    {i \in DOMAIN chunk : chunk[i].op # None /\ \A j \in 1 .. i : chunk[j].whole}
FirstOp(chunk) == chunk[CHOOSE i \in Subscriptions(chunk) : \A j \in Subscriptions(chunk) : i <= j].op

\* There is nothing to look at, or it has accepted a subscription before.
Read(c, chunk) ==
    /\ conn[c].at = "reading" /\ conn[c].link
    /\ conn[c].request # None \/ Subscriptions(chunk) = {}
    /\ conn' = [conn EXCEPT ![c].at = "writing"]
    /\ UNCHANGED <<conf, schema, document, change, http, admin, inFlight, lost, cache>>

\* Mutant: the refused connection is read on.
RefusedWithoutEOF(c) == conn' = [conn EXCEPT ![c].at = "writing", ![c].refused = TRUE, ![c].seen = None]

Refused(c) == conn' = [conn EXCEPT ![c].at = "last", ![c].refused = TRUE, ![c].seen = None]

\* onWsSubscribe: normalize ...
ReadSubscribe(c, chunk) ==
    /\ conn[c].at = "reading" /\ conn[c].link
    /\ conn[c].request = None /\ Subscriptions(chunk) # {}
    /\ IF Normalizes(FirstOp(chunk), schema)
       THEN conn' = [conn EXCEPT ![c].at = "checking", ![c].seen = FirstOp(chunk)]
       ELSE Refused(c)
    /\ UNCHANGED <<conf, schema, document, change, http, admin, inFlight, lost, cache>>

\* ... validate and count ...
Subscribe(c) ==
    /\ conn[c].at = "checking" /\ Accepts(conn[c].seen)
    /\ conn' = [conn EXCEPT ![c].at = "writing", ![c].request = conn[c].seen, ![c].seen = None]
    /\ inFlight' = CountedIn(conn[c].seen)
    /\ UNCHANGED <<conf, schema, document, change, http, admin, lost, cache>>

\* ... or write an error and a complete message and return what was read with
\* io.EOF: the proxy copies it, and no more.
SubscribeFails(c) ==
    /\ conn[c].at = "checking"
    /\ ~Accepts(conn[c].seen) \/ MeasureFails(conn[c].seen)
    /\ Refused(c)
    /\ UNCHANGED <<conf, schema, document, change, http, admin, inFlight, lost, cache>>

Written(c) ==
    /\ conn[c].at = "writing"
    /\ conn' = [conn EXCEPT ![c].at = "reading"]
    /\ UNCHANGED <<conf, schema, document, change, http, admin, inFlight, lost, cache>>

\* The upstream is gone: nobody reads from the connection again.
WriteFails(c) ==
    /\ conn[c].at = "writing"
    /\ conn' = [conn EXCEPT ![c] = NoConn]
    /\ IF conn[c].request = None THEN UNCHANGED lost
       ELSE LET l == Labels(conn[c].request)
            IN  lost[l] < MaxLost /\ lost' = [lost EXCEPT ![l] = @ + 1]
    /\ UNCHANGED <<conf, schema, document, change, http, admin, inFlight, cache>>

LastWritten(c) ==
    /\ conn[c].at = "last"
    /\ conn' = [conn EXCEPT ![c] = NoConn]
    /\ UNCHANGED <<conf, schema, document, change, http, admin, inFlight, lost, cache>>

\* The connection is read and fails, since the client has left or the proxy has
\* closed it: onWsClose.
ReadFails(c) ==
    /\ conn[c].at = "reading"
    /\ conn' = [conn EXCEPT ![c] = NoConn]
    /\ inFlight' = IF conn[c].request = None THEN inFlight ELSE CountedOut(conn[c].request)
    /\ UNCHANGED <<conf, schema, document, change, http, admin, lost, cache>>

\* The other direction ends, and the proxy closes both connections.
LinkCloses(c) ==
    /\ conn[c].at # "idle" /\ conn[c].link
    /\ conn' = [conn EXCEPT ![c].link = FALSE]
    /\ UNCHANGED <<conf, schema, document, change, http, admin, inFlight, lost, cache>>

-----------------------------------------------------------------------------
HttpStep(c) ==
    \/ Validate(c) \/ ValidateFails(c) \/ BindSchema(c)
    \/ Refuse(c) \/ Hit(c) \/ CountHit(c) \/ CountHitFails(c) \/ Forward(c) \/ Answer(c) \/ Keep(c) \/ Invalidate(c)

ConnStep(c) ==
    \/ Subscribe(c) \/ SubscribeFails(c)
    \/ Written(c) \/ WriteFails(c) \/ LastWritten(c)

Next ==
    \/ SchemaChanges \/ DocumentChanges \/ OldPurged
    \/ \E c \in Clients :
          \/ \E op \in Operations : Receive(c, op)
          \/ HttpStep(c)
          \/ \E fields \in AdminDocs : AdminReceive(c, fields)
          \/ AdminField(c) \/ AdminAnswer(c)
          \/ Upgrade(c)
          \/ \E chunk \in Chunks : Read(c, chunk) \/ ReadSubscribe(c, chunk)
          \/ ConnStep(c) \/ ReadFails(c) \/ LinkCloses(c)

Spec == Init /\ [][Next]_vars

\* What Read and the proxy have begun goes on; a read of a closed connection
\* fails at once.  Nothing says that clients or upstreams ever do anything.
Fairness ==
    \A c \in Clients : WF_vars(ConnStep(c) \/ (~conn[c].link /\ ReadFails(c)))

FairSpec == Spec /\ Fairness

-----------------------------------------------------------------------------
Stages == {"idle", "normalized", "binding", "bound", "hit", "missed", "upstream"}

TypeOK ==
    /\ conf \in Settings
    /\ schema \in Versions /\ document \in Versions
    /\ change \in [step : {"none", "assigning", "purging"}, to : Versions]
    /\ http \in [Clients -> [at : Stages, op : Operations \cup {None}, norm : Versions \cup {0},
                             document : Versions \cup {0}, schema : Versions \cup {0}, overlapped : BOOLEAN]]
    /\ conn \in [Clients -> [at : {"idle", "reading", "checking", "writing", "last"}, link : BOOLEAN,
                             request : Operations \cup {None}, seen : Operations \cup {None}, refused : BOOLEAN]]
    /\ inFlight \in [AllLabels -> Nat] /\ lost \in [AllLabels -> Nat]
    /\ cache \subseteq [op : Operations, schema : Versions, document : Versions, tagged : BOOLEAN]
    /\ \A c \in Clients :
          /\ admin[c].at \in {"idle", "running", "answered"}
          /\ admin[c].at = "running" => ToSet(admin[c].values) \subseteq Values

Counted(c, l) ==
    \/ http[c].at \in {"binding", "bound", "hit", "missed", "upstream"} /\ Labels(http[c].op) = l
    \/ conn[c].request # None /\ Labels(conn[c].request) = l

\* The gauge shows the requests that were accepted and are not answered, and
\* the websocket connections that have subscribed, of each type and name:
\* refused ones, whoever refuses them, and those that are over leave no trace in
\* it, but for the connections of which the proxy did not read to the end.
\* (addMetricsBeginRequest, addMetricsEndRequest and their callers)
GaugeShowsWork ==
    \A l \in AllLabels : inFlight[l] = Cardinality({c \in Clients : Counted(c, l)}) + lost[l]

\* A result is never kept under a schema older than the document that tagged it
\* or than the schema that the request passed; if no assignment of
\* onSchemaChanged fell into the request's time, the three are one.
\* (onSchemaChanged writes the schema first, GraphQLHandle reads it last)
SchemasAgree ==
    /\ \A e \in cache : e.document <= e.schema
    /\ \A c \in Clients :
          http[c].at \in {"bound", "missed"} =>
              /\ http[c].norm <= http[c].schema /\ http[c].document <= http[c].schema
              /\ ~http[c].overlapped => http[c].norm = http[c].schema /\ http[c].document = http[c].schema

\* An admin who is told that a purge succeeded finds none of the results that
\* it was to reach, unless they have been made anew since, or a hit that had
\* read them before the purge has put them back; and no data comes back if that
\* cannot be told of every field.
\* (the resolvers' return values, _Mutation's count of invalid fields, and
\* increaseQueryResultHitTimes)
AdminTold ==
    \A c \in Clients :
        LET a == admin[c]
        IN  a.at = "answered" =>
                \/ /\ a.data = Null
                   /\ \E i \in DOMAIN a.fields : a.fields[i].does = "purgeType" /\ a.values[i] = Null
                \/ /\ a.data = a.values /\ Len(a.data) = Len(a.fields)
                   /\ \A i \in DOMAIN a.data : a.data[i] = TRUE => a.purged[i] \cap Keys(cache) = {}

\* A connection whose subscription was refused, or whose other end has gone, is
\* given up (wsConn.Read returns io.EOF with the refused frame).
ConnectionsEnd ==
    \A c \in Clients : (conn[c].refused \/ (conn[c].at # "idle" /\ ~conn[c].link)) ~> conn[c].at = "idle"
=============================================================================
