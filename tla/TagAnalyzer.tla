----------------------------- MODULE TagAnalyzer -----------------------------
(***************************************************************************)
(* The result tag analyzer (caching_tag.go) and what its tags are for: the *)
(* answer of a query is stored under the tags found in it, and the answer  *)
(* of a mutation purges the results that share one of its key tags.        *)
(*                                                                         *)
(* An analysis walks the operation, field by field, over the answer.  The  *)
(* walker (graphql-go-tools) visits the fields of the normalized operation *)
(* in order, each with the type it is selected on and the aliases that     *)
(* lead to it, and ends at the first internal error.                       *)
(***************************************************************************)
EXTENDS JsonValues, Integers, FiniteSets

CONSTANTS
    Docs,          \* the operations that clients send
    Operation,     \* Operation[d]: "query" or "mutation"
    Fields,        \* Fields[d]: its fields as the walker visits them
    Answers,       \* Answers[d]: what the upstream may answer
    TypeKeys,      \* configured type keys, by type
    RuleTypes,     \* the types that the matching rules of a query may cover
    EveryType,     \* nil: the rules cover every type
    MaxStored      \* bound: results in the store

RootTypes == [query |-> "QueryTest", mutation |-> "MutationTest"]

NoDoc == "none"

\* The alias of a field, or its name if it has none, is the last of its path.
Alias(f) == Last(f.path)

\* The path of field p of d; 0 is the operation itself.
PathOf(d, p) == IF p = 0 THEN <<>> ELSE Fields[d][p].path

\* A field [on, name, path, parent] is visited after the field that it is
\* selected in, and its path goes on from there (Walker.Path).
ASSUME WalkerAssumption ==
    \A d \in Docs :
        /\ Fields[d] \in Seq([on : STRING, name : STRING, path : Seq(STRING), parent : Nat])
        /\ \A i \in DOMAIN Fields[d] :
              LET f == Fields[d][i] IN
              /\ f.parent < i
              /\ f.path = Append(PathOf(d, f.parent), Alias(f))

ASSUME DocsAssumption ==
    NoDoc \notin Docs /\ \A d \in Docs : Operation[d] \in DOMAIN RootTypes

ASSUME BoundAssumption == MaxStored \in Nat

VARIABLES
    stored,   \* the stored results
    doc,      \* the operation at hand
    only,     \* the types its rules cover
    answer,   \* what the upstream answered
    stage,    \* "idle", "walk", "found" or "failed"
    next,     \* the next field to visit
    tags      \* the tags found

vars == <<stored, doc, only, answer, stage, next, tags>>

-----------------------------------------------------------------------------
\* Tags, by prefix.
SchemaTag == <<"schema">>
OperationTag(d) == <<"operation", d>>
TypeTag(type) == <<"type", type>>
FieldTag(type, field) == <<"field", type, field>>
KeyTag(type, field, text) == <<"key", type, field, text>>

filterWithPrefix(found, prefix) == {t \in found : t[1] = prefix}

\* The key fields of a type; without a configuration it is id for all types.
KeysOf(type) == IF type \in DOMAIN TypeKeys THEN TypeKeys[type] ELSE {"id"}

\* The types whose fields are visited; the root types always are.
CoveredBy(types, type) ==
    IF types = EveryType THEN TRUE
    ELSE type \in types \cup {RootTypes[o] : o \in DOMAIN RootTypes}

\* The values that collectTypeKeyTags is at before the last step of a path.  On
\* the way it goes through lists, and what lacks the next field is skipped.
Below(nodes, name) == UNION {Spread(x.val[name]) : x \in {y \in nodes : Has(y, name)}}

Reached(path, a) ==
    LET reached[n \in 0..(Len(path) - 1)] ==
          IF n = 0 THEN Spread(a) ELSE Below(reached[n - 1], path[n])
    IN  reached[Len(path) - 1]

\* At the end, whatever is not an object, or lacks the field, is a hole.
KeyAt(x, name) == IF Has(x, name) THEN x.val[name] ELSE Null

\* Mutant: the search returns from within its loop over a list.
CollectOne(path, a) ==
    LET all == Reached(path, a)
    IN  {KeyAt(x, Last(path)) : x \in IF all = {} THEN {} ELSE {CHOOSE x \in all : TRUE}}

Collect(path, a) == {KeyAt(x, Last(path)) : x \in Reached(path, a)}

\* The values of a visited field, if it is a key of its type.
KeyValues(f, a) ==
    IF f.name \in KeysOf(f.on) THEN Collect(f.path, a) ELSE {}

\* addTagForTypeKey takes a text as it is, and of a number its whole part.
IsKey(v) == v.kind \in {"text", "number"}

KeyText(v) == IF v.kind = "text" THEN v.text ELSE v.whole

\* Mutant: keys are not told apart by type.
TagsForUntyped(f, a) ==
    {TypeTag(f.on), FieldTag(f.on, f.name)}
      \cup {KeyTag("any", Alias(f), KeyText(v)) : v \in {v \in KeyValues(f, a) : IsKey(v)}}

\* A key tag has the field's alias (path[0] of collectTypeKeyTags) for a name.
TagsFor(f, a) ==
    {TypeTag(f.on), FieldTag(f.on, f.name)}
      \cup {KeyTag(f.on, Alias(f), KeyText(v)) : v \in {v \in KeyValues(f, a) : IsKey(v)}}

HasData(a) == a.kind = "object" /\ DOMAIN a.val # {}

-----------------------------------------------------------------------------
Init ==
    /\ stored = {}
    /\ doc = NoDoc /\ only = EveryType /\ answer = Null
    /\ stage = "idle" /\ next = 1 /\ tags = {}

\* A client sends an operation and the upstream answers.  AnalyzeResult gives
\* up when there is no data; else it normalizes the operation and walks it.
\* The types of the rules matter for a query only.
AnalyzeResult(d, types, a) ==
    /\ stage = "idle"
    /\ Operation[d] = "mutation" => types = EveryType
    /\ doc' = d
    /\ only' = types
    /\ answer' = a
    /\ stage' = IF HasData(a) THEN "walk" ELSE "failed"
    /\ UNCHANGED <<stored, next, tags>>

AtField == stage = "walk" /\ next \in DOMAIN Fields[doc]

\* The field (ref) that EnterField is called with.
AtRef == Fields[doc][next]

\* EnterField on a field of a type that the rules do not cover.
SkipField ==
    /\ AtField
    /\ ~CoveredBy(only, AtRef.on)
    /\ next' = next + 1
    /\ UNCHANGED <<stored, doc, only, answer, stage, tags>>

\* Mutant: a hole is no error.
EnterFieldLenient ==
    /\ AtField
    /\ CoveredBy(only, AtRef.on)
    /\ tags' = tags \cup TagsFor(AtRef, answer)
    /\ next' = next + 1
    /\ UNCHANGED <<stored, doc, only, answer, stage>>

\* EnterField on any other field.  A key that is not a text or a number is an
\* internal error, which ends the walk.
EnterField ==
    /\ AtField
    /\ CoveredBy(only, AtRef.on)
    /\ tags' = tags \cup TagsFor(AtRef, answer)
    /\ next' = next + 1
    /\ stage' = IF \E v \in KeyValues(AtRef, answer) : ~IsKey(v) THEN "failed" ELSE stage
    /\ UNCHANGED <<stored, doc, only, answer>>

\* Mutant: the schema's tag is forgotten.
WalkDoneBare ==
    /\ stage = "walk" /\ ~AtField
    /\ stage' = "found"
    /\ tags' = tags \cup {OperationTag(doc)}
    /\ UNCHANGED <<stored, doc, only, answer, next>>

\* The walk is over; the schema's and the operation's tags are added.
WalkDone ==
    /\ stage = "walk" /\ ~AtField
    /\ stage' = "found"
    /\ tags' = tags \cup {SchemaTag, OperationTag(doc)}
    /\ UNCHANGED <<stored, doc, only, answer, next>>

Forget ==
    /\ doc' = NoDoc /\ only' = EveryType /\ answer' = Null
    /\ stage' = "idle" /\ next' = 1 /\ tags' = {}

\* cachingQueryResult stores the answer under its tags, in the place of an
\* older answer to the same query.
StoreResult ==
    /\ stage = "found" /\ Operation[doc] = "query"
    /\ Cardinality({r \in stored : r.doc # doc}) < MaxStored
    /\ stored' = {r \in stored : r.doc # doc}
                   \cup {[doc |-> doc, tags |-> tags, only |-> only, answer |-> answer]}
    /\ Forget

\* handleMutationRequest purges what shares a key tag with the answer.
PurgeResults ==
    /\ stage = "found" /\ Operation[doc] = "mutation"
    /\ LET purged == filterWithPrefix(tags, "key")
       IN  stored' = {r \in stored : r.tags \cap purged = {}}
    /\ Forget

\* An analysis that failed stores nothing and purges nothing; and a result may
\* be evicted, or not be stored for another reason.
GiveUp ==
    /\ stage \in {"found", "failed"}
    /\ Operation[doc] = "query" \/ stage = "failed"
    /\ UNCHANGED stored
    /\ Forget

Next ==
    \/ \E d \in Docs, types \in RuleTypes \cup {EveryType} :
          \E a \in Answers[d] : AnalyzeResult(d, types, a)
    \/ SkipField \/ EnterField \/ WalkDone
    \/ StoreResult \/ PurgeResults \/ GiveUp

Spec == Init /\ [][Next]_vars

-----------------------------------------------------------------------------
TypeOK ==
    /\ doc \in Docs \cup {NoDoc}
    /\ stage \in {"idle", "walk", "found", "failed"}
    /\ stage = "idle" <=> doc = NoDoc
    /\ only \in RuleTypes \cup {EveryType}
    /\ next \in Nat \ {0}
    /\ \A t \in tags : t[1] \in {"schema", "operation", "type", "field", "key"}
    /\ \A r \in stored : Operation[r.doc] = "query" /\ SchemaTag \in r.tags
    /\ IsFiniteSet(stored) /\ Cardinality(stored) <= MaxStored

(***************************************************************************)
(* What an answer shows, read along its selection and not along paths: the *)
(* keys of its objects as their real types name them.  Met(d, a)[p] is what *)
(* field p of d is in a, taken from those objects only on whose type it is *)
(* selected.                                                               *)
(***************************************************************************)
Chosen(f, x) == Has(x, Alias(f)) /\ Selects(f, x.type)

Met(d, a) ==
    LET f(p) == Fields[d][p]
        met[p \in 0..Len(Fields[d])] ==
          IF p = 0 THEN Spread(a)
          ELSE Below({x \in met[f(p).parent] : Chosen(f(p), x)}, Alias(f(p)))
    IN  met

\* The objects, or what is in their place, that field f of d is selected on.
On(d, a, f) == Met(d, a)[f.parent]

\* An answer has no field that was not selected on its object's type.
ASSUME UpstreamAssumption ==
    \A d \in Docs : \A a \in Answers[d] : \A f \in ToSet(Fields[d]) : \A x \in On(d, a, f) :
        x.kind = "object" =>
            \A name \in DOMAIN x.val :
                \E g \in ToSet(Fields[d]) : g.parent = f.parent /\ Alias(g) = name /\ Chosen(g, x)

\* Object x shows its key in field f.  "Plainly" leaves out what is selected
\* under an alias or on an abstract type.
ShowsKey(f, x, plainly) ==
    /\ Chosen(f, x) /\ f.name \in KeysOf(x.type) /\ IsKey(x.val[Alias(f)])
    /\ plainly => f.on = x.type /\ Alias(f) = f.name

Shown(d, a, plainly) ==
    UNION { {[type |-> x.type, key |-> f.name, val |-> x.val[Alias(f)]] :
                x \in {y \in On(d, a, f) : ShowsKey(f, y, plainly)}} : f \in ToSet(Fields[d]) }

SameObject(s, t) == s.type = t.type /\ s.key = t.key /\ s.val = t.val

\* Does the selection meet an object of another type, or none, where a covered
\* key is selected?
Holes(d, a, types) ==
    \E f \in ToSet(Fields[d]) : \E x \in On(d, a, f) :
        /\ f.name \in KeysOf(f.on) /\ CoveredBy(types, f.on)
        /\ ~IsKey(KeyAt(x, Alias(f)))

\* A mutation whose answer could be analyzed leaves no stored result that
\* shows one of its objects, where both select the object's key under its own
\* name and on its own type, and the rules of the result cover the type
\* (AnalyzeResult on both sides, purgeQueryResultByTags).
PurgeMeetsResults ==
    stage = "found" /\ Operation[doc] = "mutation" =>
        \A r \in stored :
            (\E s \in Shown(doc, answer, TRUE), t \in Shown(r.doc, r.answer, TRUE) :
                SameObject(s, t) /\ CoveredBy(r.only, t.type))
            => r.tags \cap filterWithPrefix(tags, "key") # {}

\* No path of d leads to fields of several types.
OnePathOneType(d) ==
    \A f, g \in ToSet(Fields[d]) : f.path = g.path => f.on = g.on

\* No two keys of a type have the same alias, one in d and the other in e.
KeepKeysApart(d, e) ==
    \A f \in ToSet(Fields[d]), g \in ToSet(Fields[e]) :
        f.on = g.on /\ Alias(f) = Alias(g) /\ {f.name, g.name} \subseteq KeysOf(f.on)
            => f.name = g.name

\* Keys of objects that no key tag tells apart.
SameKey(s, t) == s.type = t.type /\ s.key = t.key /\ KeyText(s.val) = KeyText(t.val)

\* What a mutation's answer and a stored result have in common, when the one is
\* about to purge the other, is an object: both show one of the same type and
\* with the same key.  Not told apart are numbers with the same whole part, nor
\* what is selected on an abstract type, nor operations whose paths lead to
\* several types or whose aliases disguise one key as another (title: id); in
\* these cases a mutation may purge results of other objects.
PurgesOnlyShared ==
    stage = "found" /\ Operation[doc] = "mutation" /\ OnePathOneType(doc) =>
        \A r \in stored : OnePathOneType(r.doc) /\ KeepKeysApart(doc, r.doc) =>
            \A t \in r.tags \cap filterWithPrefix(tags, "key") :
                \/ t[2] \in DOMAIN Union
                \/ \E s \in Shown(doc, answer, FALSE), u \in Shown(r.doc, r.answer, FALSE) :
                      SameKey(s, u) /\ KeyText(s.val) = t[4]

\* An analysis fails exactly when a covered key is selected where the answer
\* has no object, or one of another type: a single hole in a mutation's answer
\* keeps everything else in it from being purged (collectTypeKeyTags,
\* addTagForTypeKey).  Where a path leads to several types, it may also fail at
\* what another type's field of that path leads to.
FailsAtHoles ==
    HasData(answer) =>
        /\ stage = "found" => ~Holes(doc, answer, only)
        /\ stage = "failed" /\ OnePathOneType(doc) => Holes(doc, answer, only)

-----------------------------------------------------------------------------
\* caching.go:49 promises it of every object of a keyed type in the mutation's
\* answer, whatever alias its key has there.
MutationPurgesShown ==
    stage = "found" /\ Operation[doc] = "mutation" =>
        \A r \in stored :
            (\E s \in Shown(doc, answer, FALSE), t \in Shown(r.doc, r.answer, TRUE) :
                SameObject(s, t) /\ CoveredBy(r.only, t.type))
            => r.tags \cap filterWithPrefix(tags, "key") # {}
=============================================================================
