----------------------------- MODULE GatewayProofs -----------------------------
(***************************************************************************)
(* For any number of clients, schemas and operations: the gauge shows the  *)
(* work, requests and results agree on a schema, and admins are told the   *)
(* truth.                                                                  *)
(***************************************************************************)
EXTENDS Gateway, FiniteSetTheorems, WellFoundedInduction, TLAPS

HttpRecords ==
    [at : Stages, op : Operations \cup {None}, norm : Versions \cup {0},
     document : Versions \cup {0}, schema : Versions \cup {0}, overlapped : BOOLEAN]

ConnRecords ==
    [at : {"idle", "reading", "checking", "writing", "last"}, link : BOOLEAN,
     request : Operations \cup {None}, seen : Operations \cup {None}, refused : BOOLEAN]

AdminRecords ==
    [at : {"idle", "running", "answered"}, schema : Versions \cup {0}, fields : AdminDocs \cup {<<>>},
     values : Seq(Values), purged : Seq(SUBSET (Operations \X Versions)), data : Seq(Values) \cup {Null}]

Results == [op : Operations, schema : Versions, document : Versions, tagged : BOOLEAN]

\* A client that does one thing does nothing else, and what it does is about an
\* operation.
OneThing ==
    \A c \in Clients :
        /\ http[c].at # "idle" => http[c].op \in Operations /\ conn[c].at = "idle"
        /\ conn[c].at \in {"idle", "last", "checking"} => conn[c].request = None
        /\ conn[c].at = "checking" => conn[c].seen \in Operations

\* The store has one result under a key.
OneResult == \A e, f \in cache : Key(e) = Key(f) => e = f

Typed == TypeOK /\ admin \in [Clients -> AdminRecords] /\ OneThing /\ OneResult

\* Where the schema and its document are while they change.
Assigned ==
    IF change.step = "assigning"
    THEN schema = change.to /\ document = change.to - 1
    ELSE schema = change.to /\ document = change.to

\* What a request has seen is not newer than what there is; if nothing was
\* assigned since it came, it has seen that.
Seen(r) ==
    /\ r.at \in {"normalized", "binding", "bound", "missed"} => r.norm <= schema
    /\ r.at \in {"normalized", "binding"} /\ ~r.overlapped =>
          change.step # "assigning" /\ r.norm = schema
    /\ r.at \in {"binding", "bound", "missed"} => r.document \in Versions
    /\ r.at = "binding" => r.document <= document
    /\ r.at = "binding" /\ ~r.overlapped => r.document = document
    /\ r.at = "hit" => r.schema \in Versions /\ r.document \in Versions /\ r.document <= r.schema
    /\ r.at \in {"bound", "missed"} =>
          /\ r.schema \in Versions
          /\ r.norm <= r.schema /\ r.document <= r.schema
          /\ ~r.overlapped => r.norm = r.schema /\ r.document = r.schema

AllSeen ==
    /\ Assigned
    /\ \A c \in Clients : Seen(http[c])
    /\ \A e \in cache : e.document <= e.schema

\* What the fields of an admin's request have come to.
Told(a, keys) ==
    /\ a.at # "idle" => a.fields \in AdminDocs
    /\ a.at # "idle" => Len(a.values) = Len(a.purged) /\ Len(a.values) <= Len(a.fields)
    /\ a.at = "answered" => Len(a.values) = Len(a.fields) /\ a.data = Data(a.values)
    /\ a.at # "idle" => \A i \in 1 .. Len(a.values) :
          /\ a.values[i] = Null => a.fields[i].does = "purgeType"
          /\ a.values[i] = TRUE => a.purged[i] \cap keys = {}

\* The keys of results that are in the store or may be put back.
Found == Keys(cache) \cup Held

AllTold == \A c \in Clients : Told(admin[c], Found)

Inv == Typed /\ AllSeen /\ AllTold /\ GaugeShowsWork

-----------------------------------------------------------------------------
\* Records stay records.
LEMMA HttpFields ==
    ASSUME NEW r \in HttpRecords, NEW at \in Stages, NEW v \in Versions
    PROVE  /\ [r EXCEPT !.at = at] \in HttpRecords
           /\ [r EXCEPT !.at = at, !.document = v] \in HttpRecords
           /\ [r EXCEPT !.at = at, !.schema = v] \in HttpRecords
           /\ [r EXCEPT !.overlapped = TRUE] \in HttpRecords
  BY DEF HttpRecords

LEMMA NoRecords ==
    /\ NoRequest \in HttpRecords /\ NoConn \in ConnRecords /\ NoAdmin \in AdminRecords
    /\ \A op \in Operations, v \in Versions, b \in BOOLEAN :
          [NoRequest EXCEPT !.at = "normalized", !.op = op, !.norm = v, !.overlapped = b] \in HttpRecords
    /\ \A op \in Operations : [NoRequest EXCEPT !.at = "upstream", !.op = op] \in HttpRecords
  <1>1. NoRequest \in HttpRecords
    BY DEF NoRequest, HttpRecords, Stages
  <1>2. NoConn \in ConnRecords
    BY DEF NoConn, ConnRecords
  <1>3. NoAdmin \in AdminRecords
    BY DEF NoAdmin, AdminRecords
  <1>4. ASSUME NEW op \in Operations, NEW v \in Versions, NEW b \in BOOLEAN
        PROVE  [NoRequest EXCEPT !.at = "normalized", !.op = op, !.norm = v, !.overlapped = b] \in HttpRecords
    BY <1>1 DEF HttpRecords, Stages
  <1>5. ASSUME NEW op \in Operations
        PROVE  [NoRequest EXCEPT !.at = "upstream", !.op = op] \in HttpRecords
    BY <1>1 DEF HttpRecords, Stages
  <1> QED
    BY <1>1, <1>2, <1>3, <1>4, <1>5

\* What TypeOK says, in these words.
LEMMA TypeIs ==
    TypeOK <=> /\ conf \in Settings
               /\ schema \in Versions /\ document \in Versions
               /\ change \in [step : {"none", "assigning", "purging"}, to : Versions]
               /\ http \in [Clients -> HttpRecords]
               /\ conn \in [Clients -> ConnRecords]
               /\ inFlight \in [AllLabels -> Nat] /\ lost \in [AllLabels -> Nat]
               /\ cache \subseteq Results
               /\ \A c \in Clients :
                     /\ admin[c].at \in {"idle", "running", "answered"}
                     /\ admin[c].at = "running" => ToSet(admin[c].values) \subseteq Values
  BY DEF TypeOK, HttpRecords, ConnRecords, Results

\* What is said of the admin's record is what its type says.
LEMMA AdminIs ==
    ASSUME NEW a \in AdminRecords
    PROVE  /\ a.at \in {"idle", "running", "answered"}
           /\ ToSet(a.values) \subseteq Values
  BY DEF AdminRecords, ToSet

LEMMA LabelsIn == \A op \in Operations : Labels(op) \in AllLabels
  BY DEF AllLabels

\* The gauge, when what is counted grows, shrinks, or stays.
LEMMA CountedFinite ==
    ASSUME NEW l
    PROVE  IsFiniteSet({c \in Clients : Counted(c, l)}) /\ IsFiniteSet({c \in Clients : Counted(c, l)'})
  <1>1. {c \in Clients : Counted(c, l)} \subseteq Clients /\ {c \in Clients : Counted(c, l)'} \subseteq Clients
    OBVIOUS
  <1> QED
    BY <1>1, FS_Subset, ClientsAssumption

LEMMA GaugeSame ==
    ASSUME GaugeShowsWork, UNCHANGED <<inFlight, lost>>,
           \A c \in Clients, l \in AllLabels : Counted(c, l)' <=> Counted(c, l)
    PROVE  GaugeShowsWork'
  <1>1. ASSUME NEW l \in AllLabels
        PROVE  {c \in Clients : Counted(c, l)'} = {c \in Clients : Counted(c, l)}
    OBVIOUS
  <1> QED
    BY <1>1 DEF GaugeShowsWork

LEMMA GaugeUp ==
    ASSUME TypeOK, GaugeShowsWork, NEW c \in Clients, NEW op \in Operations,
           inFlight' = CountedIn(op), lost' = lost,
           \A l \in AllLabels : ~Counted(c, l) /\ (Counted(c, l)' <=> l = Labels(op)),
           \A d \in Clients \ {c}, l \in AllLabels : Counted(d, l)' <=> Counted(d, l)
    PROVE  GaugeShowsWork' /\ inFlight' \in [AllLabels -> Nat]
  <1>1. ASSUME NEW l \in AllLabels
        PROVE  inFlight'[l] = Cardinality({d \in Clients : Counted(d, l)'}) + lost[l]
    <2>1. CASE l = Labels(op)
      <3>1. /\ {d \in Clients : Counted(d, l)'} = {d \in Clients : Counted(d, l)} \cup {c}
            /\ c \notin {d \in Clients : Counted(d, l)} /\ IsFiniteSet({d \in Clients : Counted(d, l)})
        BY <2>1, CountedFinite
      <3>2. Cardinality({d \in Clients : Counted(d, l)'}) = Cardinality({d \in Clients : Counted(d, l)}) + 1
        BY <3>1, FS_AddElement, Zenon
      <3>3. Cardinality({d \in Clients : Counted(d, l)}) \in Nat
        BY CountedFinite, FS_CardinalityType
      <3>4. inFlight'[l] = inFlight[l] + 1
        BY <2>1 DEF CountedIn, TypeOK
      <3> QED
        BY <3>2, <3>3, <3>4 DEF GaugeShowsWork, TypeOK
    <2>2. CASE l # Labels(op)
      <3>1. {d \in Clients : Counted(d, l)'} = {d \in Clients : Counted(d, l)}
        BY <2>2
      <3>2. inFlight'[l] = inFlight[l]
        BY <2>2 DEF CountedIn, TypeOK
      <3> QED
        BY <3>1, <3>2 DEF GaugeShowsWork
    <2> QED
      BY <2>1, <2>2
  <1>2. inFlight' \in [AllLabels -> Nat]
    BY LabelsIn DEF CountedIn, TypeOK
  <1> QED
    BY <1>1, <1>2 DEF GaugeShowsWork

\* Whoever is counted leaves, and is counted out or noted as lost.
LEMMA GaugeDown ==
    ASSUME TypeOK, GaugeShowsWork, NEW c \in Clients, NEW op \in Operations,
           \A l \in AllLabels : (Counted(c, l) <=> l = Labels(op)) /\ ~Counted(c, l)',
           \A d \in Clients \ {c}, l \in AllLabels : Counted(d, l)' <=> Counted(d, l),
           \/ inFlight' = CountedOut(op) /\ lost' = lost
           \/ inFlight' = inFlight /\ lost' = [lost EXCEPT ![Labels(op)] = @ + 1]
    PROVE  GaugeShowsWork' /\ inFlight' \in [AllLabels -> Nat] /\ lost' \in [AllLabels -> Nat]
  <1> DEFINE N(l) == Cardinality({d \in Clients : Counted(d, l)})
  <1>1. ASSUME NEW l \in AllLabels
        PROVE  N(l) \in Nat /\ inFlight[l] \in Nat /\ lost[l] \in Nat /\ inFlight[l] = N(l) + lost[l]
    BY CountedFinite, FS_CardinalityType DEF GaugeShowsWork, TypeOK
  <1>2. ASSUME NEW l \in AllLabels, l = Labels(op)
        PROVE  N(l) > 0 /\ Cardinality({d \in Clients : Counted(d, l)'}) = N(l) - 1
    <2> DEFINE S == {d \in Clients : Counted(d, l)}
    <2>1. c \in S /\ IsFiniteSet(S)
      BY <1>2, CountedFinite
    <2>2. {d \in Clients : Counted(d, l)'} = S \ {c}
      BY <1>2
    <2> HIDE DEF S
    <2>3. Cardinality(S \ {c}) = Cardinality(S) - 1 /\ Cardinality(S) \in Nat /\ Cardinality(S \ {c}) \in Nat
      BY <2>1, FS_RemoveElement, FS_CardinalityType
    <2>4. N(l) = Cardinality(S)
      BY DEF S
    <2> HIDE DEF N
    <2>5. N(l) > 0
      BY <2>3, <2>4
    <2>6. Cardinality(S \ {c}) = N(l) - 1
      BY <2>3, <2>4
    <2> QED
      BY <2>2, <2>5, <2>6
  <1>3. ASSUME NEW l \in AllLabels, l # Labels(op)
        PROVE  {d \in Clients : Counted(d, l)'} = {d \in Clients : Counted(d, l)}
    BY <1>3
  <1>4. Labels(op) \in AllLabels
    BY LabelsIn
  <1> HIDE DEF N
  <1>5. CASE inFlight' = CountedOut(op) /\ lost' = lost
    <2>1. inFlight'[Labels(op)] = inFlight[Labels(op)] - 1
      BY <1>4, <1>5 DEF CountedOut, TypeOK
    <2>2. \A l \in AllLabels : l # Labels(op) => inFlight'[l] = inFlight[l]
      BY <1>5 DEF CountedOut, TypeOK
    <2>3. inFlight[Labels(op)] - 1 \in Nat
      <3>1. N(Labels(op)) > 0 /\ N(Labels(op)) \in Nat /\ inFlight[Labels(op)] = N(Labels(op)) + lost[Labels(op)]
            /\ lost[Labels(op)] \in Nat
        BY <1>1, <1>2, <1>4
      <3> QED
        BY <3>1
    <2>4. inFlight' \in [AllLabels -> Nat]
      BY <1>4, <1>5, <2>3 DEF CountedOut, TypeOK
    <2>5. ASSUME NEW l \in AllLabels
          PROVE  inFlight'[l] = Cardinality({d \in Clients : Counted(d, l)'}) + lost'[l]
      <3>1. CASE l = Labels(op)
        BY <1>1, <1>2, <1>5, <2>1, <3>1
      <3>2. CASE l # Labels(op)
        BY <1>1, <1>3, <1>5, <2>2, <3>2 DEF N
      <3> QED
        BY <3>1, <3>2
    <2> QED
      BY <1>5, <2>4, <2>5 DEF GaugeShowsWork, TypeOK
  <1>6. CASE inFlight' = inFlight /\ lost' = [lost EXCEPT ![Labels(op)] = @ + 1]
    <2>1. lost'[Labels(op)] = lost[Labels(op)] + 1
      BY <1>4, <1>6 DEF TypeOK
    <2>2. \A l \in AllLabels : l # Labels(op) => lost'[l] = lost[l]
      BY <1>6 DEF TypeOK
    <2>3. lost' \in [AllLabels -> Nat]
      BY <1>4, <1>6 DEF TypeOK
    <2>4. ASSUME NEW l \in AllLabels
          PROVE  inFlight'[l] = Cardinality({d \in Clients : Counted(d, l)'}) + lost'[l]
      <3>1. CASE l = Labels(op)
        BY <1>1, <1>2, <1>6, <2>1, <3>1
      <3>2. CASE l # Labels(op)
        BY <1>1, <1>3, <1>6, <2>2, <3>2 DEF N
      <3> QED
        BY <3>1, <3>2
    <2> QED
      BY <1>6, <2>3, <2>4 DEF GaugeShowsWork, TypeOK
  <1> QED
    BY <1>5, <1>6
-----------------------------------------------------------------------------
\* A frame that subscribes has an operation.
LEMMA LeastElement ==
    ASSUME NEW T \in SUBSET Nat, T # {}
    PROVE  \E x \in T : \A y \in T : x <= y
  <1>1. PICK x \in T : \A y \in T : ~(<<y, x>> \in OpToRel(<, Nat))
    BY NatLessThanWellFounded, WFMin
  <1>2. \A y \in T : ~(y < x)
    BY <1>1 DEF OpToRel
  <1> QED
    BY <1>2

LEMMA FirstOpIn ==
    ASSUME NEW chunk \in Chunks, Subscriptions(chunk) # {}
    PROVE  FirstOp(chunk) \in Operations
  <1>1. Subscriptions(chunk) \in SUBSET Nat
    <2>1. chunk \in Seq([op : Operations \cup {None}, whole : BOOLEAN])
      BY ChunksAssumption
    <2>2. DOMAIN chunk \subseteq Nat
      BY <2>1
    <2> QED
      BY <2>2 DEF Subscriptions
  <1>2. \E i \in Subscriptions(chunk) : \A j \in Subscriptions(chunk) : i <= j
    BY <1>1, LeastElement
  <1>3. PICK i \in Subscriptions(chunk) : FirstOp(chunk) = chunk[i].op
    BY <1>2 DEF FirstOp
  <1>4. i \in DOMAIN chunk /\ chunk[i].op # None
    BY DEF Subscriptions
  <1>5. chunk[i] \in [op : Operations \cup {None}, whole : BOOLEAN]
    <2> DEFINE Frames == [op : Operations \cup {None}, whole : BOOLEAN]
    <2>1. chunk \in Seq(Frames)
      BY ChunksAssumption
    <2> HIDE DEF Frames
    <2>2. chunk[i] \in Frames
      BY <1>4, <2>1
    <2> QED
      BY <2>2 DEF Frames
  <1> QED
    BY <1>3, <1>4, <1>5

-----------------------------------------------------------------------------
\* What the parts of the invariant depend on.
LEMMA HttpFrame ==
    ASSUME Inv, NEW c \in Clients, NEW r \in HttpRecords, http' = [http EXCEPT ![c] = r],
           r.at # "idle" => r.op \in Operations /\ conn[c].at = "idle",
           Seen(r), UNCHANGED <<schema, document, change, conn>>,
           \A e \in cache' : e.document <= e.schema
    PROVE  /\ http' \in [Clients -> HttpRecords] /\ OneThing' /\ AllSeen' /\ http'[c] = r
           /\ \A d \in Clients \ {c}, l \in AllLabels : Counted(d, l)' <=> Counted(d, l)
  <1>1. http \in [Clients -> HttpRecords]
    BY TypeIs DEF Inv, Typed
  <1>2. http' \in [Clients -> HttpRecords] /\ http'[c] = r /\ \A d \in Clients \ {c} : http'[d] = http[d]
    BY <1>1
  <1>3. OneThing'
    BY <1>2 DEF Inv, Typed, OneThing
  <1>4. \A d \in Clients : Seen(http[d])'
    BY <1>2 DEF Inv, AllSeen, Seen
  <1>5. AllSeen'
    BY <1>4 DEF Inv, AllSeen, Assigned
  <1> QED
    BY <1>2, <1>3, <1>5 DEF Counted

LEMMA ConnFrame ==
    ASSUME Inv, NEW c \in Clients, NEW r \in ConnRecords, conn' = [conn EXCEPT ![c] = r],
           r.at # "idle" => http[c].at = "idle",
           r.at \in {"idle", "last", "checking"} => r.request = None,
           r.at = "checking" => r.seen \in Operations,
           UNCHANGED <<schema, document, change, http, cache>>
    PROVE  /\ conn' \in [Clients -> ConnRecords] /\ OneThing' /\ AllSeen' /\ conn'[c] = r
           /\ \A d \in Clients \ {c}, l \in AllLabels : Counted(d, l)' <=> Counted(d, l)
  <1>1. conn \in [Clients -> ConnRecords]
    BY TypeIs DEF Inv, Typed
  <1>2. conn' \in [Clients -> ConnRecords] /\ conn'[c] = r /\ \A d \in Clients \ {c} : conn'[d] = conn[d]
    BY <1>1
  <1>3. OneThing'
    BY <1>2 DEF Inv, Typed, OneThing
  <1>4. AllSeen'
    BY DEF Inv, AllSeen, Assigned, Seen
  <1> QED
    BY <1>2, <1>3, <1>4 DEF Counted

\* What can be found again, when results go and no request hits.
LEMMA FoundShrinks ==
    ASSUME cache' \subseteq cache,
           \A c \in Clients : http'[c].at = "hit" => http[c].at = "hit" /\ Key(http'[c]) = Key(http[c])
    PROVE  Found' \subseteq Found
  <1>1. Keys(cache') \subseteq Keys(cache)
    BY DEF Keys
  <1>2. Held' \subseteq Held
    BY DEF Held
  <1> QED
    BY <1>1, <1>2 DEF Found

LEMMA FoundSame ==
    ASSUME cache' \subseteq cache, http' = http
    PROVE  Found' \subseteq Found
  BY FoundShrinks

LEMMA OneResultKept ==
    ASSUME OneResult, cache' \subseteq cache
    PROVE  OneResult'
  BY DEF OneResult

\* Results go, and admins come and go: what the others were told stays true.
LEMMA ToldKept ==
    ASSUME Inv, Found' \subseteq Found,
           admin' = admin \/ \E c \in Clients : Forget(c)
    PROVE  admin' \in [Clients -> AdminRecords] /\ AllTold'
  <1>1. admin' \in [Clients -> AdminRecords]
    BY NoRecords DEF Forget, Inv, Typed
  <1>3. ASSUME NEW c \in Clients, admin'[c] = admin[c]
        PROVE  Told(admin'[c], Found')
    BY <1>3 DEF Inv, AllTold, Told
  <1>4. ASSUME NEW c \in Clients, admin'[c] = NoAdmin
        PROVE  Told(admin'[c], Found')
    BY <1>4 DEF Told, NoAdmin
  <1>5. \A c \in Clients : admin'[c] \in {admin[c], NoAdmin}
    BY DEF Forget, Inv, Typed
  <1> QED
    BY <1>1, <1>3, <1>4, <1>5 DEF AllTold

\* The parts make the whole.
LEMMA Whole ==
    ASSUME Inv, conf' = conf, schema' \in Versions, document' \in Versions,
           change' \in [step : {"none", "assigning", "purging"}, to : Versions],
           http' \in [Clients -> HttpRecords], conn' \in [Clients -> ConnRecords],
           inFlight' \in [AllLabels -> Nat], lost' \in [AllLabels -> Nat],
           cache' \subseteq Results,
           admin' \in [Clients -> AdminRecords],
           OneThing', OneResult', AllSeen', AllTold', GaugeShowsWork'
    PROVE  Inv'
  <1>1. \A c \in Clients : admin'[c].at \in {"idle", "running", "answered"} /\ ToSet(admin'[c].values) \subseteq Values
    BY AdminIs
  <1>2. conf' \in Settings
    BY TypeIs DEF Inv, Typed
  <1>3. TypeOK'
    BY <1>1, <1>2 DEF TypeOK, HttpRecords, ConnRecords, Results
  <1> QED
    BY <1>3 DEF Inv, Typed

\* What Inv says of types.
LEMMA Types ==
    ASSUME Inv
    PROVE  /\ TypeOK /\ OneThing /\ OneResult /\ AllSeen /\ AllTold /\ GaugeShowsWork
           /\ schema \in Versions /\ document \in Versions
           /\ change \in [step : {"none", "assigning", "purging"}, to : Versions]
           /\ http \in [Clients -> HttpRecords] /\ conn \in [Clients -> ConnRecords]
           /\ inFlight \in [AllLabels -> Nat] /\ lost \in [AllLabels -> Nat]
           /\ cache \subseteq Results
           /\ admin \in [Clients -> AdminRecords]
  BY TypeIs DEF Inv, Typed

-----------------------------------------------------------------------------
LEMMA InitHolds == Init => Inv
  <1> SUFFICES ASSUME Init
               PROVE  Inv
    OBVIOUS
  <1>1. /\ NoRequest.at = "idle" /\ NoConn.at = "idle" /\ NoConn.request = None /\ NoAdmin.at = "idle"
        /\ 1 \in Versions
    BY SchemasAssumption DEF NoRequest, NoConn, NoAdmin, Versions
  <1>2. admin \in [Clients -> AdminRecords]
    BY NoRecords DEF Init
  <1>3. TypeOK
    <2>1. \A c \in Clients : admin[c].at \in {"idle", "running", "answered"} /\ ToSet(admin[c].values) \subseteq Values
      BY <1>2, AdminIs
    <2>2. http \in [Clients -> HttpRecords] /\ conn \in [Clients -> ConnRecords]
      BY NoRecords DEF Init
    <2> QED
      BY <1>1, <2>1, <2>2 DEF Init, TypeOK, HttpRecords, ConnRecords
  <1>4. OneThing
    BY <1>1 DEF Init, OneThing
  <1>5. AllSeen /\ OneResult
    BY <1>1 DEF Init, AllSeen, Assigned, Seen, OneResult
  <1>6. AllTold
    BY <1>1 DEF Init, AllTold, Told
  <1>7. GaugeShowsWork
    <2>1. ASSUME NEW l \in AllLabels
          PROVE  inFlight[l] = Cardinality({c \in Clients : Counted(c, l)}) + lost[l]
      <3>1. {c \in Clients : Counted(c, l)} = {}
        BY <1>1 DEF Init, Counted
      <3>2. Cardinality({c \in Clients : Counted(c, l)}) = 0
        BY <3>1, FS_EmptySet
      <3>3. inFlight[l] = 0 /\ lost[l] = 0
        BY DEF Init
      <3> QED
        BY <3>2, <3>3
    <2> QED
      BY <2>1 DEF GaugeShowsWork
  <1> QED
    BY <1>2, <1>3, <1>4, <1>5, <1>6, <1>7 DEF Inv, Typed

-----------------------------------------------------------------------------
\* A schema change: what requests have seen stays seen.
LEMMA OverlappedKeeps ==
    ASSUME Inv, http' = Overlapped, UNCHANGED <<conf, conn, admin, inFlight, lost, cache>>,
           schema' \in Versions, document' \in Versions, schema <= schema', document <= document',
           change' \in [step : {"none", "assigning", "purging"}, to : Versions],
           Assigned'
    PROVE  Inv'
  <1>1. http \in [Clients -> HttpRecords] /\ OneThing /\ AllSeen
    BY Types
  <1>2. ASSUME NEW d \in Clients
        PROVE  /\ http'[d] \in HttpRecords
               /\ http'[d].at = http[d].at /\ http'[d].op = http[d].op /\ http'[d].norm = http[d].norm
               /\ http'[d].document = http[d].document /\ http'[d].schema = http[d].schema
               /\ IF http[d].at \in {"normalized", "binding"} THEN http'[d].overlapped
                                                              ELSE http'[d].overlapped = http[d].overlapped
    <2>1. http[d] \in HttpRecords
      BY <1>1
    <2>2. CASE http[d].at \in {"normalized", "binding"}
      <3>1. http'[d] = [http[d] EXCEPT !.overlapped = TRUE]
        BY <2>2 DEF Overlapped
      <3>2. http'[d] \in HttpRecords
        BY <2>1, <3>1 DEF HttpRecords
      <3> QED
        BY <2>1, <2>2, <3>1, <3>2 DEF HttpRecords
    <2>3. CASE http[d].at \notin {"normalized", "binding"}
      BY <2>1, <2>3 DEF Overlapped
    <2> QED
      BY <2>2, <2>3
  <1>3. http' \in [Clients -> HttpRecords]
    BY <1>2 DEF Overlapped
  <1>4. OneThing'
    BY <1>1, <1>2 DEF OneThing
  <1>5. ASSUME NEW d \in Clients
        PROVE  Seen(http[d])'
    <2>1. Seen(http[d]) /\ http[d] \in HttpRecords /\ http'[d] \in HttpRecords
      BY <1>1, <1>2 DEF AllSeen
    <2>2. schema \in Nat /\ document \in Nat /\ schema' \in Nat /\ document' \in Nat
      BY Types DEF Versions
    <2>3. http[d].norm \in Nat /\ http[d].document \in Nat
      BY <2>1 DEF HttpRecords, Versions
    <2> QED
      BY <1>2, <2>1, <2>2, <2>3 DEF Seen
  <1>6. AllSeen'
    BY <1>1, <1>5 DEF AllSeen
  <1>7. GaugeShowsWork'
    <2>1. \A d \in Clients, l \in AllLabels : Counted(d, l)' <=> Counted(d, l)
      BY <1>2 DEF Counted
    <2> QED
      BY <2>1, GaugeSame, Types
  <1>8. AllTold' /\ OneResult'
    <2>1. \A d \in Clients : http'[d].at = "hit" => http[d].at = "hit" /\ Key(http'[d]) = Key(http[d])
      BY <1>2 DEF Key
    <2>2. Found' \subseteq Found
      BY <2>1, FoundShrinks
    <2> QED
      BY <2>2, ToldKept, OneResultKept, Types
  <1> QED
    BY <1>3, <1>4, <1>6, <1>7, <1>8, Types, Whole

LEMMA SchemaChangesKeeps == Inv /\ SchemaChanges => Inv'
  <1> SUFFICES ASSUME Inv, SchemaChanges
               PROVE  Inv'
    OBVIOUS
  <1>1. Assigned /\ change \in [step : {"none", "assigning", "purging"}, to : Versions]
        /\ schema \in Versions /\ document \in Versions
    BY Types DEF AllSeen
  <1>2. change.to + 1 \in Versions /\ change.to \in Nat
    BY <1>1, SchemasAssumption DEF SchemaChanges, Versions
  <1>3. schema' = change.to + 1 /\ document' = document /\ schema = change.to /\ document = change.to
    BY <1>1 DEF SchemaChanges, AssignFirst, Assigned
  <1>4. change' = [step |-> "assigning", to |-> change.to + 1]
    BY DEF SchemaChanges
  <1>5. Assigned'
    BY <1>2, <1>3, <1>4 DEF Assigned
  <1>6. schema <= schema' /\ document <= document'
    BY <1>2, <1>3
  <1> QED
    BY <1>1, <1>2, <1>3, <1>4, <1>5, <1>6, OverlappedKeeps DEF SchemaChanges

LEMMA DocumentChangesKeeps == Inv /\ DocumentChanges => Inv'
  <1> SUFFICES ASSUME Inv, DocumentChanges
               PROVE  Inv'
    OBVIOUS
  <1>1. Assigned /\ change \in [step : {"none", "assigning", "purging"}, to : Versions]
        /\ schema \in Versions /\ document \in Versions
    BY Types DEF AllSeen
  <1>2. schema' = change.to /\ document' = change.to /\ schema = change.to /\ document = change.to - 1
    BY <1>1 DEF DocumentChanges, AssignSecond, Assigned
  <1>3. change' \in [step : {"none", "purging"}, to : Versions] /\ change'.to = change.to
    BY <1>1 DEF DocumentChanges
  <1>4. Assigned'
    BY <1>2, <1>3 DEF Assigned
  <1>5. schema <= schema' /\ document <= document'
    BY <1>1, <1>2 DEF Versions
  <1> QED
    BY <1>1, <1>2, <1>3, <1>4, <1>5, OverlappedKeeps DEF DocumentChanges

LEMMA PurgeShrinks == \A tag : Purge(tag) => cache' \subseteq cache
  BY DEF Purge, Purged, PurgeFails

LEMMA OldPurgedKeeps == Inv /\ OldPurged => Inv'
  <1> SUFFICES ASSUME Inv, OldPurged
               PROVE  Inv'
    OBVIOUS
  <1>1. cache' \subseteq cache
    BY PurgeShrinks DEF OldPurged
  <1>2. change' \in [step : {"none", "assigning", "purging"}, to : Versions] /\ change'.to = change.to
        /\ change'.step = "none" /\ change.step = "purging"
    BY Types DEF OldPurged
  <1>3. AllSeen'
    BY <1>1, <1>2, Types DEF OldPurged, AllSeen, Assigned, Seen
  <1>4. OneThing'
    BY Types DEF OldPurged, OneThing
  <1>5. GaugeShowsWork'
    <2>1. \A d \in Clients, l \in AllLabels : Counted(d, l)' <=> Counted(d, l)
      BY DEF OldPurged, Counted
    <2> QED
      BY <2>1, GaugeSame, Types DEF OldPurged
  <1>6. AllTold' /\ admin' \in [Clients -> AdminRecords] /\ OneResult'
    BY <1>1, ToldKept, FoundSame, OneResultKept, Types DEF OldPurged
  <1> QED
    BY <1>1, <1>2, <1>3, <1>4, <1>5, <1>6, Types, Whole DEF OldPurged

-----------------------------------------------------------------------------
\* A request that goes on, counted or not as before.
Working == {"binding", "bound", "hit", "missed", "upstream"}

LEMMA RequestMoves ==
    ASSUME Inv, NEW c \in Clients, NEW r \in HttpRecords, http' = [http EXCEPT ![c] = r],
           r.at # "idle" => r.op \in Operations /\ conn[c].at = "idle",
           Seen(r), r.at \in Working <=> http[c].at \in Working,
           r.at \in Working => r.op = http[c].op,
           r.at = "hit" => Key(r) \in Keys(cache),
           UNCHANGED <<conf, schema, document, change, conn, inFlight, lost, cache>>,
           admin' = admin \/ \E d \in Clients : Forget(d)
    PROVE  Inv'
  <1>1. \A e \in cache' : e.document <= e.schema
    BY Types DEF AllSeen
  <1>2. /\ http' \in [Clients -> HttpRecords] /\ OneThing' /\ AllSeen' /\ http'[c] = r
        /\ \A d \in Clients \ {c}, l \in AllLabels : Counted(d, l)' <=> Counted(d, l)
    BY <1>1, HttpFrame
  <1>3. \A l \in AllLabels : Counted(c, l)' <=> Counted(c, l)
    BY <1>2 DEF Counted, Working
  <1>4. GaugeShowsWork'
    BY <1>2, <1>3, GaugeSame, Types
  <1>5. Found' \subseteq Found
    <2>1. \A d \in Clients \ {c} : http'[d] = http[d]
      BY Types
    <2>2. Held' \subseteq Held \cup Keys(cache)
      BY <1>2, <2>1 DEF Held
    <2> QED
      BY <2>2 DEF Found
  <1>6. AllTold' /\ admin' \in [Clients -> AdminRecords] /\ OneResult'
    BY <1>5, ToldKept, OneResultKept, Types
  <1> QED
    BY <1>2, <1>4, <1>6, Types, Whole

\* A request that is answered.
LEMMA RequestEnds ==
    ASSUME Inv, NEW c \in Clients, http[c].at \in Working, Ends(c),
           UNCHANGED <<conf, schema, document, change, conn, lost>>,
           cache' \subseteq Results,
           \A e \in cache' : e.document <= e.schema,
           admin' \in [Clients -> AdminRecords], AllTold', OneResult'
    PROVE  Inv'
  <1>1. NoRequest \in HttpRecords /\ NoRequest.at = "idle" /\ Seen(NoRequest)
    BY NoRecords DEF NoRequest, Seen
  <1>2. http' = [http EXCEPT ![c] = NoRequest] /\ inFlight' = CountedOut(http[c].op)
    BY DEF Ends
  <1>3. /\ http' \in [Clients -> HttpRecords] /\ OneThing' /\ AllSeen' /\ http'[c] = NoRequest
        /\ \A d \in Clients \ {c}, l \in AllLabels : Counted(d, l)' <=> Counted(d, l)
    BY <1>1, <1>2, HttpFrame
  <1>4. http[c].op \in Operations /\ conn[c].request = None
    BY Types DEF OneThing, Working
  <1>5. \A l \in AllLabels : (Counted(c, l) <=> l = Labels(http[c].op)) /\ ~Counted(c, l)'
    BY <1>1, <1>3, <1>4 DEF Counted, Working
  <1>6. GaugeShowsWork' /\ inFlight' \in [AllLabels -> Nat] /\ lost' \in [AllLabels -> Nat]
    BY <1>2, <1>3, <1>4, <1>5, GaugeDown, Types
  <1> QED
    BY <1>3, <1>6, Types, Whole

\* What it had read is no longer held.
LEMMA EndedShrinks ==
    ASSUME Inv, NEW c \in Clients, Ends(c)
    PROVE  Held' \subseteq Held
  <1>1. http' = [http EXCEPT ![c] = NoRequest] /\ NoRequest.at # "hit" /\ http \in [Clients -> HttpRecords]
    BY Types DEF Ends, NoRequest
  <1>2. \A d \in Clients : http'[d].at = "hit" => http'[d] = http[d]
    BY <1>1
  <1> QED
    BY <1>2 DEF Held

LEMMA ReceiveKeeps ==
    ASSUME Inv, NEW c \in Clients, NEW op \in Operations, Receive(c, op)
    PROVE  Inv'
  <1>1. /\ http[c].at = "idle" /\ conn[c].at = "idle" /\ http[c] \in HttpRecords
        /\ schema \in Versions /\ Assigned
    BY Types DEF Receive, Idle, AllSeen
  <1>2. CASE Normalizes(op, schema)
    <2> DEFINE r == [NoRequest EXCEPT !.at = "normalized", !.op = op, !.norm = schema,
                                      !.overlapped = change.step = "assigning"]
    <2>1. (change.step = "assigning") \in BOOLEAN
      OBVIOUS
    <2>2. r \in HttpRecords
      BY <1>1, <2>1, NoRecords, Zenon
    <2>3. r.at = "normalized" /\ r.op = op /\ r.norm = schema /\ r.overlapped = (change.step = "assigning")
      BY DEF NoRequest
    <2>4. http' = [http EXCEPT ![c] = r]
      BY <1>2 DEF Receive
    <2> HIDE DEF r
    <2>5. schema \in Nat
      BY <1>1 DEF Versions
    <2>6. Seen(r)
      <3>1. ~r.overlapped => change.step # "assigning"
        BY <2>3, Zenon
      <3> QED
        BY <2>3, <2>5, <3>1 DEF Seen
    <2>7. r.at \notin Working /\ http[c].at \notin Working /\ r.at # "hit"
      BY <1>1, <2>3 DEF Working
    <2> QED
      BY <1>1, <2>2, <2>3, <2>4, <2>6, <2>7, RequestMoves DEF Receive
  <1>3. CASE ~Normalizes(op, schema)
    <2>1. http' = [http EXCEPT ![c] = http[c]]
      BY <1>3, Types DEF Receive
    <2>2. Seen(http[c])
      BY Types DEF AllSeen
    <2> QED
      BY <1>1, <2>1, <2>2, RequestMoves DEF Receive
  <1> QED
    BY <1>2, <1>3

\* What is forwarded without a thought of the schema.
LEMMA ForwardedIs ==
    ASSUME NEW r \in HttpRecords, r.op \in Operations
    PROVE  /\ Forwarded(r) \in HttpRecords /\ Forwarded(r).at = "upstream" /\ Forwarded(r).op = r.op
           /\ Seen(Forwarded(r))
  <1>1. Forwarded(r) \in HttpRecords
    BY NoRecords, Zenon DEF Forwarded
  <1>2. Forwarded(r).at = "upstream" /\ Forwarded(r).op = r.op
    BY DEF Forwarded, NoRequest
  <1> QED
    BY <1>1, <1>2 DEF Seen

LEMMA ValidateKeeps ==
    ASSUME Inv, NEW c \in Clients, Validate(c)
    PROVE  Inv'
  <1>1. /\ http[c].at = "normalized" /\ http[c].op \in Operations /\ conn[c].at = "idle"
        /\ conn[c].request = None /\ http[c] \in HttpRecords /\ document \in Versions
        /\ Seen(http[c]) /\ Assigned
    BY Types DEF Validate, OneThing, AllSeen
  <1>2. PICK r \in HttpRecords : /\ http' = [http EXCEPT ![c] = r] /\ r.op = http[c].op
                                 /\ r.at \in {"binding", "upstream"} /\ Seen(r)
    <2>1. CASE conf.caching
      <3> DEFINE r == [http[c] EXCEPT !.at = "binding", !.document = document]
      <3>1. r \in HttpRecords
        <4>1. "binding" \in Stages
          BY DEF Stages
        <4> QED
          BY <1>1, <4>1, HttpFields
      <3>2. /\ r.at = "binding" /\ r.op = http[c].op /\ r.document = document /\ r.norm = http[c].norm
            /\ r.overlapped = http[c].overlapped
        BY <1>1 DEF HttpRecords
      <3>3. http' = [http EXCEPT ![c] = r]
        BY <2>1 DEF Validate
      <3> HIDE DEF r
      <3>4. document \in Nat
        BY <1>1 DEF Versions
      <3>5. Seen(r)
        BY <1>1, <3>2, <3>4 DEF Seen
      <3> QED
        BY <3>1, <3>2, <3>3, <3>5
    <2>2. CASE ~conf.caching
      <3>1. http' = [http EXCEPT ![c] = Forwarded(http[c])]
        BY <2>2 DEF Validate
      <3> QED
        BY <1>1, <3>1, ForwardedIs
    <2> QED
      BY <2>1, <2>2
  <1>3. /\ http' \in [Clients -> HttpRecords] /\ OneThing' /\ AllSeen' /\ http'[c] = r
        /\ \A d \in Clients \ {c}, l \in AllLabels : Counted(d, l)' <=> Counted(d, l)
    <2>1. UNCHANGED <<schema, document, change, conn>> /\ \A e \in cache' : e.document <= e.schema
      BY Types DEF Validate, AllSeen
    <2> QED
      BY <1>1, <1>2, <2>1, HttpFrame
  <1>4. \A l \in AllLabels : ~Counted(c, l) /\ (Counted(c, l)' <=> l = Labels(http[c].op))
    BY <1>1, <1>2, <1>3 DEF Counted, Validate
  <1>5. GaugeShowsWork' /\ inFlight' \in [AllLabels -> Nat]
    <2>1. inFlight' = CountedIn(http[c].op) /\ lost' = lost
      BY DEF Validate
    <2> QED
      BY <1>1, <1>3, <1>4, <2>1, GaugeUp, Types
  <1>6. AllTold' /\ admin' \in [Clients -> AdminRecords] /\ OneResult'
    <2>1. http \in [Clients -> HttpRecords] /\ r.at # "hit"
      BY <1>2, Types
    <2>2. \A d \in Clients : http'[d].at = "hit" => http[d].at = "hit" /\ Key(http'[d]) = Key(http[d])
      BY <1>2, <2>1
    <2>3. cache' = cache /\ admin' = admin
      BY DEF Validate
    <2>4. Found' \subseteq Found
      BY <2>2, <2>3, FoundShrinks
    <2> QED
      BY <2>3, <2>4, ToldKept, OneResultKept, Types
  <1> QED
    BY <1>3, <1>5, <1>6, Types, Whole DEF Validate

LEMMA ValidateFailsKeeps ==
    ASSUME Inv, NEW c \in Clients, ValidateFails(c)
    PROVE  Inv'
  <1>1. NoRequest \in HttpRecords /\ NoRequest.at = "idle" /\ Seen(NoRequest)
    BY NoRecords DEF NoRequest, Seen
  <1>2. NoRequest.at \notin Working /\ http[c].at \notin Working
    BY <1>1 DEF ValidateFails, Working
  <1> QED
    BY <1>1, <1>2, RequestMoves DEF ValidateFails

LEMMA BindSchemaKeeps ==
    ASSUME Inv, NEW c \in Clients, BindSchema(c)
    PROVE  Inv'
  <1> DEFINE r == [http[c] EXCEPT !.at = "bound", !.schema = schema]
  <1>1. /\ http[c].at = "binding" /\ http[c].op \in Operations /\ conn[c].at = "idle"
        /\ http[c] \in HttpRecords /\ schema \in Versions /\ document \in Versions /\ Seen(http[c]) /\ Assigned
        /\ change \in [step : {"none", "assigning", "purging"}, to : Versions]
    BY Types DEF BindSchema, OneThing, AllSeen
  <1>2. r \in HttpRecords
    <2>1. "bound" \in Stages
      BY DEF Stages
    <2> QED
      BY <1>1, <2>1, HttpFields
  <1>3. /\ r.at = "bound" /\ r.op = http[c].op /\ r.document = http[c].document /\ r.norm = http[c].norm
        /\ r.schema = schema /\ r.overlapped = http[c].overlapped
    BY <1>1 DEF HttpRecords
  <1>4. http' = [http EXCEPT ![c] = r]
    BY DEF BindSchema
  <1> HIDE DEF r
  <1>5. /\ schema \in Nat /\ document \in Nat /\ change.to \in Nat /\ document <= schema
        /\ http[c].norm \in Nat /\ http[c].document \in Nat
    BY <1>1 DEF Versions, HttpRecords, Assigned
  <1>6. Seen(r)
    BY <1>1, <1>3, <1>5 DEF Seen, Assigned
  <1>7. r.at \in Working /\ http[c].at \in Working
    BY <1>1, <1>3 DEF Working
  <1> QED
    BY <1>1, <1>2, <1>3, <1>4, <1>6, <1>7, RequestMoves DEF BindSchema

LEMMA ForwardKeeps ==
    ASSUME Inv, NEW c \in Clients, Forward(c)
    PROVE  Inv'
  <1>1. /\ http[c].at = "bound" /\ http[c].op \in Operations /\ conn[c].at = "idle"
        /\ http[c] \in HttpRecords /\ Seen(http[c])
    BY Types DEF Forward, OneThing, AllSeen
  <1>2. PICK r \in HttpRecords : /\ http' = [http EXCEPT ![c] = r] /\ r.op = http[c].op
                                 /\ r.at \in {"missed", "upstream"} /\ Seen(r)
    <2>1. CASE http' = [http EXCEPT ![c].at = "missed"]
      <3> DEFINE r == [http[c] EXCEPT !.at = "missed"]
      <3>1. r \in HttpRecords
        <4>1. "missed" \in Stages
          BY DEF Stages
        <4> QED
          BY <1>1, <4>1 DEF HttpRecords
      <3>2. /\ r.at = "missed" /\ r.op = http[c].op /\ r.document = http[c].document
            /\ r.schema = http[c].schema /\ r.norm = http[c].norm /\ r.overlapped = http[c].overlapped
        BY <1>1 DEF HttpRecords
      <3>3. http' = [http EXCEPT ![c] = r]
        BY <2>1
      <3> HIDE DEF r
      <3>4. Seen(r)
        BY <1>1, <3>2 DEF Seen
      <3> QED
        BY <3>1, <3>2, <3>3, <3>4
    <2>2. CASE http' = [http EXCEPT ![c] = Forwarded(http[c])]
      BY <1>1, <2>2, ForwardedIs
    <2> QED
      BY <2>1, <2>2 DEF Forward
  <1>3. r.at \in Working /\ http[c].at \in Working
    BY <1>1, <1>2 DEF Working
  <1> QED
    BY <1>1, <1>2, <1>3, RequestMoves DEF Forward

\* An answer that leaves admins and results alone, or lets results go.
LEMMA AnswersKeep ==
    ASSUME Inv, NEW c \in Clients, Refuse(c) \/ CountHitFails(c) \/ Answer(c) \/ Invalidate(c)
    PROVE  Inv'
  <1>1. cache' \subseteq cache
    BY PurgeShrinks DEF Refuse, CountHitFails, Answer, Invalidate
  <1>2. http[c].at \in Working
    BY DEF Refuse, CountHitFails, Answer, Invalidate, Working
  <1>3. Ends(c) /\ UNCHANGED <<conf, schema, document, change, conn, admin, lost>>
    BY DEF Refuse, CountHitFails, Answer, Invalidate
  <1>4. AllTold' /\ admin' \in [Clients -> AdminRecords] /\ OneResult'
    <2>1. Keys(cache') \subseteq Keys(cache) /\ Held' \subseteq Held
      BY <1>1, <1>3, EndedShrinks DEF Keys
    <2>2. Found' \subseteq Found
      BY <2>1 DEF Found
    <2> QED
      BY <1>1, <1>3, <2>2, ToldKept, OneResultKept, Types
  <1>5. /\ cache' \subseteq Results
        /\ \A e \in cache' : e.document <= e.schema
    BY <1>1, Types DEF AllSeen
  <1> QED
    BY <1>2, <1>3, <1>4, <1>5, RequestEnds

\* A hit finds what it has read where it was, and holds it.
LEMMA HitKeeps ==
    ASSUME Inv, NEW c \in Clients, Hit(c)
    PROVE  Inv'
  <1>1. /\ http[c].at = "bound" /\ http[c].op \in Operations /\ conn[c].at = "idle"
        /\ http[c] \in HttpRecords /\ cache \subseteq Results
        /\ \A e \in cache : e.document <= e.schema
    BY Types DEF Hit, OneThing, AllSeen
  <1>2. PICK e \in cache :
           /\ e.op = http[c].op /\ e.schema = http[c].schema
           /\ http' = [http EXCEPT ![c] = [NoRequest EXCEPT !.at = "hit", !.op = e.op,
                                                            !.schema = e.schema, !.document = e.document]]
    BY DEF Hit
  <1> DEFINE r == [NoRequest EXCEPT !.at = "hit", !.op = e.op, !.schema = e.schema, !.document = e.document]
  <1>3. e.op \in Operations /\ e.schema \in Versions /\ e.document \in Versions /\ e.document <= e.schema
    BY <1>1 DEF Results
  <1>4. r \in HttpRecords
    BY <1>3, NoRecords DEF HttpRecords, Stages
  <1>5. r.at = "hit" /\ r.op = e.op /\ r.schema = e.schema /\ r.document = e.document
    BY DEF NoRequest
  <1>6. http' = [http EXCEPT ![c] = r]
    BY <1>2
  <1> HIDE DEF r
  <1>7. Seen(r)
    BY <1>3, <1>5 DEF Seen
  <1>8. Key(r) \in Keys(cache)
    BY <1>2, <1>5 DEF Key, Keys
  <1>9. r.at \in Working /\ http[c].at \in Working
    BY <1>1, <1>5 DEF Working
  <1> QED
    BY <1>1, <1>2, <1>3, <1>4, <1>5, <1>6, <1>7, <1>8, <1>9, RequestMoves DEF Hit

\* What storing a result makes of the store.
LEMMA StoredIs ==
    ASSUME Inv, NEW result \in Results, result.document <= result.schema, Stored(result)
    PROVE  /\ cache' \subseteq Results /\ \A e \in cache' : e.document <= e.schema
           /\ OneResult' /\ Keys(cache') \subseteq Keys(cache) \cup {Key(result)}
  <1>1. cache' = {e \in cache : Key(e) # Key(result)} \cup {result}
    BY DEF Stored
  <1>2. cache \subseteq Results /\ OneResult /\ \A e \in cache : e.document <= e.schema
    BY Types DEF AllSeen
  <1>3. OneResult'
    BY <1>1, <1>2 DEF OneResult
  <1>4. Keys(cache') \subseteq Keys(cache) \cup {Key(result)}
    BY <1>1 DEF Keys
  <1> QED
    BY <1>1, <1>2, <1>3, <1>4

\* A request that has a result: what it stores is a result.
LEMMA ResultIs ==
    ASSUME Inv, NEW c \in Clients, http[c].at \in {"hit", "missed"}, NEW tagged \in BOOLEAN
    PROVE  /\ Result(http[c], tagged) \in Results
           /\ Result(http[c], tagged).document <= Result(http[c], tagged).schema
           /\ Key(Result(http[c], tagged)) = Key(http[c])
  <1>1. Seen(http[c]) /\ http[c].op \in Operations
    BY Types DEF OneThing, AllSeen
  <1>2. http[c].schema \in Versions /\ http[c].document \in Versions /\ http[c].document <= http[c].schema
    BY <1>1 DEF Seen
  <1> QED
    BY <1>1, <1>2 DEF Result, Results, Key

\* What a hit puts back it was holding: admins were not told that it is gone.
LEMMA CountHitKeeps ==
    ASSUME Inv, NEW c \in Clients, CountHit(c)
    PROVE  Inv'
  <1>1. PICK result : result = Result(http[c], StillTagged(http[c]))
    OBVIOUS
  <1>2. StillTagged(http[c]) \in BOOLEAN /\ http[c].at = "hit"
    BY DEF StillTagged, CountHit
  <1>3. result \in Results /\ result.document <= result.schema /\ Key(result) = Key(http[c])
    BY <1>1, <1>2, ResultIs
  <1>4. Stored(result) /\ Ends(c) /\ UNCHANGED <<conf, schema, document, change, conn, admin, lost>>
    BY <1>1 DEF CountHit
  <1>5. /\ cache' \subseteq Results /\ \A e \in cache' : e.document <= e.schema
        /\ OneResult' /\ Keys(cache') \subseteq Keys(cache) \cup {Key(result)}
    BY <1>3, <1>4, StoredIs
  <1>6. Found' \subseteq Found
    <2>1. Held' \subseteq Held /\ Key(result) \in Held
      BY <1>2, <1>3, <1>4, EndedShrinks DEF Held
    <2> QED
      BY <1>5, <2>1 DEF Found
  <1>7. AllTold' /\ admin' \in [Clients -> AdminRecords]
    BY <1>4, <1>6, ToldKept
  <1>8. http[c].at \in Working
    BY <1>2 DEF Working
  <1> QED
    BY <1>4, <1>5, <1>7, <1>8, RequestEnds

\* A new result is not among those that admins were told are gone: it is made
\* anew.
LEMMA KeepKeeps ==
    ASSUME Inv, NEW c \in Clients, Keep(c)
    PROVE  Inv'
  <1> DEFINE key == Key(http[c])
  <1>1. PICK result : result = Result(http[c], TRUE)
    OBVIOUS
  <1>2. result \in Results /\ result.document <= result.schema /\ Key(result) = key
    BY <1>1, ResultIs DEF Keep
  <1>3. Stored(result) /\ Ends(c)
    BY <1>1 DEF Keep
  <1>4. ASSUME NEW a \in Clients
        PROVE  /\ admin'[a] = [admin[a] EXCEPT !.purged = [i \in DOMAIN @ |-> @[i] \ {key}]]
               /\ admin[a] \in AdminRecords
    BY Types DEF Keep
  <1> HIDE DEF key
  <1>5. /\ cache' \subseteq Results /\ \A e \in cache' : e.document <= e.schema
        /\ OneResult' /\ Keys(cache') \subseteq Keys(cache) \cup {key}
    BY <1>2, <1>3, StoredIs
  <1>6. Found' \subseteq Found \cup {key}
    BY <1>3, <1>5, EndedShrinks DEF Found
  <1>7. ASSUME NEW a \in Clients
        PROVE  admin'[a] \in AdminRecords /\ Told(admin'[a], Found')
    <2>1. /\ admin'[a].at = admin[a].at /\ admin'[a].schema = admin[a].schema
          /\ admin'[a].fields = admin[a].fields /\ admin'[a].values = admin[a].values
          /\ admin'[a].data = admin[a].data
          /\ admin'[a].purged = [i \in DOMAIN admin[a].purged |-> admin[a].purged[i] \ {key}]
      BY <1>4 DEF AdminRecords
    <2> DEFINE Gone == SUBSET (Operations \X Versions)
    <2>2. admin[a].purged \in Seq(Gone)
      BY <1>4 DEF AdminRecords
    <2> HIDE DEF Gone
    <2>3. /\ DOMAIN admin[a].purged = 1 .. Len(admin[a].purged) /\ Len(admin[a].purged) \in Nat
          /\ \A i \in 1 .. Len(admin[a].purged) : admin[a].purged[i] \in Gone
      BY <2>2
    <2>4. \A i \in 1 .. Len(admin[a].purged) : admin[a].purged[i] \ {key} \in Gone
      BY <2>3 DEF Gone
    <2>5. admin'[a].purged \in Seq(Gone) /\ Len(admin'[a].purged) = Len(admin[a].purged)
      <3>1. admin'[a].purged = [i \in 1 .. Len(admin[a].purged) |-> admin[a].purged[i] \ {key}]
        BY <2>1, <2>3
      <3> DEFINE s == [i \in 1 .. Len(admin[a].purged) |-> admin[a].purged[i] \ {key}]
      <3>2. s \in [1 .. Len(admin[a].purged) -> Gone]
        BY <2>4
      <3>3. s \in Seq(Gone) /\ Len(s) = Len(admin[a].purged)
        <4> HIDE DEF s
        <4> QED
          BY <2>3, <3>2
      <3> QED
        BY <3>1, <3>3
    <2>6. admin'[a] \in AdminRecords
      BY <1>4, <2>1, <2>5 DEF AdminRecords, Gone
    <2>7. Told(admin[a], Found)
      BY Types DEF AllTold
    <2>8. ASSUME NEW i \in 1 .. Len(admin[a].values), admin[a].at # "idle", admin[a].values[i] = TRUE
          PROVE  admin'[a].purged[i] \cap Found' = {}
      <3>1. admin[a].purged[i] \cap Found = {} /\ i \in 1 .. Len(admin[a].purged)
        BY <2>7, <2>8 DEF Told
      <3>2. admin'[a].purged[i] = admin[a].purged[i] \ {key}
        BY <2>1, <2>3, <3>1
      <3> QED
        BY <1>6, <3>1, <3>2
    <2> QED
      BY <2>1, <2>5, <2>6, <2>7, <2>8 DEF Told
  <1>8. admin' \in [Clients -> AdminRecords] /\ AllTold'
    BY <1>7 DEF Keep, AllTold
  <1>9. http[c].at \in Working /\ Ends(c) /\ UNCHANGED <<conf, schema, document, change, conn, lost>>
    BY DEF Keep, Working
  <1> QED
    BY <1>5, <1>8, <1>9, RequestEnds
-----------------------------------------------------------------------------
\* Admins and connections leave the gauge and the requests alone.
LEMMA AdminFrame ==
    ASSUME Inv, UNCHANGED <<conf, schema, document, change, http, conn, inFlight, lost>>, cache' \subseteq cache,
           admin' \in [Clients -> AdminRecords], AllTold'
    PROVE  Inv'
  <1>1. OneThing' /\ OneResult'
    BY Types, OneResultKept DEF OneThing
  <1>2. AllSeen'
    BY Types DEF AllSeen, Assigned, Seen
  <1>3. GaugeShowsWork'
    <2>1. \A d \in Clients, l \in AllLabels : Counted(d, l)' <=> Counted(d, l)
      BY DEF Counted
    <2> QED
      BY <2>1, GaugeSame, Types
  <1> QED
    BY <1>1, <1>2, <1>3, Types, Whole

\* One admin's record changes, and results may go.
LEMMA AdminMoves ==
    ASSUME Inv, NEW c \in Clients, NEW a \in AdminRecords, admin' = [admin EXCEPT ![c] = a],
           UNCHANGED <<conf, schema, document, change, http, conn, inFlight, lost>>, cache' \subseteq cache,
           Told(a, Found')
    PROVE  Inv'
  <1>1. admin' \in [Clients -> AdminRecords] /\ admin'[c] = a /\ \A d \in Clients \ {c} : admin'[d] = admin[d]
    BY Types
  <1>2. Found' \subseteq Found
    BY FoundSame
  <1>3. ASSUME NEW d \in Clients \ {c}
        PROVE  Told(admin'[d], Found')
    <2>1. Told(admin[d], Found) /\ admin'[d] = admin[d]
      BY <1>1, Types DEF AllTold
    <2> QED
      BY <1>2, <2>1 DEF Told
  <1>4. AllTold'
    BY <1>1, <1>3 DEF AllTold
  <1> QED
    BY <1>1, <1>4, AdminFrame

LEMMA AdminReceiveKeeps ==
    ASSUME Inv, NEW c \in Clients, NEW fields \in AdminDocs, AdminReceive(c, fields)
    PROVE  Inv'
  <1> DEFINE a == [NoAdmin EXCEPT !.at = "running", !.schema = schema, !.fields = fields]
  <1>1. NoAdmin \in AdminRecords /\ schema \in Versions
    BY NoRecords, Types
  <1>2. a \in AdminRecords
    BY <1>1 DEF AdminRecords
  <1>3. a.at = "running" /\ a.fields = fields /\ a.values = <<>> /\ a.purged = <<>>
    BY DEF NoAdmin
  <1>4. Len(fields) \in Nat
    <2>1. fields \in Seq(ToSet(fields))
      BY FieldsAssumption
    <2> QED
      BY <2>1
  <1>5. admin' = [admin EXCEPT ![c] = a]
    BY DEF AdminReceive
  <1> HIDE DEF a
  <1>6. Told(a, Found')
    BY <1>3, <1>4 DEF Told
  <1> QED
    BY <1>2, <1>5, <1>6, AdminMoves DEF AdminReceive

\* A field's answer is one of the values; it is Null for a purgeType only, and
\* TRUE only if what it was to purge is gone.
LEMMA AnswerOfField ==
    /\ Text \in Values /\ Text # Null /\ Text # TRUE
    /\ \A field : Resolved(field, TRUE) = TRUE
    /\ \A field : Resolved(field, FALSE) = IF field.does = "purgeType" THEN Null ELSE FALSE
    /\ {TRUE, FALSE, Null} \subseteq Values /\ Null # TRUE /\ Null # FALSE
  BY AnswersAssumption DEF Values, Resolved

\* What is purged and not held is not found again.
LEMMA PurgedApart ==
    ASSUME Inv, NEW tag, Purged(tag), http' = http
    PROVE  cache' \subseteq cache /\ (Keys(Tagged(tag)) \ Held) \cap Found' = {}
  <1>1. PICK more \in SUBSET PutBack(tag) : cache' = cache \ (Tagged(tag) \cup more)
    BY DEF Purged
  <1>2. Held' = Held
    BY DEF Held
  <1>3. ASSUME NEW k \in Keys(Tagged(tag)), k \in Keys(cache')
        PROVE  FALSE
    <2>1. PICK e \in Tagged(tag) : k = Key(e)
      BY DEF Keys
    <2>2. PICK f \in cache \ Tagged(tag) : k = Key(f)
      BY <1>1, <1>3 DEF Keys
    <2>3. e = f
      BY <2>1, <2>2, Types DEF OneResult, Tagged
    <2> QED
      BY <2>1, <2>2, <2>3
  <1> QED
    BY <1>1, <1>2, <1>3 DEF Found

LEMMA RunsKeeps ==
    ASSUME Inv, NEW c \in Clients, admin[c].at = "running", Len(admin[c].values) < Len(admin[c].fields),
           NEW keys \in SUBSET (Operations \X Versions), NEW value \in Values, Runs(c, keys, value),
           value = Null => NextField(c).does = "purgeType",
           value = TRUE => keys \cap Found' = {},
           UNCHANGED <<conf, schema, document, change, http, conn, inFlight, lost>>, cache' \subseteq cache
    PROVE  Inv'
  <1> DEFINE Gone == SUBSET (Operations \X Versions)
             gone == IF value = TRUE THEN keys ELSE {}
             a == [admin[c] EXCEPT !.values = Append(@, value), !.purged = Append(@, gone)]
  <1>1. admin[c] \in AdminRecords /\ Told(admin[c], Found)
    BY Types DEF AllTold
  <1>2. gone \in Gone
    OBVIOUS
  <1>3. value = TRUE => gone = keys
    OBVIOUS
  <1>4. admin[c].values \in Seq(Values) /\ admin[c].purged \in Seq(Gone)
    BY <1>1 DEF AdminRecords
  <1>5. admin' = [admin EXCEPT ![c] = a]
    BY DEF Runs
  <1> HIDE DEF gone, Gone
  <1>6. /\ a.values = Append(admin[c].values, value) /\ a.purged = Append(admin[c].purged, gone)
        /\ a.at = "running" /\ a.fields = admin[c].fields
    BY <1>1 DEF AdminRecords
  <1>7. Append(admin[c].values, value) \in Seq(Values) /\ Append(admin[c].purged, gone) \in Seq(Gone)
    BY <1>2, <1>4
  <1>8. a \in AdminRecords
    BY <1>1, <1>7 DEF AdminRecords, Gone
  <1> HIDE DEF a
  <1> DEFINE n == Len(admin[c].values)
  <1>9. /\ n \in Nat /\ Len(a.values) = n + 1 /\ Len(a.purged) = n + 1
        /\ a.values[n + 1] = value /\ a.purged[n + 1] = gone
        /\ \A i \in 1 .. n : a.values[i] = admin[c].values[i] /\ a.purged[i] = admin[c].purged[i]
    <2>1. Len(admin[c].purged) = n /\ n \in Nat
      BY <1>1, <1>4 DEF Told
    <2> QED
      BY <1>2, <1>4, <1>6, <2>1
  <1>10. Len(a.fields) \in Nat /\ a.fields \in AdminDocs
    <2>1. a.fields \in AdminDocs
      BY <1>1, <1>6 DEF Told
    <2>2. a.fields \in Seq(ToSet(a.fields))
      BY <2>1, FieldsAssumption
    <2> QED
      BY <2>1, <2>2
  <1>11. Found' \subseteq Found
    BY FoundSame
  <1>12. ASSUME NEW i \in 1 .. Len(a.values)
         PROVE  /\ a.values[i] = Null => a.fields[i].does = "purgeType"
                /\ a.values[i] = TRUE => a.purged[i] \cap Found' = {}
    <2>1. CASE i = n + 1
      BY <1>3, <1>6, <1>9, <2>1 DEF NextField
    <2>2. CASE i # n + 1
      <3>1. i \in 1 .. n
        BY <1>9, <2>2
      <3> QED
        BY <1>1, <1>6, <1>9, <1>11, <3>1 DEF Told
    <2> QED
      BY <2>1, <2>2
  <1>13. Told(a, Found')
    <2>1. Len(a.values) <= Len(a.fields)
      BY <1>6, <1>9, <1>10
    <2> QED
      BY <1>6, <1>9, <1>10, <1>12, <2>1 DEF Told
  <1> QED
    BY <1>5, <1>8, <1>13, AdminMoves

LEMMA AdminFieldKeeps ==
    ASSUME Inv, NEW c \in Clients, AdminField(c)
    PROVE  Inv'
  <1> DEFINE field == NextField(c)
             tag == TagOf(field, <<"schema", admin[c].schema>>)
             keys == Keys(Tagged(tag)) \ Held
  <1>1. /\ admin[c].at = "running" /\ Len(admin[c].values) < Len(admin[c].fields)
        /\ UNCHANGED <<conf, schema, document, change, http, conn, inFlight, lost>>
    BY DEF AdminField
  <1>2. keys \in SUBSET (Operations \X Versions)
    BY Types DEF Tagged, Results, Keys, Key
  <1>3. \/ Runs(c, {}, Text) /\ cache' = cache
        \/ Purged(tag) /\ Runs(c, keys, Resolved(field, TRUE))
        \/ PurgeFails(tag) /\ Runs(c, keys, Resolved(field, FALSE))
    BY DEF AdminField
  <1>7. Purged(tag) => cache' \subseteq cache /\ keys \cap Found' = {}
    BY <1>1, PurgedApart
  <1> HIDE DEF field, tag, keys
  <1>4. CASE Runs(c, {}, Text) /\ cache' = cache
    BY <1>1, <1>4, AnswerOfField, RunsKeeps
  <1>5. CASE Purged(tag) /\ Runs(c, keys, Resolved(field, TRUE))
    <2>1. Runs(c, keys, TRUE)
      BY <1>5, AnswerOfField
    <2>2. cache' \subseteq cache /\ keys \cap Found' = {}
      BY <1>5, <1>7
    <2> QED
      BY <1>1, <1>2, <2>1, <2>2, AnswerOfField, RunsKeeps
  <1>6. CASE PurgeFails(tag) /\ Runs(c, keys, Resolved(field, FALSE))
    <2>1. PICK v \in Values : /\ Runs(c, keys, v) /\ v # TRUE
                              /\ v = Null => field.does = "purgeType"
      BY <1>6, AnswerOfField
    <2>2. cache' \subseteq cache
      BY <1>6 DEF PurgeFails
    <2> QED
      BY <1>1, <1>2, <2>1, <2>2, RunsKeeps DEF field
  <1> QED
    BY <1>3, <1>4, <1>5, <1>6

LEMMA AdminAnswerKeeps ==
    ASSUME Inv, NEW c \in Clients, AdminAnswer(c)
    PROVE  Inv'
  <1> DEFINE a == [admin[c] EXCEPT !.at = "answered", !.data = Data(admin[c].values)]
  <1>1. admin[c] \in AdminRecords /\ Told(admin[c], Found) /\ admin[c].at = "running"
        /\ Len(admin[c].values) = Len(admin[c].fields)
    BY Types DEF AllTold, AdminAnswer
  <1>2. Data(admin[c].values) \in Seq(Values) \cup {Null}
    BY <1>1 DEF Data, AdminRecords
  <1>3. a \in AdminRecords
    BY <1>1, <1>2 DEF AdminRecords
  <1>4. /\ a.at = "answered" /\ a.data = Data(a.values) /\ a.values = admin[c].values
        /\ a.fields = admin[c].fields /\ a.purged = admin[c].purged
    BY <1>1 DEF AdminRecords
  <1>5. admin' = [admin EXCEPT ![c] = a]
    BY <1>1 DEF AdminAnswer
  <1> HIDE DEF a
  <1>6. Found' \subseteq Found
    BY FoundSame DEF AdminAnswer
  <1>7. Told(a, Found')
    BY <1>1, <1>4, <1>6 DEF Told
  <1> QED
    BY <1>3, <1>5, <1>6, <1>7, AdminMoves DEF AdminAnswer
-----------------------------------------------------------------------------
\* A connection goes on, with or without a subscription as before.
LEMMA ConnMoves ==
    ASSUME Inv, NEW c \in Clients, NEW r \in ConnRecords, conn' = [conn EXCEPT ![c] = r],
           r.at # "idle" => http[c].at = "idle",
           r.at \in {"idle", "last", "checking"} => r.request = None,
           r.at = "checking" => r.seen \in Operations,
           r.request = conn[c].request,
           UNCHANGED <<conf, schema, document, change, http, inFlight, lost, cache>>,
           admin' = admin \/ \E d \in Clients : Forget(d)
    PROVE  Inv'
  <1>1. /\ conn' \in [Clients -> ConnRecords] /\ OneThing' /\ AllSeen' /\ conn'[c] = r
        /\ \A d \in Clients \ {c}, l \in AllLabels : Counted(d, l)' <=> Counted(d, l)
    BY ConnFrame
  <1>2. \A l \in AllLabels : Counted(c, l)' <=> Counted(c, l)
    BY <1>1 DEF Counted
  <1>3. GaugeShowsWork'
    BY <1>1, <1>2, GaugeSame, Types
  <1>4. AllTold' /\ admin' \in [Clients -> AdminRecords] /\ OneResult'
    BY ToldKept, FoundSame, OneResultKept, Types
  <1> QED
    BY <1>1, <1>3, <1>4, Types, Whole

\* What is known of a connection in use.
LEMMA ConnIs ==
    ASSUME Inv, NEW c \in Clients
    PROVE  /\ conn[c] \in ConnRecords
           /\ conn[c].at # "idle" => http[c].at = "idle"
           /\ conn[c].at \in {"idle", "last", "checking"} => conn[c].request = None
           /\ conn[c].at = "checking" => conn[c].seen \in Operations
  BY Types DEF OneThing

LEMMA UpgradeKeeps ==
    ASSUME Inv, NEW c \in Clients, Upgrade(c)
    PROVE  Inv'
  <1> DEFINE r == [NoConn EXCEPT !.at = "reading", !.link = TRUE]
  <1>1. r \in ConnRecords
    BY NoRecords DEF ConnRecords
  <1>2. r.at = "reading" /\ r.request = None
    BY DEF NoConn
  <1>3. conn' = [conn EXCEPT ![c] = r] /\ http[c].at = "idle" /\ conn[c].request = None
    BY ConnIs DEF Upgrade, Idle
  <1> HIDE DEF r
  <1> QED
    BY <1>1, <1>2, <1>3, ConnMoves DEF Upgrade

\* The steps that change one field or two.
LEMMA ConnStepsKeep ==
    ASSUME Inv, NEW c \in Clients, \/ \E chunk \in Chunks : Read(c, chunk)
                                   \/ Written(c)
                                   \/ LinkCloses(c)
    PROVE  Inv'
  <1>1. conn[c] \in ConnRecords /\ (conn[c].at # "idle" => http[c].at = "idle")
        /\ (conn[c].at \in {"idle", "last", "checking"} => conn[c].request = None)
        /\ (conn[c].at = "checking" => conn[c].seen \in Operations)
    BY ConnIs
  <1>2. UNCHANGED <<conf, schema, document, change, http, inFlight, lost, cache, admin>>
    BY DEF Read, Written, LinkCloses
  <1>3. CASE \E chunk \in Chunks : Read(c, chunk)
    <2> DEFINE r == [conn[c] EXCEPT !.at = "writing"]
    <2>1. r \in ConnRecords /\ r.request = conn[c].request /\ r.at = "writing"
      BY <1>1 DEF ConnRecords
    <2>2. conn' = [conn EXCEPT ![c] = r] /\ conn[c].at # "idle"
      BY <1>3 DEF Read
    <2> HIDE DEF r
    <2> QED
      BY <1>1, <1>2, <2>1, <2>2, ConnMoves
  <1>4. CASE Written(c)
    <2> DEFINE r == [conn[c] EXCEPT !.at = "reading"]
    <2>1. r \in ConnRecords /\ r.request = conn[c].request /\ r.at = "reading"
      BY <1>1 DEF ConnRecords
    <2>2. conn' = [conn EXCEPT ![c] = r] /\ conn[c].at # "idle"
      BY <1>4 DEF Written
    <2> HIDE DEF r
    <2> QED
      BY <1>1, <1>2, <2>1, <2>2, ConnMoves
  <1>5. CASE LinkCloses(c)
    <2> DEFINE r == [conn[c] EXCEPT !.link = FALSE]
    <2>1. r \in ConnRecords /\ r.request = conn[c].request /\ r.at = conn[c].at /\ r.seen = conn[c].seen
      BY <1>1 DEF ConnRecords
    <2>2. conn' = [conn EXCEPT ![c] = r] /\ conn[c].at # "idle"
      BY <1>5 DEF LinkCloses
    <2> HIDE DEF r
    <2> QED
      BY <1>1, <1>2, <2>1, <2>2, ConnMoves
  <1> QED
    BY <1>3, <1>4, <1>5

\* A connection whose subscription is refused has none.
LEMMA RefusedKeeps ==
    ASSUME Inv, NEW c \in Clients, Refused(c), conn[c].at # "idle", conn[c].request = None,
           UNCHANGED <<conf, schema, document, change, http, admin, inFlight, lost, cache>>
    PROVE  Inv'
  <1> DEFINE r == [conn[c] EXCEPT !.at = "last", !.refused = TRUE, !.seen = None]
  <1>1. conn[c] \in ConnRecords /\ http[c].at = "idle"
    BY ConnIs
  <1>2. r \in ConnRecords /\ r.at = "last" /\ r.request = None
    BY <1>1 DEF ConnRecords
  <1>3. conn' = [conn EXCEPT ![c] = r]
    BY DEF Refused
  <1> HIDE DEF r
  <1> QED
    BY <1>1, <1>2, <1>3, ConnMoves

LEMMA ReadSubscribeKeeps ==
    ASSUME Inv, NEW c \in Clients, NEW chunk \in Chunks, ReadSubscribe(c, chunk)
    PROVE  Inv'
  <1>1. FirstOp(chunk) \in Operations /\ conn[c].at = "reading" /\ conn[c].request = None
    BY FirstOpIn DEF ReadSubscribe
  <1>2. CASE Normalizes(FirstOp(chunk), schema)
    <2> DEFINE r == [conn[c] EXCEPT !.at = "checking", !.seen = FirstOp(chunk)]
    <2>1. conn[c] \in ConnRecords /\ http[c].at = "idle"
      BY <1>1, ConnIs
    <2>2. r \in ConnRecords /\ r.at = "checking" /\ r.request = None /\ r.seen \in Operations
      BY <1>1, <2>1 DEF ConnRecords
    <2>3. conn' = [conn EXCEPT ![c] = r]
      BY <1>2 DEF ReadSubscribe
    <2> HIDE DEF r
    <2> QED
      BY <1>1, <2>1, <2>2, <2>3, ConnMoves DEF ReadSubscribe
  <1>3. CASE ~Normalizes(FirstOp(chunk), schema)
    BY <1>1, <1>3, RefusedKeeps DEF ReadSubscribe
  <1> QED
    BY <1>2, <1>3

LEMMA SubscribeFailsKeeps ==
    ASSUME Inv, NEW c \in Clients, SubscribeFails(c)
    PROVE  Inv'
  BY ConnIs, RefusedKeeps DEF SubscribeFails

LEMMA SubscribeKeeps ==
    ASSUME Inv, NEW c \in Clients, Subscribe(c)
    PROVE  Inv'
  <1> DEFINE r == [conn[c] EXCEPT !.at = "writing", !.request = conn[c].seen, !.seen = None]
  <1>1. /\ conn[c] \in ConnRecords /\ http[c].at = "idle" /\ conn[c].seen \in Operations
        /\ conn[c].request = None
    BY ConnIs DEF Subscribe
  <1>2. r \in ConnRecords /\ r.at = "writing" /\ r.request = conn[c].seen
    BY <1>1 DEF ConnRecords
  <1>3. conn' = [conn EXCEPT ![c] = r] /\ UNCHANGED <<conf, schema, document, change, http, admin, lost, cache>>
        /\ inFlight' = CountedIn(conn[c].seen)
    BY DEF Subscribe
  <1> HIDE DEF r
  <1>4. /\ conn' \in [Clients -> ConnRecords] /\ OneThing' /\ AllSeen' /\ conn'[c] = r
        /\ \A d \in Clients \ {c}, l \in AllLabels : Counted(d, l)' <=> Counted(d, l)
    BY <1>1, <1>2, <1>3, ConnFrame
  <1>5. r.request # None
    BY <1>1, <1>2, NoneAssumption
  <1>6. \A l \in AllLabels : ~Counted(c, l) /\ (Counted(c, l)' <=> l = Labels(conn[c].seen))
    BY <1>1, <1>2, <1>3, <1>4, <1>5 DEF Counted
  <1>7. GaugeShowsWork' /\ inFlight' \in [AllLabels -> Nat]
    BY <1>1, <1>3, <1>4, <1>6, GaugeUp, Types
  <1>8. AllTold' /\ admin' \in [Clients -> AdminRecords] /\ OneResult'
    BY <1>3, ToldKept, FoundSame, OneResultKept, Types
  <1> QED
    BY <1>3, <1>4, <1>7, <1>8, Types, Whole

\* A connection is over; a subscription of it is counted out, or is lost.
LEMMA ConnEnds ==
    ASSUME Inv, NEW c \in Clients, conn[c].at # "idle", conn' = [conn EXCEPT ![c] = NoConn],
           UNCHANGED <<conf, schema, document, change, http, admin, cache>>,
           IF conn[c].request = None THEN UNCHANGED <<inFlight, lost>>
           ELSE \/ inFlight' = CountedOut(conn[c].request) /\ lost' = lost
                \/ inFlight' = inFlight /\ lost' = [lost EXCEPT ![Labels(conn[c].request)] = @ + 1]
    PROVE  Inv'
  <1>1. NoConn \in ConnRecords /\ NoConn.at = "idle" /\ NoConn.request = None
    BY NoRecords DEF NoConn
  <1>2. CASE conn[c].request = None
    BY <1>1, <1>2, ConnMoves
  <1>3. CASE conn[c].request # None
    <2>1. http[c].at = "idle" /\ conn[c].request \in Operations
      BY <1>3, ConnIs DEF ConnRecords
    <2>2. /\ conn' \in [Clients -> ConnRecords] /\ OneThing' /\ AllSeen' /\ conn'[c] = NoConn
          /\ \A d \in Clients \ {c}, l \in AllLabels : Counted(d, l)' <=> Counted(d, l)
      BY <1>1, ConnFrame
    <2>3. \A l \in AllLabels : (Counted(c, l) <=> l = Labels(conn[c].request)) /\ ~Counted(c, l)'
      BY <1>1, <1>3, <2>1, <2>2 DEF Counted
    <2>4. GaugeShowsWork' /\ inFlight' \in [AllLabels -> Nat] /\ lost' \in [AllLabels -> Nat]
      BY <1>3, <2>1, <2>2, <2>3, GaugeDown, Types
    <2>5. AllTold' /\ admin' \in [Clients -> AdminRecords] /\ OneResult'
      BY ToldKept, FoundSame, OneResultKept, Types
    <2> QED
      BY <2>2, <2>4, <2>5, Types, Whole
  <1> QED
    BY <1>2, <1>3

LEMMA ConnEndsKeep ==
    ASSUME Inv, NEW c \in Clients, WriteFails(c) \/ LastWritten(c) \/ ReadFails(c)
    PROVE  Inv'
  <1>1. CASE WriteFails(c)
    BY <1>1, ConnEnds DEF WriteFails
  <1>2. CASE LastWritten(c)
    <2>1. conn[c].request = None
      BY <1>2, ConnIs DEF LastWritten
    <2> QED
      BY <1>2, <2>1, ConnEnds DEF LastWritten
  <1>3. CASE ReadFails(c)
    BY <1>3, ConnEnds DEF ReadFails
  <1> QED
    BY <1>1, <1>2, <1>3

-----------------------------------------------------------------------------
LEMMA StutterKeeps == Inv /\ UNCHANGED vars => Inv'
  <1> SUFFICES ASSUME Inv, UNCHANGED vars
               PROVE  Inv'
    OBVIOUS
  <1>1. UNCHANGED <<conf, schema, document, change, http, conn, admin, inFlight, lost, cache>>
    BY DEF vars
  <1>2. AllTold' /\ admin' \in [Clients -> AdminRecords]
    BY <1>1, ToldKept, FoundSame
  <1> QED
    BY <1>1, <1>2, AdminFrame

LEMMA StepKeeps == Inv /\ [Next]_vars => Inv'
  <1> SUFFICES ASSUME Inv, Next
               PROVE  Inv'
    BY StutterKeeps
  <1>1. CASE SchemaChanges
    BY <1>1, SchemaChangesKeeps
  <1>2. CASE DocumentChanges
    BY <1>2, DocumentChangesKeeps
  <1>3. CASE OldPurged
    BY <1>3, OldPurgedKeeps
  <1>4. ASSUME NEW c \in Clients, NEW op \in Operations, Receive(c, op)
        PROVE  Inv'
    BY <1>4, ReceiveKeeps
  <1>5. ASSUME NEW c \in Clients, HttpStep(c)
        PROVE  Inv'
    BY <1>5, ValidateKeeps, ValidateFailsKeeps, BindSchemaKeeps, ForwardKeeps, AnswersKeep, HitKeeps, CountHitKeeps,
       KeepKeeps DEF HttpStep
  <1>6. ASSUME NEW c \in Clients,
               (\E fields \in AdminDocs : AdminReceive(c, fields)) \/ AdminField(c) \/ AdminAnswer(c)
        PROVE  Inv'
    BY <1>6, AdminReceiveKeeps, AdminFieldKeeps, AdminAnswerKeeps
  <1>7. ASSUME NEW c \in Clients, Upgrade(c) \/ \E chunk \in Chunks : Read(c, chunk) \/ ReadSubscribe(c, chunk)
        PROVE  Inv'
    BY <1>7, UpgradeKeeps, ConnStepsKeep, ReadSubscribeKeeps
  <1>8. ASSUME NEW c \in Clients, ConnStep(c) \/ ReadFails(c) \/ LinkCloses(c)
        PROVE  Inv'
    BY <1>8, SubscribeKeeps, SubscribeFailsKeeps, ConnStepsKeep, ConnEndsKeep DEF ConnStep
  <1> QED
    BY <1>1, <1>2, <1>3, <1>4, <1>5, <1>6, <1>7, <1>8 DEF Next

\* Whatever the clients do and however the schema changes, what is counted,
\* seen and told fits together (the handlers of router.go and ws.go with
\* onSchemaChanged and the admin's resolvers).
THEOREM InvariantHolds == Spec => []Inv
  BY InitHolds, StepKeeps, PTL DEF Spec

\* Every variable has its type: an admin's answers are values, and the gauge
\* never falls below zero.
THEOREM TypeCorrect == Spec => []TypeOK
  <1>1. Inv => TypeOK
    BY Types
  <1> QED
    BY <1>1, InvariantHolds, PTL

\* For any number of clients, the gauge is the number of operations in work
\* (addMetricsBeginRequest, addMetricsEndRequest and their callers).
THEOREM GaugeRight == Spec => []GaugeShowsWork
  <1>1. Inv => GaugeShowsWork
    BY Types
  <1> QED
    BY <1>1, InvariantHolds, PTL

\* For any number of schemas, no result is kept under a schema older than the
\* document that tagged it (onSchemaChanged and GraphQLHandle).
THEOREM OneSchema == Spec => []SchemasAgree
  <1>1. Inv => SchemasAgree
    BY Types DEF AllSeen, Seen, SchemasAgree
  <1> QED
    BY <1>1, InvariantHolds, PTL

\* For admin requests of any length, what an admin is told is so (the resolvers
\* and _Mutation).
THEOREM AdminsTold == Spec => []AdminTold
  <1>1. ASSUME Inv, NEW c \in Clients, admin[c].at = "answered"
        PROVE  \/ /\ admin[c].data = Null
                  /\ \E i \in DOMAIN admin[c].fields :
                        admin[c].fields[i].does = "purgeType" /\ admin[c].values[i] = Null
               \/ /\ admin[c].data = admin[c].values /\ Len(admin[c].data) = Len(admin[c].fields)
                  /\ \A i \in DOMAIN admin[c].data :
                        admin[c].data[i] = TRUE => admin[c].purged[i] \cap Keys(cache) = {}
    <2> DEFINE a == admin[c]
    <2>1. a \in AdminRecords /\ Told(a, Found)
      BY <1>1, Types DEF AllTold
    <2>2. a.fields \in AdminDocs /\ a.values \in Seq(Values)
      BY <1>1, <2>1 DEF AdminRecords, Told
    <2>3. a.fields \in Seq(ToSet(a.fields))
      BY <2>2, FieldsAssumption
    <2>4. Len(a.values) = Len(a.fields) /\ a.data = Data(a.values)
      BY <1>1, <2>1 DEF Told
    <2>5. DOMAIN a.fields = 1 .. Len(a.values) /\ DOMAIN a.values = 1 .. Len(a.values)
      BY <2>2, <2>3, <2>4
    <2>6. \A i \in 1 .. Len(a.values) :
             /\ a.values[i] = Null => a.fields[i].does = "purgeType"
             /\ a.values[i] = TRUE => a.purged[i] \cap Keys(cache) = {}
      BY <1>1, <2>1 DEF Told, Found
    <2>7. CASE Null \in ToSet(a.values)
      <3>1. a.data = Null
        BY <2>4, <2>7 DEF Data
      <3>2. PICK i \in DOMAIN a.values : a.values[i] = Null
        BY <2>7 DEF ToSet
      <3> QED
        BY <2>5, <2>6, <3>1, <3>2
    <2>8. CASE Null \notin ToSet(a.values)
      <3>1. a.data = a.values
        BY <2>4, <2>8 DEF Data
      <3> QED
        BY <2>4, <2>5, <2>6, <3>1
    <2> QED
      BY <2>7, <2>8
  <1>2. Inv => AdminTold
    BY <1>1 DEF AdminTold
  <1> QED
    BY <1>2, InvariantHolds, PTL
=============================================================================
