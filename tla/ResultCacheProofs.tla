-------------------------- MODULE ResultCacheProofs --------------------------
(***************************************************************************)
(* What ResultCache promises for any number of processes, queries, objects *)
(* and tags, any lifetimes and any Cache-Control directives.               *)
(***************************************************************************)
EXTENDS ResultCache, TLAPS

\* A process without a request has a well-formed set of directives.
LEMMA EmptyRequest == NoDirective \in Directives
BY DEF NoDirective, Directives, Seconds, Absent

\* What a stored result is made of.
LEMMA EntriesHaveFields ==
    ASSUME NEW e \in Entry
    PROVE  /\ e.body \in Version /\ e.createdAt \in Nat
           /\ e.expireAt \in Nat \cup {Never}
           /\ e.overtaken \in BOOLEAN
BY DEF Entry

\* Marking a result as overtaken changes nothing else of it.
LEMMA OvertakenEntry ==
    ASSUME NEW e \in Entry
    PROVE  [e EXCEPT !.overtaken = TRUE] \in Entry
BY DEF Entry

\* A lifetime that is not positive becomes none, every other a time.
LEMMA DeadlineType ==
    ASSUME now \in Nat, NEW ttl \in Int
    PROVE  Deadline(ttl) \in Nat \cup {Never}
BY DEF Deadline

\* What a query can see of the upstream is a version of every object.
LEMMA SnapshotType ==
    ASSUME db \in Version, NEW k \in Keys
    PROVE  Snapshot(k) \in Version
BY DEF Snapshot, Version

\* A purge that succeeds leaves the store, the index and the processes well
\* typed, and takes a result from nobody's hands.
LEMMA InvalidateType ==
    ASSUME TypeOK, NEW t \in Tags, InvalidateOk(t) \/ InvalidateFails(t)
    PROVE  /\ store' \in [Keys -> Entry \cup {NoEntry}]
           /\ index' \in [Tags -> SUBSET Keys]
           /\ copy' \in [Procs -> Entry \cup {NoEntry}]
           /\ \A p \in Procs : copy[p] \in Entry => copy'[p] \in Entry
           /\ floor' \in [Keys -> Version]
<1>1. CASE InvalidateOk(t)
  <2>1. \A p \in Procs : copy[p] \in Entry => [copy[p] EXCEPT !.overtaken = TRUE] \in Entry
    BY OvertakenEntry
  <2>2. \A k \in Keys : Snapshot(k) \in Version
    BY SnapshotType DEF TypeOK
  <2>3. /\ store' \in [Keys -> Entry \cup {NoEntry}]
        /\ index' \in [Tags -> SUBSET Keys]
    BY <1>1 DEF InvalidateOk, TypeOK
  <2>4. /\ copy' \in [Procs -> Entry \cup {NoEntry}]
        /\ \A p \in Procs : copy[p] \in Entry => copy'[p] \in Entry
    BY <1>1, <2>1, DistinctAssumption DEF InvalidateOk, TypeOK, Overtake
  <2>5. floor' \in [Keys -> Version]
    BY <1>1, <2>2 DEF InvalidateOk, TypeOK
  <2> QED BY <2>3, <2>4, <2>5
<1>2. CASE InvalidateFails(t)
  BY <1>2 DEF InvalidateFails, TypeOK
<1> QED BY <1>1, <1>2

\* A request that ends leaves its process idle and empty-handed.
LEMMA FinishType ==
    ASSUME TypeOK, NEW p \in Procs, Finish(p)
    PROVE  /\ pc' \in [Procs -> Stages]
           /\ key' \in [Procs -> Keys \cup {NoKey}]
           /\ cc' \in [Procs -> Directives]
           /\ copy' \in [Procs -> Entry \cup {NoEntry}]
           /\ RequestsHeld'
BY EmptyRequest DEF Finish, TypeOK, Stages, RequestsHeld, Querying

\* The program starts well typed.
LEMMA TypeInit == Init => TypeOK
<1> SUFFICES ASSUME Init PROVE TypeOK
  OBVIOUS
<1>1. Zero \in Version
  BY DEF Zero, Version
<1>2. RequestsHeld
  BY DEF Init, RequestsHeld, Querying
<1> QED BY <1>1, <1>2, EmptyRequest DEF Init, TypeOK, Stages

\* A query that arrives is well typed.
LEMMA TypeQuery ==
    ASSUME TypeOK, NEW p \in Procs, NEW k \in Keys, NEW d \in Requests,
           StartQuery(p, k, d)
    PROVE  TypeOK'
<1>1. d \in Directives
  BY ConfigAssumption
<1>2. RequestsHeld'
  BY DEF StartQuery, Goto, RequestsHeld, Querying, TypeOK, Stages, upstream, mutation, history
<1> QED
  BY <1>1, <1>2 DEF TypeOK, StartQuery, Goto, Stages, upstream, mutation, history

\* The steps of a hit, from the store's Get to the answer.
LEMMA TypeHit ==
    ASSUME TypeOK, NEW p \in Procs,
           Lookup(p) \/ Miss(p) \/ Bump(p) \/ BumpFails(p) \/ ServeValid(p)
             \/ ServeStale(p) \/ ClientGone(p)
    PROVE  TypeOK'
<1>1. CASE Lookup(p)
  <2>1. store[key[p]] \in Entry
    BY <1>1 DEF Lookup, Usable, TypeOK, RequestsHeld, Querying
  <2>2. RequestsHeld'
    BY <1>1, <2>1 DEF Lookup, Goto, RequestsHeld, Querying, TypeOK, Stages
  <2> QED
    BY <1>1, <2>1, <2>2 DEF Lookup, Goto, TypeOK, Stages, upstream, mutation, history
<1>2. CASE Miss(p)
  <2>1. RequestsHeld'
    BY <1>2 DEF Miss, Goto, RequestsHeld, Querying, TypeOK, Stages, local
  <2> QED
    BY <1>2, <2>1 DEF Miss, Goto, TypeOK, Stages, upstream, local, mutation, history
<1>3. CASE Bump(p)
  <2>1. key[p] \in Keys /\ copy[p] \in Entry
    BY <1>3 DEF Bump, TypeOK, RequestsHeld, Querying
  <2>2. RequestsHeld'
    BY <1>3 DEF Bump, Goto, RequestsHeld, Querying, TypeOK, Stages, local
  <2>3. PICK lost \in Rounding :
          store' = [store EXCEPT ![key[p]] =
                      [copy[p] EXCEPT !.expireAt = Deadline(Remaining(p) - lost)]]
    BY <1>3 DEF Bump
  <2>4. Remaining(p) - lost \in Int
    BY <2>1, EntriesHaveFields, ConfigAssumption DEF Remaining, Lifetime, TypeOK
  <2>5. Deadline(Remaining(p) - lost) \in Nat \cup {Never}
    BY <2>4, DeadlineType DEF TypeOK
  <2>6. [copy[p] EXCEPT !.expireAt = Deadline(Remaining(p) - lost)] \in Entry
    BY <2>1, <2>5 DEF Entry
  <2> QED
    BY <1>3, <2>2, <2>3, <2>6 DEF Bump, Goto, TypeOK, Stages, upstream, local, mutation, history
<1>4. CASE BumpFails(p)
  <2>1. RequestsHeld'
    BY <1>4 DEF BumpFails, Goto, RequestsHeld, Querying, TypeOK, Stages, local
  <2> QED
    BY <1>4, <2>1 DEF BumpFails, Goto, TypeOK, Stages, upstream, local, mutation, history
<1>5. CASE ServeValid(p) \/ ClientGone(p)
  BY <1>5, FinishType DEF ServeValid, ClientGone, TypeOK, upstream, mutation, history
<1>6. CASE ServeStale(p)
  <2>1. RequestsHeld'
    BY <1>6 DEF ServeStale, Goto, RequestsHeld, Querying, TypeOK, Stages
  <2> QED
    BY <1>6, <2>1 DEF ServeStale, Goto, TypeOK, Stages, upstream, mutation, history
<1> QED BY <1>1, <1>2, <1>3, <1>4, <1>5, <1>6

\* The upstream's answer is a result that can be stored.
LEMMA AnswerType ==
    ASSUME TypeOK, NEW p \in Procs, key[p] \in Keys
    PROVE  Answer(p) \in Entry
<1>1. Snapshot(key[p]) \in Version
  BY SnapshotType DEF TypeOK
<1>2. cc[p].noStore \in BOOLEAN
  BY DEF TypeOK, Directives
<1> QED BY <1>1, <1>2 DEF Answer, Entry, TypeOK

\* The steps of a miss and of a refresh.
LEMMA TypeFetch ==
    ASSUME TypeOK, NEW p \in Procs,
           ForwardMiss(p) \/ RefreshStale(p) \/ AnswerUncached(p) \/ Fill(p) \/ FillFails(p)
    PROVE  TypeOK'
<1>1. CASE ForwardMiss(p) \/ RefreshStale(p)
  <2>1. Answer(p) \in Entry /\ TakeAnswer(p) /\ pc[p] \in {"forward", "refresh"}
    BY <1>1, AnswerType DEF ForwardMiss, RefreshStale, TypeOK, RequestsHeld, Querying
  <2>2. RequestsHeld'
    BY <2>1 DEF TakeAnswer, Goto, RequestsHeld, Querying, TypeOK, Stages
  <2> QED
    BY <2>1, <2>2 DEF TakeAnswer, Goto, TypeOK, Stages, upstream, mutation, history
<1>2. CASE AnswerUncached(p) \/ FillFails(p)
  BY <1>2, FinishType DEF AnswerUncached, FillFails, TypeOK, upstream, mutation, history
<1>3. CASE Fill(p)
  <2>1. key[p] \in Keys /\ copy[p] \in Entry
    BY <1>3 DEF Fill, TypeOK, RequestsHeld, Querying
  <2>2. Deadline(Lifetime) \in Nat \cup {Never}
    BY DeadlineType, ConfigAssumption DEF Lifetime, TypeOK
  <2>3. [copy[p] EXCEPT !.createdAt = now, !.expireAt = Deadline(Lifetime)] \in Entry
    BY <2>1, <2>2 DEF Entry, TypeOK
  <2>4. Finish(p)
    BY <1>3 DEF Fill
  <2>5. store' \in [Keys -> Entry \cup {NoEntry}] /\ index' \in [Tags -> SUBSET Keys]
    BY <1>3, <2>1, <2>3 DEF Fill, TypeOK
  <2> QED
    BY <1>3, <2>4, <2>5, FinishType DEF Fill, TypeOK, upstream, mutation, history
<1> QED BY <1>1, <1>2, <1>3

\* The steps of a mutation.
LEMMA TypeMutation ==
    ASSUME TypeOK, NEW p \in Procs,
           StartMutation(p) \/ Mutate(p) \/ Purge(p) \/ PurgeDone(p) \/ Acknowledge(p)
    PROVE  TypeOK'
<1>1. CASE StartMutation(p)
  <2>1. RequestsHeld'
    BY <1>1 DEF StartMutation, Goto, RequestsHeld, Querying, TypeOK, Stages, local
  <2> QED
    BY <1>1, <2>1 DEF StartMutation, Goto, TypeOK, Stages, upstream, local, mutation, history
<1>2. CASE Mutate(p)
  <2>1. RequestsHeld'
    BY <1>2 DEF Mutate, Goto, RequestsHeld, Querying, TypeOK, Stages, local
  <2>2. db' \in Version
    BY <1>2 DEF Mutate, TypeOK, Version
  <2> QED
    BY <1>2, <2>1, <2>2 DEF Mutate, Goto, TypeOK, Stages, local, history
<1>3. CASE Purge(p)
  <2>1. PICK t \in todo[p] :
          /\ todo' = [todo EXCEPT ![p] = @ \ {t}]
          /\ InvalidateOk(t) \/ InvalidateFails(t)
          /\ failed' = failed \/ failed' = [failed EXCEPT ![p] = @ \cup {t}]
    BY <1>3 DEF Purge
  <2>2. t \in Tags /\ t \in Objs
    BY <2>1 DEF TypeOK, Tags
  <2>3. /\ store' \in [Keys -> Entry \cup {NoEntry}]
        /\ index' \in [Tags -> SUBSET Keys]
        /\ copy' \in [Procs -> Entry \cup {NoEntry}]
        /\ \A q \in Procs : copy[q] \in Entry => copy'[q] \in Entry
        /\ floor' \in [Keys -> Version]
    BY <2>1, <2>2, InvalidateType
  <2>4. RequestsHeld'
    BY <1>3, <2>3 DEF Purge, RequestsHeld, TypeOK
  <2>5. todo' \in [Procs -> SUBSET Objs] /\ failed' \in [Procs -> SUBSET Objs]
    BY <2>1, <2>2 DEF TypeOK
  <2> QED
    BY <1>3, <2>3, <2>4, <2>5 DEF Purge, TypeOK, upstream
<1>4. CASE PurgeDone(p)
  <2>1. RequestsHeld'
    BY <1>4 DEF PurgeDone, Goto, RequestsHeld, Querying, TypeOK, Stages, local
  <2> QED
    BY <1>4, <2>1 DEF PurgeDone, Goto, TypeOK, Stages, upstream, local, mutation, history
<1>5. CASE Acknowledge(p)
  <2>1. Finish(p)
    BY <1>5 DEF Acknowledge
  <2>2. acked' \in Version
    BY <1>5 DEF Acknowledge, TypeOK, Version
  <2>3. Zero \in Version
    BY DEF Zero, Version
  <2> QED
    BY <1>5, <2>1, <2>2, <2>3, FinishType DEF Acknowledge, TypeOK, upstream
<1> QED BY <1>1, <1>2, <1>3, <1>4, <1>5

\* Admin purges, evictions and time.
LEMMA TypeEnvironment ==
    ASSUME TypeOK,
           \/ \E t \in Tags : AdminPurge(t)
           \/ \E k \in Keys : Evict(k)
           \/ Tick
    PROVE  TypeOK'
<1>1. ASSUME NEW t \in Tags, AdminPurge(t) PROVE TypeOK'
  <2>1. /\ store' \in [Keys -> Entry \cup {NoEntry}]
        /\ index' \in [Tags -> SUBSET Keys]
        /\ copy' \in [Procs -> Entry \cup {NoEntry}]
        /\ \A q \in Procs : copy[q] \in Entry => copy'[q] \in Entry
        /\ floor' \in [Keys -> Version]
    BY <1>1, InvalidateType DEF AdminPurge
  <2>2. RequestsHeld'
    BY <1>1, <2>1 DEF AdminPurge, RequestsHeld, TypeOK
  <2> QED BY <1>1, <2>1, <2>2 DEF AdminPurge, TypeOK, upstream, mutation
<1>2. ASSUME NEW k \in Keys, Evict(k) PROVE TypeOK'
  BY <1>2 DEF Evict, TypeOK, RequestsHeld, upstream, local, mutation, history
<1>3. CASE Tick
  BY <1>3 DEF Tick, TypeOK, RequestsHeld, local, mutation, history
<1> QED BY <1>1, <1>2, <1>3

\* A step that changes nothing.
LEMMA TypeStutter == ASSUME TypeOK, UNCHANGED vars PROVE TypeOK'
BY DEF TypeOK, RequestsHeld, vars, upstream, local, mutation, history

\* Every step of the program keeps the types.
LEMMA TypeStep == TypeOK /\ [Next]_vars => TypeOK'
<1> SUFFICES ASSUME TypeOK, [Next]_vars PROVE TypeOK'
  OBVIOUS
<1> QED
  BY TypeQuery, TypeHit, TypeFetch, TypeMutation, TypeEnvironment, TypeStutter DEF Next, Step

\* Every reachable state is well typed, and a process holds a key and a result
\* wherever the code uses them, whatever the store and the upstream answer.
THEOREM TypeCorrect == Spec => []TypeOK
<1>1. Init => TypeOK
  BY TypeInit
<1>2. TypeOK /\ [Next]_vars => TypeOK'
  BY TypeStep
<1> QED BY <1>1, <1>2, PTL DEF Spec

-----------------------------------------------------------------------------
(***************************************************************************)
(* The purge invariant.                                                    *)
(***************************************************************************)
\* An empty store holds nothing that a purge could miss.
LEMMA InitInv == Init => IInv
<1> SUFFICES ASSUME Init PROVE IInv
  OBVIOUS
<1>1. FloorReached
  BY DEF Init, FloorReached, Zero
<1>2. AckedPurged
  BY DataAssumption DEF Init, AckedPurged, Zero
<1>3. MutationsPurged
  BY DEF Init, MutationsPurged
<1> QED
  BY <1>1, <1>2, <1>3 DEF Init, IInv, PurgedUnlessOvertaken, StoredIndexed, HeldFresh,
     HeldIndexed, Cached

\* No purge lowers a floor, and a successful one raises that of every query of
\* the tag to what the query would see now.
LEMMA FloorRises ==
    ASSUME TypeOK, IInv, NEW t \in Tags, InvalidateOk(t) \/ InvalidateFails(t)
    PROVE  /\ \A k \in Keys, o \in Objs : floor[k][o] <= floor'[k][o] \/ o \notin Reads[k]
           /\ \A k \in Keys, o \in Objs : floor'[k][o] <= db[o]
           /\ InvalidateOk(t) =>
                \A k \in Keys : t \in TagsOf(k) =>
                   \A o \in Reads[k] : floor'[k][o] = db[o]
<1>1. \A k \in Keys, o \in Objs : floor[k][o] \in Nat /\ db[o] \in Nat
  BY DEF TypeOK, Version
<1>2. \A k \in Keys : Reads[k] \subseteq Objs
  BY DataAssumption
<1>3. CASE InvalidateOk(t)
  <2>1. \A k \in Keys : floor'[k] = IF t \in TagsOf(k) THEN Snapshot(k) ELSE floor[k]
    BY <1>3 DEF InvalidateOk
  <2>2. \A k \in Keys, o \in Objs :
          /\ Snapshot(k)[o] <= db[o]
          /\ o \in Reads[k] => Snapshot(k)[o] = db[o]
    BY <1>1 DEF Snapshot
  <2>3. \A k \in Keys, o \in Objs : floor[k][o] <= db[o]
    BY DEF IInv, FloorReached
  <2>4. \A k \in Keys, o \in Objs : floor'[k][o] <= db[o]
    BY <2>1, <2>2, <2>3
  <2>5. \A k \in Keys, o \in Objs : floor[k][o] <= floor'[k][o] \/ o \notin Reads[k]
    BY <1>1, <2>1, <2>2, <2>3
  <2>6. \A k \in Keys : t \in TagsOf(k) => \A o \in Reads[k] : floor'[k][o] = db[o]
    BY <1>2, <2>1, <2>2
  <2> QED BY <2>4, <2>5, <2>6
<1>4. CASE InvalidateFails(t)
  <2>1. floor' = floor
    BY <1>4 DEF InvalidateFails
  <2>2. CASE ~InvalidateOk(t)
    BY <1>1, <2>1, <2>2 DEF IInv, FloorReached
  <2> QED BY <1>3, <2>2
<1> QED BY <1>3, <1>4

\* What a purge leaves in the store was under none of the purged tags.
LEMMA InvalidateStore ==
    ASSUME TypeOK, IInv, NEW t \in Tags, InvalidateOk(t) \/ InvalidateFails(t)
    PROVE  /\ PurgedUnlessOvertaken'
           /\ StoredIndexed'
<1>1. CASE InvalidateOk(t)
  <2> SUFFICES ASSUME NEW k \in Keys, Cached(k)', ~store'[k].overtaken
               PROVE  /\ \A o \in Reads[k] : floor'[k][o] <= store'[k].body[o]
                      /\ \A u \in TagsOf(k) : k \in index'[u]
    BY DEF PurgedUnlessOvertaken, StoredIndexed
  <2>1. k \notin index[t] /\ store'[k] = store[k] /\ Cached(k)
    BY <1>1 DEF InvalidateOk, Cached, TypeOK
  <2>2. t \notin TagsOf(k)
    BY <2>1 DEF IInv, StoredIndexed
  <2>3. floor'[k] = floor[k]
    BY <1>1, <2>2 DEF InvalidateOk
  <2>4. \A u \in Tags \ {t} : index'[u] = index[u]
    BY <1>1 DEF InvalidateOk, TypeOK
  <2>5. TagsOf(k) \subseteq Tags
    BY DataAssumption DEF TagsOf, Tags
  <2> QED
    BY <2>1, <2>2, <2>3, <2>4, <2>5 DEF IInv, PurgedUnlessOvertaken, StoredIndexed
<1>2. CASE InvalidateFails(t)
  <2>1. \A k \in Keys : store'[k] = NoEntry \/ store'[k] = store[k]
    BY <1>2 DEF InvalidateFails, TypeOK
  <2> QED
    BY <1>2, <2>1 DEF InvalidateFails, IInv, PurgedUnlessOvertaken, StoredIndexed, Cached
<1> QED BY <1>1, <1>2

\* What a purge does not mark as overtaken was under none of the purged tags.
LEMMA InvalidateHeld ==
    ASSUME TypeOK, IInv, NEW t \in Tags, InvalidateOk(t) \/ InvalidateFails(t),
           pc' = pc, key' = key
    PROVE  HeldFresh' /\ HeldIndexed'
<1>1. CASE InvalidateOk(t)
  <2> SUFFICES ASSUME NEW p \in Procs, pc[p] \in {"bump", "fill"}, ~copy'[p].overtaken
               PROVE  /\ \A o \in Reads[key[p]] : floor'[key[p]][o] <= copy'[p].body[o]
                      /\ pc[p] = "bump" => \A u \in TagsOf(key[p]) : key[p] \in index'[u]
    BY DEF HeldFresh, HeldIndexed
  <2>1. key[p] \in Keys /\ copy[p] \in Entry
    BY DEF TypeOK, RequestsHeld, Querying
  <2>2. t \notin TagsOf(key[p])
    <3>1. SUFFICES ASSUME t \in TagsOf(key[p]) PROVE FALSE
      OBVIOUS
    <3>2. copy'[p] = [copy[p] EXCEPT !.overtaken = TRUE]
      BY <1>1, <2>1, <3>1, DistinctAssumption DEF InvalidateOk, Holds, Overtake
    <3> QED BY <2>1, <3>2 DEF Entry
  <2>3. copy'[p] = copy[p]
    BY <1>1, <2>2 DEF InvalidateOk, Holds
  <2>4. floor'[key[p]] = floor[key[p]]
    BY <1>1, <2>1, <2>2 DEF InvalidateOk
  <2>5. \A u \in Tags \ {t} : index'[u] = index[u]
    BY <1>1 DEF InvalidateOk, TypeOK
  <2>6. TagsOf(key[p]) \subseteq Tags
    BY <2>1, DataAssumption DEF TagsOf, Tags
  <2> QED
    BY <2>2, <2>3, <2>4, <2>5, <2>6 DEF IInv, HeldFresh, HeldIndexed
<1>2. CASE InvalidateFails(t)
  BY <1>2 DEF InvalidateFails, IInv, HeldFresh, HeldIndexed
<1> QED BY <1>1, <1>2

\* A step that stores nothing, takes no new result and starts no purge keeps
\* the invariant: it may drop results and move processes to other stages.
LEMMA QuietInv ==
    ASSUME TypeOK, IInv,
           UNCHANGED <<db, index, mutation, history>>,
           \A k \in Keys : store'[k] \in {store[k], NoEntry},
           \A p \in Procs : pc'[p] \in {"bump", "fill"} =>
              pc'[p] = pc[p] /\ key'[p] = key[p] /\ copy'[p] = copy[p],
           \A p \in Procs : pc'[p] \in {"purge", "ack"} => pc'[p] = pc[p]
    PROVE  IInv'
<1>1. PurgedUnlessOvertaken' /\ StoredIndexed'
  BY DEF IInv, PurgedUnlessOvertaken, StoredIndexed, Cached, history
<1>2. HeldFresh' /\ HeldIndexed'
  BY DEF IInv, HeldFresh, HeldIndexed, history
<1>3. FloorReached' /\ AckedPurged'
  BY DEF IInv, FloorReached, AckedPurged, history
<1>4. MutationsPurged'
  BY DEF IInv, MutationsPurged, mutation, history
<1> QED BY <1>1, <1>2, <1>3, <1>4 DEF IInv

\* The steps that store nothing and purge nothing.
LEMMA InvQuiet ==
    ASSUME TypeOK, IInv, NEW p \in Procs,
           \/ \E k \in Keys, d \in Requests : StartQuery(p, k, d)
           \/ Miss(p) \/ BumpFails(p) \/ ServeValid(p) \/ ServeStale(p) \/ ClientGone(p)
           \/ AnswerUncached(p) \/ FillFails(p) \/ StartMutation(p)
    PROVE  IInv'
<1>1. /\ UNCHANGED <<db, store, index, mutation, history>>
      /\ \E stage \in {"pass", "lookup", "forward", "send", "idle", "refresh", "mutate"} :
            pc' = [pc EXCEPT ![p] = stage]
      /\ \A q \in Procs \ {p} : key'[q] = key[q] /\ copy'[q] = copy[q]
  <2>1. CASE \E k \in Keys, d \in Requests : StartQuery(p, k, d)
    BY <2>1 DEF StartQuery, Goto, TypeOK, upstream
  <2>2. CASE Miss(p) \/ BumpFails(p) \/ StartMutation(p)
    BY <2>2 DEF Miss, BumpFails, StartMutation, Goto, upstream, local
  <2>3. CASE ServeValid(p) \/ ClientGone(p) \/ AnswerUncached(p) \/ FillFails(p)
    BY <2>3 DEF ServeValid, ClientGone, AnswerUncached, FillFails, Finish, TypeOK, upstream
  <2>4. CASE ServeStale(p)
    BY <2>4 DEF ServeStale, Goto, TypeOK, upstream
  <2> QED BY <2>1, <2>2, <2>3, <2>4
<1>2. \A q \in Procs : pc'[q] \in {"bump", "fill"} =>
         pc'[q] = pc[q] /\ key'[q] = key[q] /\ copy'[q] = copy[q]
  BY <1>1 DEF TypeOK
<1>3. \A q \in Procs : pc'[q] \in {"purge", "ack"} => pc'[q] = pc[q]
  BY <1>1 DEF TypeOK
<1> QED BY <1>1, <1>2, <1>3, QuietInv

\* The copy a hit takes is indexed and fresh because what is stored is.
LEMMA InvLookup == ASSUME TypeOK, IInv, NEW p \in Procs, Lookup(p) PROVE IInv'
<1>1. key[p] \in Keys /\ Cached(key[p])
  BY DEF Lookup, Usable, Cached, TypeOK, RequestsHeld, Querying
<1>2. /\ pc' = [pc EXCEPT ![p] = "bump"] /\ copy' = [copy EXCEPT ![p] = store[key[p]]]
      /\ UNCHANGED <<db, store, index, key, mutation, history>>
  BY DEF Lookup, Goto, upstream
<1>3. PurgedUnlessOvertaken' /\ StoredIndexed' /\ FloorReached' /\ AckedPurged'
  BY <1>2 DEF IInv, PurgedUnlessOvertaken, StoredIndexed, FloorReached, AckedPurged, Cached, history
<1>4. MutationsPurged'
  BY <1>2 DEF IInv, MutationsPurged, TypeOK, mutation, history
<1>5. HeldFresh' /\ HeldIndexed'
  <2> SUFFICES ASSUME NEW q \in Procs, pc'[q] \in {"bump", "fill"}, ~copy'[q].overtaken
               PROVE  /\ \A o \in Reads[key[q]] : floor[key[q]][o] <= copy'[q].body[o]
                      /\ pc'[q] = "bump" => \A t \in TagsOf(key[q]) : key[q] \in index[t]
    BY <1>2 DEF HeldFresh, HeldIndexed, history
  <2>1. CASE q = p
    BY <1>1, <1>2, <2>1 DEF TypeOK, IInv, PurgedUnlessOvertaken, StoredIndexed
  <2>2. CASE q # p
    BY <1>2, <2>2 DEF TypeOK, IInv, HeldFresh, HeldIndexed
  <2> QED BY <2>1, <2>2
<1> QED BY <1>3, <1>4, <1>5 DEF IInv

\* The copy a hit puts back is under every tag it was read under, or overtaken.
LEMMA InvBump == ASSUME TypeOK, IInv, NEW p \in Procs, Bump(p) PROVE IInv'
<1>1. key[p] \in Keys /\ copy[p] \in Entry /\ pc[p] = "bump"
  BY DEF Bump, TypeOK, RequestsHeld, Querying
<1>2. /\ pc' = [pc EXCEPT ![p] = "send"]
      /\ UNCHANGED <<db, index, key, copy, mutation, history>>
  BY DEF Bump, Goto, upstream, local
<1>3. PICK ttl :
        store' = [store EXCEPT ![key[p]] = [copy[p] EXCEPT !.expireAt = Deadline(ttl)]]
  BY DEF Bump
<1>4. /\ store'[key[p]].body = copy[p].body
      /\ store'[key[p]].overtaken = copy[p].overtaken
  BY <1>1, <1>3 DEF Entry, TypeOK
<1>5. PurgedUnlessOvertaken' /\ StoredIndexed'
  <2> SUFFICES ASSUME NEW k \in Keys, Cached(k)', ~store'[k].overtaken
               PROVE  /\ \A o \in Reads[k] : floor[k][o] <= store'[k].body[o]
                      /\ \A t \in TagsOf(k) : k \in index[t]
    BY <1>2 DEF PurgedUnlessOvertaken, StoredIndexed, history
  <2>1. CASE k = key[p]
    BY <1>1, <1>4, <2>1 DEF IInv, HeldFresh, HeldIndexed
  <2>2. CASE k # key[p]
    BY <1>3, <2>2 DEF TypeOK, IInv, PurgedUnlessOvertaken, StoredIndexed, Cached
  <2> QED BY <2>1, <2>2
<1>6. HeldFresh' /\ HeldIndexed'
  BY <1>2 DEF TypeOK, IInv, HeldFresh, HeldIndexed, history
<1>7. FloorReached' /\ AckedPurged' /\ MutationsPurged'
  BY <1>2 DEF TypeOK, IInv, FloorReached, AckedPurged, MutationsPurged, mutation, history
<1> QED BY <1>5, <1>6, <1>7 DEF IInv

\* What the upstream answers now is above every floor.
LEMMA InvAnswer ==
    ASSUME TypeOK, IInv, NEW p \in Procs, ForwardMiss(p) \/ RefreshStale(p)
    PROVE  IInv'
<1>1. key[p] \in Keys
  BY DEF ForwardMiss, RefreshStale, TypeOK, RequestsHeld, Querying
<1>2. /\ pc' = [pc EXCEPT ![p] = "fill"] /\ copy' = [copy EXCEPT ![p] = Answer(p)]
      /\ UNCHANGED <<db, store, index, key, mutation, history>>
  BY DEF ForwardMiss, RefreshStale, TakeAnswer, Goto, upstream
<1>3. PurgedUnlessOvertaken' /\ StoredIndexed' /\ FloorReached' /\ AckedPurged'
  BY <1>2 DEF IInv, PurgedUnlessOvertaken, StoredIndexed, FloorReached, AckedPurged, Cached, history
<1>4. MutationsPurged'
  BY <1>2 DEF IInv, MutationsPurged, TypeOK, mutation, history
<1>5. \A o \in Reads[key[p]] : floor[key[p]][o] <= Answer(p).body[o]
  BY <1>1, DataAssumption DEF Answer, Snapshot, IInv, FloorReached
<1>6. HeldFresh' /\ HeldIndexed'
  <2> SUFFICES ASSUME NEW q \in Procs, pc'[q] \in {"bump", "fill"}, ~copy'[q].overtaken
               PROVE  /\ \A o \in Reads[key[q]] : floor[key[q]][o] <= copy'[q].body[o]
                      /\ pc'[q] = "bump" => \A t \in TagsOf(key[q]) : key[q] \in index[t]
    BY <1>2 DEF HeldFresh, HeldIndexed, history
  <2>1. CASE q = p
    BY <1>2, <1>5, <2>1 DEF TypeOK
  <2>2. CASE q # p
    BY <1>2, <2>2 DEF TypeOK, IInv, HeldFresh, HeldIndexed
  <2> QED BY <2>1, <2>2
<1> QED BY <1>3, <1>4, <1>6 DEF IInv

\* A result is stored under all its tags.
LEMMA InvFill == ASSUME TypeOK, IInv, NEW p \in Procs, Fill(p) PROVE IInv'
<1>1. key[p] \in Keys /\ copy[p] \in Entry /\ pc[p] = "fill"
  BY DEF Fill, TypeOK, RequestsHeld, Querying
<1>2. /\ pc' = [pc EXCEPT ![p] = "idle"]
      /\ \A q \in Procs \ {p} : key'[q] = key[q] /\ copy'[q] = copy[q]
      /\ UNCHANGED <<db, mutation, history>>
  BY DEF Fill, Finish, TypeOK, upstream
<1>3. /\ store' = [store EXCEPT ![key[p]] =
                    [copy[p] EXCEPT !.createdAt = now, !.expireAt = Deadline(Lifetime)]]
      /\ \A t \in Tags : index[t] \subseteq index'[t]
      /\ \A t \in TagsOf(key[p]) : key[p] \in index'[t]
  BY <1>1, DataAssumption DEF Fill, TagsOf, Tags
<1>4. /\ store'[key[p]].body = copy[p].body
      /\ store'[key[p]].overtaken = copy[p].overtaken
  BY <1>1, <1>3 DEF Entry, TypeOK
<1>5. \A k \in Keys : TagsOf(k) \subseteq Tags
  BY DataAssumption DEF TagsOf, Tags
<1>6. PurgedUnlessOvertaken' /\ StoredIndexed'
  <2> SUFFICES ASSUME NEW k \in Keys, Cached(k)', ~store'[k].overtaken
               PROVE  /\ \A o \in Reads[k] : floor[k][o] <= store'[k].body[o]
                      /\ \A t \in TagsOf(k) : k \in index'[t]
    BY <1>2 DEF PurgedUnlessOvertaken, StoredIndexed, history
  <2>1. CASE k = key[p]
    BY <1>1, <1>3, <1>4, <2>1 DEF IInv, HeldFresh
  <2>2. CASE k # key[p]
    BY <1>3, <1>5, <2>2 DEF TypeOK, IInv, PurgedUnlessOvertaken, StoredIndexed, Cached
  <2> QED BY <2>1, <2>2
<1>7. HeldFresh' /\ HeldIndexed'
  <2> SUFFICES ASSUME NEW q \in Procs, pc'[q] \in {"bump", "fill"}, ~copy'[q].overtaken
               PROVE  /\ \A o \in Reads[key'[q]] : floor[key'[q]][o] <= copy'[q].body[o]
                      /\ pc'[q] = "bump" => \A t \in TagsOf(key'[q]) : key'[q] \in index'[t]
    BY <1>2 DEF HeldFresh, HeldIndexed, history
  <2>1. q # p /\ key'[q] = key[q] /\ copy'[q] = copy[q] /\ pc'[q] = pc[q]
    BY <1>2 DEF TypeOK
  <2>2. key[q] \in Keys
    BY <2>1 DEF TypeOK, RequestsHeld, Querying
  <2> QED
    BY <1>3, <1>5, <2>1, <2>2 DEF IInv, HeldFresh, HeldIndexed
<1>8. FloorReached' /\ AckedPurged' /\ MutationsPurged'
  BY <1>2 DEF TypeOK, IInv, FloorReached, AckedPurged, MutationsPurged, mutation, history
<1> QED BY <1>6, <1>7, <1>8 DEF IInv

\* The upstream's data only grows, and a mutation that has just been made has
\* purged nothing yet.
LEMMA InvMutate == ASSUME TypeOK, IInv, NEW p \in Procs, Mutate(p) PROVE IInv'
<1>1. /\ pc' = [pc EXCEPT ![p] = "purge"]
      /\ seen' = [seen EXCEPT ![p] = db']
      /\ UNCHANGED <<store, index, key, copy, floor, acked, failed>>
  BY DEF Mutate, Goto, local, history
<1>2. PICK changed \in SUBSET Writable, tags \in SUBSET Objs :
        /\ db' = [o \in Objs |-> IF o \in changed THEN db[o] + 1 ELSE db[o]]
        /\ found' = [found EXCEPT ![p] = tags]
        /\ todo' = [todo EXCEPT ![p] = tags]
  BY DEF Mutate
<1>3. \A o \in Objs : db[o] \in Nat /\ db'[o] \in Nat /\ db[o] <= db'[o]
  BY <1>2 DEF TypeOK, Version
<1>4. PurgedUnlessOvertaken' /\ StoredIndexed' /\ AckedPurged'
  BY <1>1 DEF IInv, PurgedUnlessOvertaken, StoredIndexed, AckedPurged, Cached
<1>5. HeldFresh' /\ HeldIndexed'
  BY <1>1 DEF TypeOK, IInv, HeldFresh, HeldIndexed
<1>6. FloorReached'
  BY <1>1, <1>3 DEF TypeOK, Version, IInv, FloorReached
<1>7. MutationsPurged'
  <2> SUFFICES ASSUME NEW q \in Procs, pc'[q] \in {"purge", "ack"}
               PROVE  /\ \A o \in Objs : seen'[q][o] <= db'[o]
                      /\ \A k \in Keys : \A o \in Keyed[k] :
                           o \in found'[q] \ (failed'[q] \cup todo'[q]) =>
                              seen'[q][o] <= floor'[k][o]
                      /\ pc'[q] = "ack" => todo'[q] = {}
    BY DEF MutationsPurged
  <2>1. CASE q = p
    BY <1>1, <1>2, <1>3, <2>1 DEF TypeOK
  <2>2. CASE q # p
    <3>1. /\ pc'[q] = pc[q] /\ seen'[q] = seen[q]
          /\ found'[q] = found[q] /\ todo'[q] = todo[q]
      BY <1>1, <1>2, <2>2 DEF TypeOK
    <3>2. \A o \in Objs : seen[q][o] \in Nat
      BY DEF TypeOK, Version
    <3> QED BY <1>1, <1>3, <3>1, <3>2 DEF IInv, MutationsPurged
  <2> QED BY <2>1, <2>2
<1> QED BY <1>4, <1>5, <1>6, <1>7 DEF IInv

\* What was acknowledged or purged before a purge is below its floors too.
LEMMA InvalidateAcked ==
    ASSUME TypeOK, IInv, NEW t \in Tags, InvalidateOk(t) \/ InvalidateFails(t),
           acked' = acked
    PROVE  AckedPurged'
<1> SUFFICES ASSUME NEW k \in Keys, NEW o \in Keyed[k] PROVE acked[o] <= floor'[k][o]
  BY DEF AckedPurged
<1>1. o \in Objs /\ o \in Reads[k]
  BY DataAssumption
<1>2. floor[k][o] <= floor'[k][o]
  BY <1>1, FloorRises
<1>3. acked[o] <= floor[k][o]
  BY DEF IInv, AckedPurged
<1>4. acked[o] \in Nat /\ floor[k][o] \in Nat /\ floor'[k][o] \in Nat
  BY <1>1, InvalidateType DEF TypeOK, Version
<1> QED BY <1>2, <1>3, <1>4

\* A turn of the purge loop raises the floors and removes what is below.
LEMMA InvPurge == ASSUME TypeOK, IInv, NEW p \in Procs, Purge(p) PROVE IInv'
<1>1. PICK t \in todo[p] :
        /\ todo' = [todo EXCEPT ![p] = @ \ {t}]
        /\ \/ InvalidateOk(t) /\ failed' = failed
           \/ InvalidateFails(t) /\ failed' = [failed EXCEPT ![p] = @ \cup {t}]
  BY DEF Purge
<1>2. t \in Tags /\ t \in Objs
  BY <1>1 DEF TypeOK, Tags
<1>3. UNCHANGED <<db, pc, key, found, seen, acked>> /\ pc[p] = "purge"
  BY DEF Purge, upstream
<1>4. PurgedUnlessOvertaken' /\ StoredIndexed' /\ HeldFresh' /\ HeldIndexed' /\ AckedPurged'
  BY <1>1, <1>2, <1>3, InvalidateStore, InvalidateHeld, InvalidateAcked
<1>5. FloorReached'
  BY <1>1, <1>2, <1>3, FloorRises DEF FloorReached
<1>6. MutationsPurged'
  <2> SUFFICES ASSUME NEW q \in Procs, pc[q] \in {"purge", "ack"}
               PROVE  /\ \A o \in Objs : seen[q][o] <= db[o]
                      /\ \A k \in Keys : \A o \in Keyed[k] :
                           o \in found[q] \ (failed'[q] \cup todo'[q]) =>
                              seen[q][o] <= floor'[k][o]
                      /\ pc[q] = "ack" => todo'[q] = {}
    BY <1>3 DEF MutationsPurged
  <2>2. \A o \in Objs : seen[q][o] <= db[o]
    BY DEF IInv, MutationsPurged
  <2>3. pc[q] = "ack" => todo'[q] = {}
    BY <1>1, <1>3 DEF IInv, MutationsPurged, TypeOK
  <2>4. ASSUME NEW k \in Keys, NEW o \in Keyed[k],
               o \in found[q] \ (failed'[q] \cup todo'[q])
        PROVE  seen[q][o] <= floor'[k][o]
    <3>1. o \in Objs /\ o \in Reads[k] /\ o \in TagsOf(k)
      BY DataAssumption DEF TagsOf
    <3>2. CASE o \in failed[q] \cup todo[q]
      <4>1. q = p /\ o = t
        BY <1>1, <2>4, <3>2 DEF TypeOK
      <4>2. InvalidateOk(t)
        BY <1>1, <2>4, <4>1 DEF TypeOK
      <4> QED BY <1>2, <2>2, <3>1, <4>1, <4>2, FloorRises
    <3>3. CASE o \notin failed[q] \cup todo[q]
      <4>1. seen[q][o] <= floor[k][o]
        BY <2>4, <3>3 DEF IInv, MutationsPurged
      <4>2. floor[k][o] <= floor'[k][o]
        BY <1>1, <1>2, <3>1, FloorRises
      <4>3. seen[q][o] \in Nat /\ floor[k][o] \in Nat /\ floor'[k][o] \in Nat
        BY <1>1, <1>2, <3>1, InvalidateType DEF TypeOK, Version
      <4> QED BY <4>1, <4>2, <4>3
    <3> QED BY <3>2, <3>3
  <2> QED BY <2>2, <2>3, <2>4
<1> QED BY <1>4, <1>5, <1>6 DEF IInv

\* A mutation goes on to its answer once no tag is left.
LEMMA InvPurgeDone == ASSUME TypeOK, IInv, NEW p \in Procs, PurgeDone(p) PROVE IInv'
<1>1. /\ pc' = [pc EXCEPT ![p] = "ack"] /\ pc[p] = "purge" /\ todo[p] = {}
      /\ UNCHANGED <<db, store, index, key, copy, mutation, history>>
  BY DEF PurgeDone, Goto, upstream, local
<1>2. PurgedUnlessOvertaken' /\ StoredIndexed' /\ FloorReached' /\ AckedPurged'
  BY <1>1 DEF IInv, PurgedUnlessOvertaken, StoredIndexed, FloorReached, AckedPurged, Cached, history
<1>3. HeldFresh' /\ HeldIndexed'
  BY <1>1 DEF TypeOK, IInv, HeldFresh, HeldIndexed, history
<1>4. MutationsPurged'
  BY <1>1 DEF TypeOK, IInv, MutationsPurged, mutation, history
<1> QED BY <1>2, <1>3, <1>4 DEF IInv

\* What is acknowledged was purged: the loop is over and no tag is left.
LEMMA InvAcknowledge == ASSUME TypeOK, IInv, NEW p \in Procs, Acknowledge(p) PROVE IInv'
<1>1. /\ pc' = [pc EXCEPT ![p] = "idle"] /\ pc[p] = "ack"
      /\ \A q \in Procs \ {p} : /\ key'[q] = key[q] /\ copy'[q] = copy[q]
                               /\ found'[q] = found[q] /\ todo'[q] = todo[q]
                               /\ failed'[q] = failed[q] /\ seen'[q] = seen[q]
      /\ UNCHANGED <<db, store, index, floor>>
  BY DEF Acknowledge, Finish, TypeOK, upstream
<1>2. \A o \in Objs :
        acked'[o] = IF o \in found[p] \ failed[p] /\ acked[o] < seen[p][o]
                    THEN seen[p][o] ELSE acked[o]
  BY DEF Acknowledge
<1>3. PurgedUnlessOvertaken' /\ StoredIndexed' /\ FloorReached'
  BY <1>1 DEF IInv, PurgedUnlessOvertaken, StoredIndexed, FloorReached, Cached
<1>4. HeldFresh' /\ HeldIndexed'
  BY <1>1 DEF TypeOK, IInv, HeldFresh, HeldIndexed
<1>5. AckedPurged'
  <2> SUFFICES ASSUME NEW k \in Keys, NEW o \in Keyed[k] PROVE acked'[o] <= floor[k][o]
    BY <1>1 DEF AckedPurged
  <2>1. o \in Objs
    BY DataAssumption
  <2>2. todo[p] = {}
    BY <1>1 DEF IInv, MutationsPurged
  <2>3. o \in found[p] \ failed[p] => seen[p][o] <= floor[k][o]
    BY <1>1, <2>2 DEF IInv, MutationsPurged
  <2> QED BY <1>2, <2>1, <2>3 DEF IInv, AckedPurged
<1>6. MutationsPurged'
  <2> SUFFICES ASSUME NEW q \in Procs, pc'[q] \in {"purge", "ack"}
               PROVE  /\ \A o \in Objs : seen'[q][o] <= db'[o]
                      /\ \A k \in Keys : \A o \in Keyed[k] :
                           o \in found'[q] \ (failed'[q] \cup todo'[q]) =>
                              seen'[q][o] <= floor'[k][o]
                      /\ pc'[q] = "ack" => todo'[q] = {}
    BY DEF MutationsPurged
  <2>1. q # p /\ pc'[q] = pc[q]
    BY <1>1 DEF TypeOK
  <2> QED BY <1>1, <2>1 DEF IInv, MutationsPurged
<1> QED BY <1>3, <1>4, <1>5, <1>6 DEF IInv

\* A purge of the admin API does what a turn of a mutation's loop does.
LEMMA InvAdminPurge == ASSUME TypeOK, IInv, NEW t \in Tags, AdminPurge(t) PROVE IInv'
<1>1. /\ UNCHANGED <<db, pc, key, mutation, acked>>
      /\ InvalidateOk(t) \/ InvalidateFails(t)
  BY DEF AdminPurge, upstream
<1>2. PurgedUnlessOvertaken' /\ StoredIndexed' /\ HeldFresh' /\ HeldIndexed' /\ AckedPurged'
  BY <1>1, InvalidateStore, InvalidateHeld, InvalidateAcked
<1>3. FloorReached'
  BY <1>1, FloorRises DEF FloorReached
<1>4. MutationsPurged'
  <2>1. ASSUME NEW q \in Procs, pc[q] \in {"purge", "ack"}, NEW k \in Keys, NEW o \in Keyed[k],
               o \in found[q] \ (failed[q] \cup todo[q])
        PROVE  seen[q][o] <= floor'[k][o]
    <3>1. o \in Objs /\ o \in Reads[k]
      BY DataAssumption
    <3>2. seen[q][o] <= floor[k][o]
      BY <2>1 DEF IInv, MutationsPurged
    <3>3. floor[k][o] <= floor'[k][o]
      BY <1>1, <3>1, FloorRises
    <3>4. seen[q][o] \in Nat /\ floor[k][o] \in Nat /\ floor'[k][o] \in Nat
      BY <1>1, <3>1, InvalidateType DEF TypeOK, Version
    <3> QED BY <3>2, <3>3, <3>4
  <2> QED BY <1>1, <2>1 DEF IInv, MutationsPurged, mutation
<1> QED BY <1>2, <1>3, <1>4 DEF IInv

\* What is dropped or expires is missed by no purge.
LEMMA InvEnvironment ==
    ASSUME TypeOK, IInv, (\E k \in Keys : Evict(k)) \/ Tick \/ UNCHANGED vars
    PROVE  IInv'
<1>1. CASE \E k \in Keys : Evict(k)
  BY <1>1, QuietInv DEF Evict, TypeOK, upstream, local
<1>2. CASE Tick
  BY <1>2, QuietInv DEF Tick, local
<1>3. CASE UNCHANGED vars
  BY <1>3, QuietInv DEF vars, upstream, local
<1> QED BY <1>1, <1>2, <1>3

\* Every step of the program keeps the purge invariant.
LEMMA InvStep == TypeOK /\ IInv /\ [Next]_vars => IInv'
<1> SUFFICES ASSUME TypeOK, IInv, [Next]_vars PROVE IInv'
  OBVIOUS
<1> QED
  BY InvQuiet, InvLookup, InvBump, InvAnswer, InvFill, InvMutate, InvPurge, InvPurgeDone,
     InvAcknowledge, InvAdminPurge, InvEnvironment DEF Next, Step

\* The tag index, the overtaken marks and the mutations' loops keep track of
\* every result that a purge must reach, in every reachable state.
THEOREM InvariantHolds == Spec => []IInv
<1>1. Init => IInv
  BY InitInv
<1>2. TypeOK /\ IInv /\ [Next]_vars => IInv'
  BY InvStep
<1> QED BY <1>1, <1>2, TypeCorrect, PTL DEF Spec

\* However many requests, refreshes, mutations and admin purges interleave, a
\* cached result older than a successful purge of one of its tags comes from a
\* request that was in flight during that purge.
THEOREM PurgesReach == Spec => []PurgedUnlessOvertaken
<1>1. IInv => PurgedUnlessOvertaken
  BY DEF IInv
<1> QED BY <1>1, InvariantHolds, PTL

\* A mutation whose answer is out left no result that shows one of its objects
\* under its key as it was before, except what was in flight.
THEOREM WritesVisible == Spec => []AckedWritesVisible
<1>1. TypeOK /\ IInv => AckedWritesVisible
  <2> SUFFICES ASSUME TypeOK, IInv, NEW k \in Keys, Cached(k), ~store[k].overtaken,
                      NEW o \in Keyed[k]
               PROVE  acked[o] <= store[k].body[o]
    BY DEF AckedWritesVisible
  <2>1. o \in Objs /\ o \in Reads[k]
    BY DataAssumption
  <2>2. acked[o] <= floor[k][o] /\ floor[k][o] <= store[k].body[o]
    BY <2>1 DEF IInv, AckedPurged, PurgedUnlessOvertaken
  <2>3. store[k] \in Entry
    BY DEF TypeOK, Cached
  <2>4. acked[o] \in Nat /\ floor[k][o] \in Nat /\ store[k].body[o] \in Nat
    BY <2>1, <2>3 DEF TypeOK, Entry, Version
  <2> QED BY <2>2, <2>4
<1> QED BY <1>1, TypeCorrect, InvariantHolds, PTL

-----------------------------------------------------------------------------
(***************************************************************************)
(* The lifetime of results.                                                *)
(***************************************************************************)
\* A step that stores nothing cannot lengthen a lifetime.
LEMMA LifetimeQuiet ==
    ASSUME LifetimeBound, \A k \in Keys : store'[k] \in {store[k], NoEntry}
    PROVE  LifetimeBound'
BY DEF LifetimeBound, Cached

\* A hit carries over at most what remains of the lifetime.
LEMMA LifetimeBump ==
    ASSUME TypeOK, LifetimeBound, NEW p \in Procs, Bump(p)
    PROVE  LifetimeBound'
<1>1. key[p] \in Keys /\ copy[p] \in Entry
  BY DEF Bump, TypeOK, RequestsHeld, Querying
<1>2. PICK lost \in Rounding :
        store' = [store EXCEPT ![key[p]] =
                    [copy[p] EXCEPT !.expireAt = Deadline(Remaining(p) - lost)]]
  BY DEF Bump
<1>3. /\ store'[key[p]].createdAt = copy[p].createdAt
      /\ store'[key[p]].expireAt = Deadline(Remaining(p) - lost)
  BY <1>1, <1>2 DEF Entry, TypeOK
<1>4. /\ copy[p].createdAt \in Nat /\ now \in Nat /\ lost \in Nat
      /\ Lifetime \in Nat
  BY <1>1, EntriesHaveFields, ConfigAssumption DEF TypeOK, Lifetime
<1>5. Deadline(Remaining(p) - lost) # Never =>
        Deadline(Remaining(p) - lost) <= copy[p].createdAt + Lifetime
  BY <1>4 DEF Deadline, Remaining
<1> SUFFICES ASSUME NEW k \in Keys, Cached(k)', store'[k].expireAt # Never
             PROVE  store'[k].expireAt <= store'[k].createdAt + Lifetime
  BY DEF LifetimeBound
<1>6. CASE k = key[p]
  BY <1>3, <1>5, <1>6
<1>7. CASE k # key[p]
  BY <1>2, <1>7 DEF TypeOK, LifetimeBound, Cached
<1> QED BY <1>6, <1>7

\* A result gets the whole lifetime when it is created.
LEMMA LifetimeFill ==
    ASSUME TypeOK, LifetimeBound, NEW p \in Procs, Fill(p)
    PROVE  LifetimeBound'
<1>1. key[p] \in Keys /\ copy[p] \in Entry
  BY DEF Fill, TypeOK, RequestsHeld, Querying
<1>2. store' = [store EXCEPT ![key[p]] =
                  [copy[p] EXCEPT !.createdAt = now, !.expireAt = Deadline(Lifetime)]]
  BY DEF Fill
<1>3. /\ store'[key[p]].createdAt = now
      /\ store'[key[p]].expireAt = Deadline(Lifetime)
  BY <1>1, <1>2 DEF Entry, TypeOK
<1>4. now \in Nat /\ Lifetime \in Nat /\ Lifetime > 0
  BY ConfigAssumption DEF TypeOK, Lifetime
<1>5. Deadline(Lifetime) = now + Lifetime
  BY <1>4 DEF Deadline
<1> SUFFICES ASSUME NEW k \in Keys, Cached(k)', store'[k].expireAt # Never
             PROVE  store'[k].expireAt <= store'[k].createdAt + Lifetime
  BY DEF LifetimeBound
<1>6. CASE k = key[p]
  BY <1>3, <1>4, <1>5, <1>6
<1>7. CASE k # key[p]
  BY <1>2, <1>7 DEF TypeOK, LifetimeBound, Cached
<1> QED BY <1>6, <1>7

\* No step lengthens the lifetime of what is stored.
LEMMA LifetimeStep == TypeOK /\ LifetimeBound /\ [Next]_vars => LifetimeBound'
<1> SUFFICES ASSUME TypeOK, LifetimeBound, [Next]_vars PROVE LifetimeBound'
  OBVIOUS
<1>1. ASSUME NEW p \in Procs, Step(p) PROVE LifetimeBound'
  <2>1. CASE Bump(p)
    BY <2>1, LifetimeBump
  <2>2. CASE Fill(p)
    BY <2>2, LifetimeFill
  <2>3. CASE Purge(p)
    BY <2>3, LifetimeQuiet DEF Purge, InvalidateOk, InvalidateFails
  <2>4. CASE ~(Bump(p) \/ Fill(p) \/ Purge(p))
    <3>1. store' = store
      BY <1>1, <2>4 DEF Step, Lookup, Miss, BumpFails, ServeValid, ServeStale, ClientGone,
         ForwardMiss, RefreshStale, TakeAnswer, AnswerUncached, FillFails, Mutate, PurgeDone,
         Acknowledge
    <3> QED BY <3>1, LifetimeQuiet
  <2> QED BY <2>1, <2>2, <2>3, <2>4
<1>2. CASE UNCHANGED vars \/ Tick \/ \E k \in Keys : Evict(k)
  <2>1. CASE UNCHANGED vars
    BY <2>1, LifetimeQuiet DEF vars
  <2>2. CASE Tick
    BY <2>2, LifetimeQuiet DEF Tick
  <2>3. CASE \E k \in Keys : Evict(k)
    <3>1. PICK e \in Keys : store' = [store EXCEPT ![e] = NoEntry]
      BY <2>3 DEF Evict
    <3> QED BY <3>1, LifetimeQuiet DEF TypeOK
  <2> QED BY <1>2, <2>1, <2>2, <2>3
<1>3. CASE \E t \in Tags : AdminPurge(t)
  BY <1>3, LifetimeQuiet DEF AdminPurge, InvalidateOk, InvalidateFails
<1>4. CASE \/ \E p \in Procs, k \in Keys, d \in Requests : StartQuery(p, k, d)
           \/ \E p \in Procs : StartMutation(p)
  BY <1>4, LifetimeQuiet DEF StartQuery, StartMutation
<1> QED BY <1>1, <1>2, <1>3, <1>4 DEF Next

\* Where the store gives a result a lifetime, it ends at most max_age + swr
\* after the result was created, however often it was hit or refreshed.
THEOREM LifetimesBounded == Spec => []LifetimeBound
<1>1. Init => LifetimeBound
  BY DEF Init, LifetimeBound, Cached
<1>2. TypeOK /\ LifetimeBound /\ [Next]_vars => LifetimeBound'
  BY LifetimeStep
<1> QED BY <1>1, <1>2, TypeCorrect, PTL DEF Spec
=============================================================================
