-------------------------- MODULE CacheContractProofs --------------------------
(***************************************************************************)
(* ResultCache implements CacheContract, for any number of processes,      *)
(* queries, objects and tags.  Each lemma names the step of the contract   *)
(* that an action of the cache is.                                         *)
(***************************************************************************)
EXTENDS ResultCacheProofs

\* An empty cache remembers nothing and nobody holds anything.
LEMMA ContractInit == Init => Contract!Init
BY DEF Init, Contract!Init, Remembered, InHand, Zero, Contract!Zero

\* A stored result is remembered as its body and whether it is late.
LEMMA StoredView ==
    ASSUME TypeOK, NEW k \in Keys, store[k] # NoEntry
    PROVE  /\ Remembered[k] = [body |-> store[k].body, late |-> store[k].overtaken]
           /\ Remembered[k] # NoEntry
<1>1. store[k] \in Entry
  BY DEF TypeOK
<1>2. [body |-> store[k].body, late |-> store[k].overtaken] \in Memos
  BY <1>1, EntriesHaveFields DEF Memos
<1> QED BY <1>2, DistinctAssumption DEF Remembered

\* A process about to store a result holds it, in the contract's view.
LEMMA HeldView ==
    ASSUME TypeOK, NEW p \in Procs, pc[p] \in {"bump", "fill"}
    PROVE  /\ key[p] \in Keys /\ copy[p] \in Entry
           /\ InHand[p] = [key |-> key[p], body |-> copy[p].body, late |-> copy[p].overtaken]
           /\ InHand[p] # NoEntry
<1>1. key[p] \in Keys /\ copy[p] \in Entry
  BY DEF TypeOK, RequestsHeld, Querying
<1>2. [key |-> key[p], body |-> copy[p].body, late |-> copy[p].overtaken] \in Holdings
  BY <1>1, EntriesHaveFields DEF Holdings
<1> QED BY <1>1, <1>2, DistinctAssumption DEF InHand

\* What the contract shows of a result is its body and whether it is late.
LEMMA SameView ==
    ASSUME NEW p \in Procs, copy[p] \in Entry, NEW exp \in Nat \cup {Never}, NEW t \in Nat
    PROVE  LET e == [copy[p] EXCEPT !.createdAt = t, !.expireAt = exp]
               f == [copy[p] EXCEPT !.expireAt = exp]
           IN  /\ e # NoEntry /\ f # NoEntry
               /\ e.body = copy[p].body /\ e.overtaken = copy[p].overtaken
               /\ f.body = copy[p].body /\ f.overtaken = copy[p].overtaken
<1>1. /\ [copy[p] EXCEPT !.createdAt = t, !.expireAt = exp] \in Entry
      /\ [copy[p] EXCEPT !.expireAt = exp] \in Entry
  BY DEF Entry
<1> QED BY <1>1, DistinctAssumption DEF Entry

\* A step that stores nothing and takes no result to store is none of the
\* contract's, or lets go of a result.
LEMMA QuietRefines ==
    ASSUME TypeOK, NEW p \in Procs,
           UNCHANGED <<db, store, floor, acked>>,
           \A q \in Procs \ {p} : pc'[q] = pc[q] /\ key'[q] = key[q] /\ copy'[q] = copy[q],
           pc'[p] \notin {"bump", "fill"}
    PROVE  [Contract!Next]_(Contract!vars)
<1>1. Remembered' = Remembered
  BY DEF Remembered
<1>2. InHand' = [InHand EXCEPT ![p] = NoEntry]
  BY DEF InHand
<1>3. Contract!LetGo(p)
  BY <1>1, <1>2 DEF Contract!LetGo
<1> QED BY <1>3 DEF Contract!Next

\* The steps of requests and mutations that leave store and hands alone.
LEMMA RequestsRefine ==
    ASSUME TypeOK, NEW p \in Procs,
           \/ \E k \in Keys, d \in Requests : StartQuery(p, k, d)
           \/ Miss(p) \/ BumpFails(p) \/ ServeValid(p) \/ ServeStale(p) \/ ClientGone(p)
           \/ AnswerUncached(p) \/ FillFails(p) \/ StartMutation(p) \/ PurgeDone(p)
    PROVE  [Contract!Next]_(Contract!vars)
<1>1. /\ UNCHANGED <<db, store, floor, acked>>
      /\ \E stage \in {"pass", "lookup", "forward", "send", "idle", "refresh", "mutate", "ack"} :
            pc' = [pc EXCEPT ![p] = stage]
      /\ \A q \in Procs \ {p} : key'[q] = key[q] /\ copy'[q] = copy[q]
  <2>1. CASE \E k \in Keys, d \in Requests : StartQuery(p, k, d)
    BY <2>1 DEF StartQuery, Goto, TypeOK, upstream, history
  <2>2. CASE Miss(p) \/ BumpFails(p) \/ StartMutation(p) \/ PurgeDone(p)
    BY <2>2 DEF Miss, BumpFails, StartMutation, PurgeDone, Goto, upstream, local, history
  <2>3. CASE ServeValid(p) \/ ClientGone(p) \/ AnswerUncached(p) \/ FillFails(p)
    BY <2>3 DEF ServeValid, ClientGone, AnswerUncached, FillFails, Finish, TypeOK, upstream, history
  <2>4. CASE ServeStale(p)
    BY <2>4 DEF ServeStale, Goto, TypeOK, upstream, history
  <2> QED BY <2>1, <2>2, <2>3, <2>4
<1>2. pc'[p] \notin {"bump", "fill"} /\ \A q \in Procs \ {p} : pc'[q] = pc[q]
  BY <1>1 DEF TypeOK
<1> QED BY <1>1, <1>2, QuietRefines

\* A hit takes what is remembered.
LEMMA LookupRefines ==
    ASSUME TypeOK, NEW p \in Procs, Lookup(p)
    PROVE  key[p] \in Keys /\ Contract!Recall(p, key[p])
<1>1. key[p] \in Keys /\ store[key[p]] # NoEntry
  BY DEF Lookup, Usable, TypeOK, RequestsHeld, Querying
<1>2. /\ pc' = [pc EXCEPT ![p] = "bump"] /\ copy' = [copy EXCEPT ![p] = store[key[p]]]
      /\ UNCHANGED <<db, store, key, floor, acked>>
  BY DEF Lookup, Goto, upstream, history
<1>3. Remembered' = Remembered
  BY <1>2 DEF Remembered
<1>4. /\ Remembered[key[p]] = [body |-> store[key[p]].body, late |-> store[key[p]].overtaken]
      /\ Remembered[key[p]] # NoEntry
  BY <1>1, StoredView
<1>5. InHand' = [InHand EXCEPT ![p] =
        [key |-> key[p], body |-> Remembered[key[p]].body, late |-> Remembered[key[p]].late]]
  <2>1. /\ Remembered[key[p]].body = copy'[p].body
        /\ Remembered[key[p]].late = copy'[p].overtaken
    BY <1>2, <1>4 DEF TypeOK
  <2>2. InHand' = [InHand EXCEPT ![p] =
          [key |-> key[p], body |-> copy'[p].body, late |-> copy'[p].overtaken]]
    BY <1>2 DEF InHand, TypeOK
  <2> QED BY <2>1, <2>2
<1> QED BY <1>1, <1>2, <1>3, <1>4, <1>5 DEF Contract!Recall

\* The upstream's answer to a miss or to a refresh.
LEMMA AnswerRefines ==
    ASSUME TypeOK, NEW p \in Procs, ForwardMiss(p) \/ RefreshStale(p)
    PROVE  key[p] \in Keys /\ Contract!Ask(p, key[p])
<1>1. key[p] \in Keys
  BY DEF ForwardMiss, RefreshStale, TypeOK, RequestsHeld, Querying
<1>2. /\ pc' = [pc EXCEPT ![p] = "fill"] /\ copy' = [copy EXCEPT ![p] = Answer(p)]
      /\ UNCHANGED <<db, store, key, floor, acked>>
  BY DEF ForwardMiss, RefreshStale, TakeAnswer, Goto, upstream, history
<1>3. Remembered' = Remembered
  BY <1>2 DEF Remembered
<1>4. Answer(p).body = Contract!Snapshot(key[p]) /\ Answer(p).overtaken = FALSE
  BY DEF Answer, Snapshot, Contract!Snapshot
<1>5. InHand' = [InHand EXCEPT ![p] =
        [key |-> key[p], body |-> Contract!Snapshot(key[p]), late |-> FALSE]]
  BY <1>2, <1>4 DEF InHand, TypeOK
<1> QED BY <1>1, <1>2, <1>3, <1>5 DEF Contract!Ask

\* Storing a result, by a hit or by a fill, is remembering what was held.
LEMMA StoreRefines ==
    ASSUME TypeOK, NEW p \in Procs, Bump(p) \/ Fill(p)
    PROVE  Contract!Remember(p)
<1>1. pc[p] \in {"bump", "fill"}
  BY DEF Bump, Fill
<1>2. /\ key[p] \in Keys /\ copy[p] \in Entry
      /\ InHand[p] = [key |-> key[p], body |-> copy[p].body, late |-> copy[p].overtaken]
      /\ InHand[p] # NoEntry
  BY <1>1, HeldView
<1>3. /\ UNCHANGED <<db, floor, acked>>
      /\ \E stage \in {"send", "idle"} : pc' = [pc EXCEPT ![p] = stage]
      /\ \A q \in Procs \ {p} : key'[q] = key[q] /\ copy'[q] = copy[q]
  BY DEF Bump, Fill, Goto, Finish, TypeOK, upstream, local, history
<1>4. PICK e \in Entry :
        /\ store' = [store EXCEPT ![key[p]] = e]
        /\ e.body = copy[p].body /\ e.overtaken = copy[p].overtaken
  <2>1. CASE Bump(p)
    <3>1. PICK lost \in Rounding :
            store' = [store EXCEPT ![key[p]] =
                        [copy[p] EXCEPT !.expireAt = Deadline(Remaining(p) - lost)]]
      BY <2>1 DEF Bump
    <3>2. Remaining(p) - lost \in Int
      BY <1>2, EntriesHaveFields, ConfigAssumption DEF Remaining, Lifetime, TypeOK
    <3>3. Deadline(Remaining(p) - lost) \in Nat \cup {Never}
      BY <3>2, DeadlineType DEF TypeOK
    <3>4. [copy[p] EXCEPT !.expireAt = Deadline(Remaining(p) - lost)] \in Entry
      BY <1>2, <3>3 DEF Entry
    <3> QED BY <1>2, <3>1, <3>4 DEF Entry
  <2>2. CASE Fill(p)
    <3>1. Deadline(Lifetime) \in Nat \cup {Never}
      BY DeadlineType, ConfigAssumption DEF Lifetime, TypeOK
    <3>2. [copy[p] EXCEPT !.createdAt = now, !.expireAt = Deadline(Lifetime)] \in Entry
      BY <1>2, <3>1 DEF Entry, TypeOK
    <3> QED BY <1>2, <2>2, <3>2 DEF Fill, Entry
  <2> QED BY <2>1, <2>2
<1>5. InHand' = [InHand EXCEPT ![p] = NoEntry]
  BY <1>3 DEF InHand, TypeOK
<1>6. Remembered' = [Remembered EXCEPT ![key[p]] = [body |-> e.body, late |-> e.overtaken]]
  BY <1>2, <1>4, DistinctAssumption DEF Remembered, TypeOK
<1> QED BY <1>2, <1>3, <1>4, <1>5, <1>6 DEF Contract!Remember

\* Dropping results is forgetting them.
LEMMA DropRefines ==
    ASSUME TypeOK, UNCHANGED <<db, pc, key, copy, floor, acked>>,
           \A k \in Keys : store'[k] \in {store[k], NoEntry}
    PROVE  Contract!Forget
BY DEF Contract!Forget, Contract!ForgetfulOf, Remembered, InHand

\* A purge by the tag index reaches every remembered result of the tag that is
\* not late, and overtakes what is held; one that fails forgets some results.
LEMMA PurgeRefines ==
    ASSUME TypeOK, IInv, NEW t \in Tags, InvalidateOk(t) \/ InvalidateFails(t),
           UNCHANGED <<db, pc, key, acked>>
    PROVE  Contract!Purge(t) \/ Contract!Forget
<1>1. CASE InvalidateOk(t)
  <2>1. DOMAIN Remembered' = Keys
    BY DEF Remembered
  <2>2. ASSUME NEW k \in Keys
        PROVE  /\ Remembered'[k] \in {Remembered[k], NoEntry}
               /\ t \in TagsOf(k) /\ Remembered'[k] # NoEntry => Remembered[k].late
    <3>1. store'[k] = IF k \in index[t] THEN NoEntry ELSE store[k]
      BY <1>1 DEF InvalidateOk
    <3>2. Remembered'[k] \in {Remembered[k], NoEntry}
      BY <3>1 DEF Remembered
    <3>3. ASSUME t \in TagsOf(k), Remembered'[k] # NoEntry PROVE Remembered[k].late
      <4>1. k \notin index[t] /\ store[k] # NoEntry
        BY <3>1, <3>3 DEF Remembered
      <4>2. store[k].overtaken
        BY <3>3, <4>1 DEF IInv, StoredIndexed, Cached
      <4>3. Remembered[k] = [body |-> store[k].body, late |-> store[k].overtaken]
        BY <4>1, StoredView
      <4> QED BY <4>2, <4>3
    <3> QED BY <3>2, <3>3
  <2>3. InHand' = [p \in Procs |->
          IF InHand[p] # NoEntry /\ t \in TagsOf(InHand[p].key)
          THEN [InHand[p] EXCEPT !.late = TRUE] ELSE InHand[p]]
    <3>1. ASSUME NEW p \in Procs
          PROVE  InHand'[p] = IF InHand[p] # NoEntry /\ t \in TagsOf(InHand[p].key)
                              THEN [InHand[p] EXCEPT !.late = TRUE] ELSE InHand[p]
      <4>1. CASE pc[p] \in {"bump", "fill"}
        <5>1. /\ copy[p] \in Entry
              /\ InHand[p] = [key |-> key[p], body |-> copy[p].body, late |-> copy[p].overtaken]
              /\ InHand[p] # NoEntry
          BY <4>1, HeldView
        <5>2. copy'[p] = IF t \in TagsOf(key[p]) THEN Overtake(copy[p]) ELSE copy[p]
          BY <1>1, <4>1 DEF InvalidateOk, Holds
        <5>3. Overtake(copy[p]).body = copy[p].body /\ Overtake(copy[p]).overtaken = TRUE
          BY <5>1, DistinctAssumption DEF Overtake, Entry
        <5> QED BY <4>1, <5>1, <5>2, <5>3 DEF InHand
      <4>2. CASE pc[p] \notin {"bump", "fill"}
        BY <4>2 DEF InHand
      <4> QED BY <4>1, <4>2
    <3> QED BY <3>1 DEF InHand
  <2>4. \A p \in Procs : InHand[p] # NoEntry => InHand[p].key \in Keys
    BY HeldView DEF InHand
  <2>5. floor' = [k \in Keys |-> IF t \in TagsOf(k) THEN Contract!Snapshot(k) ELSE floor[k]]
    BY <1>1 DEF InvalidateOk, Snapshot, Contract!Snapshot
  <2>6. Contract!Purge(t)
    BY <2>1, <2>2, <2>3, <2>4, <2>5 DEF Contract!Purge, Contract!ForgetfulOf
  <2> QED BY <2>6
<1>2. CASE InvalidateFails(t)
  <2>1. UNCHANGED <<copy, floor>> /\ \A k \in Keys : store'[k] \in {store[k], NoEntry}
    BY <1>2 DEF InvalidateFails
  <2> QED BY <2>1, DropRefines
<1> QED BY <1>1, <1>2

\* The upstream's changes are the contract's.
LEMMA MutateRefines ==
    ASSUME TypeOK, NEW p \in Procs, Mutate(p)
    PROVE  Contract!Change
<1>1. \A o \in Objs : db[o] <= db'[o]
  BY DEF Mutate, TypeOK, Version
<1>2. /\ pc' = [pc EXCEPT ![p] = "purge"] /\ pc[p] = "mutate"
      /\ UNCHANGED <<store, key, copy, floor, acked>>
  BY DEF Mutate, Goto, local, history
<1>3. Remembered' = Remembered /\ InHand' = InHand
  BY <1>2 DEF Remembered, InHand, TypeOK
<1> QED BY <1>1, <1>2, <1>3 DEF Contract!Change

\* When a mutation is acknowledged no purge is owed for what it acknowledges.
LEMMA AcknowledgeRefines ==
    ASSUME TypeOK, IInv, NEW p \in Procs, Acknowledge(p)
    PROVE  Contract!Acknowledge
<1>1. /\ pc' = [pc EXCEPT ![p] = "idle"] /\ pc[p] = "ack"
      /\ \A q \in Procs \ {p} : key'[q] = key[q] /\ copy'[q] = copy[q]
      /\ UNCHANGED <<db, store, floor>>
  BY DEF Acknowledge, Finish, TypeOK, upstream
<1>2. Remembered' = Remembered /\ InHand' = InHand
  BY <1>1 DEF Remembered, InHand, TypeOK
<1>3. \A o \in Objs :
        acked'[o] = IF o \in found[p] \ failed[p] /\ acked[o] < seen[p][o]
                    THEN seen[p][o] ELSE acked[o]
  BY DEF Acknowledge
<1>4. AckedPurged'
  BY InvAcknowledge DEF IInv
<1>5. ASSUME NEW o \in Objs PROVE acked'[o] = acked[o] \/ acked'[o] \in acked[o]..db[o]
  <2>1. acked[o] \in Nat /\ seen[p][o] \in Nat /\ db[o] \in Nat
    BY DEF TypeOK, Version
  <2>2. seen[p][o] <= db[o]
    BY <1>1 DEF IInv, MutationsPurged
  <2> QED BY <1>3, <2>1, <2>2
<1> QED BY <1>1, <1>2, <1>4, <1>5 DEF Contract!Acknowledge, AckedPurged

\* Evictions and time only forget.
LEMMA EnvironmentRefines ==
    ASSUME TypeOK, (\E k \in Keys : Evict(k)) \/ Tick
    PROVE  Contract!Forget
<1>1. /\ UNCHANGED <<db, pc, key, copy, floor, acked>>
      /\ \A k \in Keys : store'[k] \in {store[k], NoEntry}
  BY DEF Evict, Tick, TypeOK, upstream, local, history
<1> QED BY <1>1, DropRefines

\* Every step of the cache is a step of its contract, or none.
LEMMA ContractStep == TypeOK /\ IInv /\ [Next]_vars => [Contract!Next]_(Contract!vars)
<1> SUFFICES ASSUME TypeOK, IInv, [Next]_vars
             PROVE  [Contract!Next]_(Contract!vars)
  OBVIOUS
<1>1. ASSUME NEW p \in Procs, Step(p) PROVE [Contract!Next]_(Contract!vars)
  <2>1. CASE \/ Miss(p) \/ BumpFails(p) \/ ServeValid(p) \/ ServeStale(p) \/ ClientGone(p)
             \/ AnswerUncached(p) \/ FillFails(p) \/ PurgeDone(p)
    BY <2>1, RequestsRefine
  <2>2. CASE Lookup(p)
    BY <2>2, LookupRefines DEF Contract!Next
  <2>3. CASE ForwardMiss(p) \/ RefreshStale(p)
    BY <2>3, AnswerRefines DEF Contract!Next
  <2>4. CASE Bump(p) \/ Fill(p)
    BY <2>4, StoreRefines DEF Contract!Next
  <2>5. CASE Mutate(p)
    BY <2>5, MutateRefines DEF Contract!Next
  <2>6. CASE Purge(p)
    <3>1. PICK t \in todo[p] : InvalidateOk(t) \/ InvalidateFails(t)
      BY <2>6 DEF Purge
    <3>2. t \in Tags
      BY <3>1 DEF TypeOK, Tags
    <3>3. UNCHANGED <<db, pc, key, acked>>
      BY <2>6 DEF Purge, upstream
    <3> QED BY <3>1, <3>2, <3>3, PurgeRefines DEF Contract!Next
  <2>7. CASE Acknowledge(p)
    BY <2>7, AcknowledgeRefines DEF Contract!Next
  <2> QED BY <1>1, <2>1, <2>2, <2>3, <2>4, <2>5, <2>6, <2>7 DEF Step
<1>2. ASSUME NEW p \in Procs, StartMutation(p) \/ \E k \in Keys, d \in Requests : StartQuery(p, k, d)
      PROVE  [Contract!Next]_(Contract!vars)
  BY <1>2, RequestsRefine
<1>3. ASSUME NEW t \in Tags, AdminPurge(t) PROVE [Contract!Next]_(Contract!vars)
  <2>1. UNCHANGED <<db, pc, key, acked>> /\ (InvalidateOk(t) \/ InvalidateFails(t))
    BY <1>3 DEF AdminPurge, upstream
  <2> QED BY <2>1, PurgeRefines DEF Contract!Next
<1>4. CASE (\E k \in Keys : Evict(k)) \/ Tick
  BY <1>4, EnvironmentRefines DEF Contract!Next
<1>5. CASE UNCHANGED vars
  BY <1>5 DEF vars, upstream, local, mutation, history, Contract!vars, Remembered, InHand
<1> QED BY <1>1, <1>2, <1>3, <1>4, <1>5 DEF Next

\* The query result cache keeps its contract: whatever the interleaving of its
\* requests, refreshes, mutations and purges and whatever the store does, a
\* purge takes everything with its tag but what requests hold at that moment,
\* and a mutation is acknowledged when its purges are done.
THEOREM CacheImplementsContract == Spec => ContractKept
<1>1. Init => Contract!Init
  BY ContractInit
<1>2. TypeOK /\ IInv /\ [Next]_vars => [Contract!Next]_(Contract!vars)
  BY ContractStep
<1> QED BY <1>1, <1>2, TypeCorrect, InvariantHolds, PTL DEF Spec, ContractKept, Contract!Spec
=============================================================================
