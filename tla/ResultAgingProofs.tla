-------------------------- MODULE ResultAgingProofs --------------------------
(***************************************************************************)
(* ValidFor against RFC 7234 for every age, every max_age and every        *)
(* combination of directives.                                              *)
(***************************************************************************)
EXTENDS ResultAging, TLAPS

\* A directive of the parser is absent or a number of seconds.
LEMMA DirectiveFields ==
    ASSUME NEW d \in Directives
    PROVE  /\ d.noCache \in BOOLEAN /\ d.maxStaleSet \in BOOLEAN
           /\ d.minFresh = Absent \/ d.minFresh \in Nat
           /\ d.maxAge = Absent \/ d.maxAge \in Nat
           /\ d.maxStale = Absent \/ d.maxStale \in Nat
BY DEF Directives, Seconds

\* A result only grows older, and the client keeps to its directives.
THEOREM TypeCorrect == Spec => []TypeOK
<1>1. Init => TypeOK
  BY AgingAssumption DEF Init, TypeOK
<1>2. TypeOK /\ [Next]_vars => TypeOK'
  BY DEF TypeOK, Next, Age, vars
<1> QED BY <1>1, <1>2, PTL DEF Spec

\* Outside two combinations of directives the code decides as RFC 7234 does.
THEOREM Agreement == Spec => []AgreesWithRFC
<1>1. TypeOK => AgreesWithRFC
  <2> SUFFICES ASSUME TypeOK, Settled(cc) PROVE Accepted <=> Acceptable(age, cc)
    BY DEF AgreesWithRFC
  <2>1. age \in Nat /\ MaxAge \in Nat
    BY AgingAssumption DEF TypeOK
  <2>2. CASE cc.maxAge = Absent
    BY <2>1, <2>2, DirectiveFields
    DEF TypeOK, Settled, Accepted, ValidFor, FreshEnough, NotTooStale, IsStale, AcceptsStale,
        Acceptable, StaleAllowed, NoOpinion, Absent
  <2>3. CASE cc.maxAge # Absent
    BY <2>1, <2>3, DirectiveFields
    DEF TypeOK, Settled, Accepted, ValidFor, FreshEnough, YoungEnough, IsStale, AcceptsStale,
        Acceptable, StaleAllowed, NoOpinion, Absent
  <2> QED BY <2>2, <2>3
<1> QED BY <1>1, TypeCorrect, PTL

\* No combination of directives gets a client a stale result it did not ask for.
THEOREM NoUnwelcomeStale == Spec => []StaleOnlyIfWelcome
<1>1. TypeOK => StaleOnlyIfWelcome
  BY AgingAssumption, DirectiveFields
  DEF TypeOK, StaleOnlyIfWelcome, Accepted, ValidFor, FreshEnough, YoungEnough, IsStale, Absent
<1> QED BY <1>1, TypeCorrect, PTL

\* Without max-age and max-stale together, or once it is stale, what the code
\* accepts at some age it accepts at the age before.
LEMMA AcceptedDownward ==
    ASSUME NEW a \in Nat, NEW d \in Directives, ValidFor(a + 1, MaxAge, d),
           d.maxAge = Absent \/ ~AcceptsStale(d) \/ IsStale(a, MaxAge) \/ ~IsStale(a + 1, MaxAge)
    PROVE  ValidFor(a, MaxAge, d)
<1>1. MaxAge \in Nat /\ (IsStale(a, MaxAge) => IsStale(a + 1, MaxAge))
  BY AgingAssumption DEF IsStale
<1>2. FreshEnough(a, MaxAge, d)
  BY <1>1, DirectiveFields DEF ValidFor, FreshEnough, Absent
<1>3. CASE d.maxAge = Absent
  BY <1>1, <1>2, <1>3, DirectiveFields DEF ValidFor, NotTooStale, IsStale, AcceptsStale, Absent
<1>4. CASE d.maxAge # Absent
  BY <1>1, <1>2, <1>4, DirectiveFields DEF ValidFor, YoungEnough, IsStale, AcceptsStale, Absent
<1> QED BY <1>3, <1>4

\* A refused result comes back in one case only.
THEOREM RefusedForGood == Spec => BackOnlyAsStale
<1> DEFINE Case == /\ cc.maxAge # Absent /\ AcceptsStale(cc)
                   /\ ~IsStale(age, MaxAge) /\ IsStale(age', MaxAge)
<1>1. TypeOK /\ [Next]_vars => [~Accepted /\ Accepted' => Case]_vars
  <2> SUFFICES ASSUME TypeOK, Age, Accepted', ~Case
               PROVE  Accepted
    BY DEF Next
  <2>1. age \in Nat /\ age' = age + 1 /\ cc' = cc /\ cc \in Directives
    BY DEF Age, TypeOK
  <2>2. ValidFor(age + 1, MaxAge, cc)
    BY <2>1 DEF Accepted
  <2>3. ValidFor(age, MaxAge, cc)
    BY <2>1, <2>2, AcceptedDownward
  <2> QED BY <2>3 DEF Accepted
<1> QED BY <1>1, TypeCorrect, PTL DEF Spec, BackOnlyAsStale
=============================================================================
