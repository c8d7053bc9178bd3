---------------------------- MODULE CacheControl ----------------------------
(***************************************************************************)
(* The pure decisions of caching_result.go: when a cached query result is  *)
(* stale, and whether it may answer a request that carries the given       *)
(* Cache-Control request directives.  Durations are whole seconds, and an  *)
(* absent directive is -1, as the cacheobject parser reports it.           *)
(***************************************************************************)
EXTENDS Integers

Absent == -1

Seconds == Nat \cup {Absent}

Directives == [ noStore     : BOOLEAN,
                noCache     : BOOLEAN,
                minFresh    : Seconds,
                maxAge      : Seconds,
                maxStale    : Seconds,
                maxStaleSet : BOOLEAN ]

NoDirective == [ noStore     |-> FALSE,
                 noCache     |-> FALSE,
                 minFresh    |-> Absent,
                 maxAge      |-> Absent,
                 maxStale    |-> Absent,
                 maxStaleSet |-> FALSE ]

\* Status(): a result is valid up to and including the age of its max_age.
IsStale(age, maxAge) == age > maxAge

AcceptsStale(cc) == cc.maxStaleSet \/ cc.maxStale # Absent

\* Mutant: max-stale excuses a result from min-fresh.
FreshEnoughOrStale(age, maxAge, cc) ==
    cc.minFresh # Absent => age + cc.minFresh <= maxAge \/ AcceptsStale(cc)

\* The min-fresh check: the result stays fresh for that many more seconds.
FreshEnough(age, maxAge, cc) ==
    cc.minFresh # Absent => age + cc.minFresh <= maxAge

\* Mutant: the bounds taken as exclusive.
YoungEnoughStrictly(age, maxAge, cc) ==
    \/ ~IsStale(age, maxAge) /\ age < cc.maxAge
    \/ /\ IsStale(age, maxAge)
       /\ AcceptsStale(cc)
       /\ cc.maxStale = Absent \/ age < cc.maxAge + cc.maxStale

\* The branch of a request with max-age.  The client's max-age plus its
\* max-stale bounds the age of a stale result; a fresh one must be younger
\* than the max-age alone.
YoungEnough(age, maxAge, cc) ==
    \/ ~IsStale(age, maxAge) /\ age <= cc.maxAge
    \/ /\ IsStale(age, maxAge)
       /\ AcceptsStale(cc)
       /\ cc.maxStale = Absent \/ age <= cc.maxAge + cc.maxStale

\* Mutant: max-stale taken as the staleness from which a result is accepted.
NotTooFresh(age, maxAge, cc) ==
    \/ cc.maxStale = Absent
    \/ age >= maxAge + cc.maxStale

\* The branch of a request with max-stale and no max-age.
NotTooStale(age, maxAge, cc) ==
    \/ cc.maxStale = Absent
    \/ ~IsStale(age, maxAge)
    \/ age <= maxAge + cc.maxStale

\* ValidFor(cc): may a result of this age and max_age answer the request?  A
\* request with neither directive accepts a stale result, to be revalidated.
ValidFor(age, maxAge, cc) ==
    /\ ~(cc.noCache /\ IsStale(age, maxAge))
    /\ FreshEnough(age, maxAge, cc)
    /\ cc.maxAge # Absent => YoungEnough(age, maxAge, cc)
    /\ cc.maxAge = Absent /\ AcceptsStale(cc) => NotTooStale(age, maxAge, cc)
=============================================================================
