----------------------------- MODULE ResultAging -----------------------------
(***************************************************************************)
(* One cached result growing old while a client keeps asking for it with   *)
(* the same Cache-Control directives: what ValidFor (caching_result.go)    *)
(* answers over the result's life, against RFC 7234, section 5.2.1, which  *)
(* its comment refers to.                                                  *)
(***************************************************************************)
EXTENDS CacheControl

CONSTANTS
    MaxAge,   \* max_age of the result
    Requests, \* the directives a client may send
    Horizon   \* bound of the model: the age at which it stops

ASSUME AgingAssumption ==
    MaxAge \in Nat /\ Requests \subseteq Directives /\ Horizon \in Nat

VARIABLES age, cc

vars == <<age, cc>>

TypeOK == age \in Nat /\ cc \in Directives

Init == age = 0 /\ cc \in Requests

Age == age < Horizon /\ age' = age + 1 /\ UNCHANGED cc

Next == Age

Spec == Init /\ [][Next]_vars

Accepted == ValidFor(age, MaxAge, cc)

-----------------------------------------------------------------------------
(***************************************************************************)
(* RFC 7234, 5.2.1, directive by directive.  A stale result needs          *)
(* max-stale, except that a request without an opinion on freshness may    *)
(* get one while it is revalidated (stale-while-revalidate, RFC 5861).     *)
(***************************************************************************)
NoOpinion(d) == d.maxAge = Absent /\ d.minFresh = Absent /\ ~AcceptsStale(d)

StaleAllowed(a, d) ==
    \/ NoOpinion(d)
    \/ AcceptsStale(d) /\ (d.maxStale = Absent \/ a - MaxAge <= d.maxStale)

Acceptable(a, d) ==
    /\ ~d.noCache
    /\ d.minFresh # Absent => MaxAge - a >= d.minFresh
    /\ d.maxAge # Absent => a <= d.maxAge
    /\ a > MaxAge => StaleAllowed(a, d)

\* Not the two combinations that the code does not treat as the RFC does: it
\* serves a fresh result to a request that says no-cache, and with max-age and
\* max-stale it takes a stale result for older ages than a fresh one.
Settled(d) == ~d.noCache /\ (d.maxAge = Absent \/ ~AcceptsStale(d))

\* Outside these combinations ValidFor accepts a result exactly when each
\* directive of the request, taken by itself, allows it.
AgreesWithRFC == Settled(cc) => (Accepted <=> Acceptable(age, cc))

\* A stale result is never taken for a request that says no-cache or that bounds
\* the freshness it wants without max-stale; no combination of the other
\* directives opens a way around this (the early returns of ValidFor).
StaleOnlyIfWelcome ==
    Accepted /\ IsStale(age, MaxAge) =>
        /\ ~cc.noCache
        /\ cc.minFresh = Absent
        /\ cc.maxAge # Absent => AcceptsStale(cc)

\* A client that was refused a result does not get it when it is older, whatever
\* it asks for, but in one case: it said max-age and max-stale, and the result has
\* just become stale (the two bounds of ValidFor's max-age branch).
BackOnlyAsStale ==
    [][ ~Accepted /\ Accepted' =>
          /\ cc.maxAge # Absent /\ AcceptsStale(cc)
          /\ ~IsStale(age, MaxAge) /\ IsStale(age', MaxAge) ]_vars
=============================================================================
