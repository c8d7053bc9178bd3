----------------------------- MODULE MCQueryPlan -----------------------------
(***************************************************************************)
(* Two queries, one of users and one of users and books, under a           *)
(* configuration of three rules, and one that replaces it on a reload.     *)
(***************************************************************************)
EXTENDS QueryPlan, TLC

CONSTANTS p1, p2, users, books, before, after, User, Book, id, name,
          byLang, bySession, byTenant, Lang, Session, Tenant, A, r1, r2, r3

MCFieldTypes == (users :> (User :> {id}))
             @@ (books :> ((User :> {id, name}) @@ (Book :> {name})))

Rule(types, maxAge, swr, varies) ==
    [types |-> types, maxAge |-> maxAge, swr |-> swr, varies |-> varies]

BeforeRules == (r1 :> Rule(User :> {}, 3, 0, <<byLang>>))
            @@ (r2 :> Rule(User :> {id, name}, 2, 4, <<bySession, byLang>>))
            @@ (r3 :> Rule(AllTypes, 5, 2, <<bySession>>))

AfterRules == (r1 :> Rule(User :> {id}, 1, 0, <<byTenant>>))
           @@ (r2 :> Rule(Book :> {id}, 2, 1, <<>>))

MCRules == (before :> BeforeRules) @@ (after :> AfterRules)

MCVaries == (before :> ((byLang :> <<Lang, Tenant>>) @@ (bySession :> <<Session>>)))
         @@ (after :> (byTenant :> <<Tenant>>))

\* Something, and something that ends with what looks like another header.
MCValues == {<<A>>, <<A, Semicolon, HeaderHead, Tenant, Equals, A>>}

Symmetric == Permutations(Procs)
=============================================================================
