---------------------------- MODULE MCResultCache ----------------------------
(***************************************************************************)
(* An instance of ResultCache: the query "user" shows one user with its    *)
(* key; the query "list" shows users too and selects the key of some;      *)
(* "other" matches no rule.                                                *)
(***************************************************************************)
EXTENDS ResultCache, TLC

CONSTANTS p1, p2, user, list, other, u1, u2, TypeUser

\* The constants that a run without the query "user" needs ...
ListReads == (list :> {u1, u2}) @@ (other :> {u1})
ListKeyed == (list :> {u2}) @@ (other :> {})
ListStatic == (list :> {TypeUser}) @@ (other :> {})

\* ... and with the query "user" alone.
UserReads == user :> {u1}
UserKeyed == user :> {u1}
UserStatic == user :> {TypeUser}

NoStore == [NoDirective EXCEPT !.noStore = TRUE]
OnlyYoung == [NoDirective EXCEPT !.maxAge = 0]

PlainRequests == {NoDirective}
AllRequests == {NoDirective, NoStore, OnlyYoung}

Symmetric == Permutations(Procs)
=============================================================================
