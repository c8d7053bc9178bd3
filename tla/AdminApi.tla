------------------------------- MODULE AdminApi -------------------------------
(***************************************************************************)
(* How the admin API answers (admin/generated/generated.go,                *)
(* admin/schema.resolvers.go): the fields of a mutation run one after the  *)
(* other, and what each returns makes the data of the response.            *)
(*                                                                         *)
(* A field is a record [does, tag]: the field's name, and the tag that its *)
(* arguments say to purge.  The functions that read arguments and write    *)
(* values cannot fail for what has passed gqlgen's validation.             *)
(***************************************************************************)
EXTENDS SequencesExt

CONSTANTS
    Null,    \* what a failed field returns, and the data that it voids
    Text     \* what dummy and __typename return

ASSUME AnswersAssumption == Null \notin {TRUE, FALSE, Text} /\ Text \notin BOOLEAN

PurgeFields == {"purgeAll", "purgeOperation", "purgeTypeKey", "purgeQueryRootField", "purgeType"}
PlainFields == {"dummy", "__typename"}

Values == {TRUE, FALSE, Null, Text}

\* What the field purges by: for purgeAll, the schema that the handler had when
\* it made the resolver.
TagOf(field, schemaTag) == IF field.does = "purgeAll" THEN schemaTag ELSE field.tag

\* Mutant: a resolver that only logs the error.
ResolvedAnyway(field, purged) == TRUE

\* What a resolver makes of the purge: an error is a false answer, but for
\* purgeType, which returns the error.
Resolved(field, purged) ==
    CASE purged -> TRUE
      [] ~purged /\ field.does = "purgeType" -> Null
      [] OTHER -> FALSE

\* Every field is non-null: one that failed voids the data, though the fields
\* after it have run.
Data(values) == IF Null \in ToSet(values) THEN Null ELSE values
=============================================================================
