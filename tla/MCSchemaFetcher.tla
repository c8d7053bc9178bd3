--------------------------- MODULE MCSchemaFetcher ---------------------------
(***************************************************************************)
(* An instance and an upstream with two good schemas and one that          *)
(* does not convert.                                                       *)
(***************************************************************************)
EXTENDS SchemaFetcher

CONSTANTS i1, s1, s2, bad
=============================================================================
