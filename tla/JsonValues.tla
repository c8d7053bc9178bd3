------------------------------ MODULE JsonValues ------------------------------
(***************************************************************************)
(* JSON as upstreams answer it and as the tag analyzer reads it: null, a   *)
(* text, a number, a list or an object.  An object knows its type, which   *)
(* the answer does not show.  A list of lists is the list of their         *)
(* elements: whoever reads an answer here goes through lists.              *)
(***************************************************************************)
EXTENDS Sequences, SequencesExt

CONSTANT Union   \* Union[a]: the types that the abstract type a stands for

Null == [kind |-> "null"]
Text(s) == [kind |-> "text", text |-> s]
\* A number, with the whole number that Go's int64() makes of it: the fraction
\* is cut off, and what a float64 cannot hold exactly was rounded before.
Number(text, whole) == [kind |-> "number", text |-> text, whole |-> whole]

List(nodes) == [kind |-> "list", items |-> nodes]
Object(type, val) == [kind |-> "object", type |-> type, val |-> val]

\* What a list holds; anything else stands for itself.
Spread(v) == IF v.kind = "list" THEN ToSet(v.items) ELSE {v}

Has(v, name) == v.kind = "object" /\ name \in DOMAIN v.val

\* A field that is selected on a type is one of the objects of that type.
Selects(f, type) == f.on = type \/ (f.on \in DOMAIN Union /\ type \in Union[f.on])
=============================================================================
