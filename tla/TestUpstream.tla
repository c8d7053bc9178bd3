----------------------------- MODULE TestUpstream -----------------------------
(***************************************************************************)
(* The upstream of the repository's tests (internal/testserver): its data, *)
(* its resolvers and the way its generated executor turns a selection into *)
(* an answer.  A selection is a sequence of fields                         *)
(*     [on |-> type it is selected on, name, alias, sub |-> selection]     *)
(* as they are once fragments are inlined.  Its schema has no nullable and *)
(* no abstract type; instances add fields that do (Added, Union).          *)
(***************************************************************************)
EXTENDS JsonValues, TLC

CONSTANTS
    Added(_, _),   \* what fields of the instance resolve to
    Nullable,      \* those of them that may be null
    Numeric        \* those of them that are numbers

Field(on, name, alias, sub) ==
    [on |-> on, name |-> name, alias |-> alias, sub |-> sub]

-----------------------------------------------------------------------------
\* The data behind the resolvers.
UserTest(i) == [type |-> "UserTest", id |-> i]
BookTest(i) == [type |-> "BookTest", id |-> i]
Root(type)  == [type |-> type, id |-> 0]

users == <<UserTest(1), UserTest(2), UserTest(3)>>
updateUsers == <<UserTest(1), UserTest(2)>>
books == <<BookTest(1), BookTest(2), BookTest(3), BookTest(4)>>

UserName == <<"A", "B", "C">>
BooksOf == <<<<BookTest(1), BookTest(2)>>, <<BookTest(3)>>, <<BookTest(4)>>>>
BookTitle == <<"A - Book 1", "A - Book 2", "B - Book 1", "C - Book 1">>

\* What the resolver of a field returns: a text, a number, an object or a list.
Resolve(o, field) ==
    CASE o.type = "QueryTest" /\ field = "users" -> users
      [] o.type = "QueryTest" /\ field = "books" -> books
      [] o.type = "MutationTest" /\ field = "updateUsers" -> updateUsers
      [] field = "id" -> ToString(o.id)
      [] o.type = "UserTest" /\ field = "name" -> UserName[o.id]
      [] o.type = "UserTest" /\ field = "books" -> BooksOf[o.id]
      [] o.type = "BookTest" /\ field = "title" -> BookTitle[o.id]
      [] OTHER -> Added(o, field)

Scalars == {"id", "name", "title", "sequel"}
Lists == {"users", "books", "updateUsers", "search"}

-----------------------------------------------------------------------------
\* The executor.  A required value that is null makes its parent null.
RECURSIVE Execute(_, _)

ExecuteList(sel, objects) ==
    LET nodes == [i \in DOMAIN objects |-> Execute(sel, objects[i])]
    IN  IF Null \in ToSet(nodes) THEN Null ELSE List(nodes)

ExecuteField(f, o) ==
    LET value == Resolve(o, f.name)
    IN  CASE f.name \in Scalars -> Text(value)
          [] f.name \in Numeric -> value
          [] f.name \in Lists -> ExecuteList(f.sub, value)
          [] OTHER -> IF value = Null THEN Null ELSE Execute(f.sub, value)

Execute(sel, o) ==
    LET fields == {f \in ToSet(sel) : Selects(f, o.type)}
        value(alias) == ExecuteField(CHOOSE f \in fields : f.alias = alias, o)
        val == [alias \in {f.alias : f \in fields} |-> value(alias)]
    IN  IF \E f \in fields : f.name \notin Nullable /\ val[f.alias] = Null
        THEN Null
        ELSE Object(o.type, val)
=============================================================================
