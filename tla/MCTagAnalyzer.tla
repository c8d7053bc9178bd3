--------------------------- MODULE MCTagAnalyzer ---------------------------
(***************************************************************************)
(* Operations on the test server, which gets a few more fields: friend of  *)
(* a user, which may be null, search, a list of users and books that also  *)
(* are of the interface Node, touch, which changes one user, and lost,     *)
(* whose resolver fails, so that the answer has no data.  Books get a rank *)
(* and the id of their sequel, which are keys of theirs like the title.    *)
(***************************************************************************)
EXTENDS TagAnalyzer, TestUpstream

\* The first two have the same whole part.
BookRank == <<Number("1", "1"), Number("1.5", "1"), Number("2", "2"), Number("3", "3")>>

MCAdded(o, field) ==
    CASE o.type = "UserTest" /\ field = "friend" -> IF o.id = 1 THEN UserTest(2) ELSE Null
      [] o.type = "QueryTest" /\ field = "search" -> <<UserTest(1), BookTest(2)>>
      [] o.type = "MutationTest" /\ field = "touch" -> UserTest(3)
      [] o.type = "BookTest" /\ field = "rank" -> BookRank[o.id]
      [] o.type = "BookTest" /\ field = "sequel" -> ToString((o.id % 4) + 1)
      [] OTHER -> Null

MCNullable == {"friend"}
MCNumeric == {"rank"}
MCUnion == "Node" :> {"UserTest", "BookTest"}

F(on, name) == Field(on, name, name, <<>>)
Sub(on, name, sub) == Field(on, name, name, sub)

UserId == F("UserTest", "id")
BookId == F("BookTest", "id")
UserNameField == F("UserTest", "name")
Titles == <<F("BookTest", "title")>>

MCSelection ==
    [ allUsers   |-> <<Sub("QueryTest", "users", <<UserId, UserNameField>>)>>,
      nameless   |-> <<Sub("QueryTest", "users", <<UserNameField, Sub("UserTest", "books", Titles)>>)>>,
      library    |-> <<Sub("QueryTest", "users", <<UserId, Sub("UserTest", "books", <<BookId>>)>>),
                       Sub("QueryTest", "books", <<BookId>> \o Titles)>>,
      renamed    |-> <<Sub("QueryTest", "users", <<Field("UserTest", "name", "id", <<>>),
                                                   Field("UserTest", "id", "key", <<>>)>>)>>,
      friends    |-> <<Sub("QueryTest", "users", <<UserId, Sub("UserTest", "friend", <<UserNameField>>)>>)>>,
      friendIds  |-> <<Sub("QueryTest", "users", <<Sub("UserTest", "friend", <<UserId>>)>>)>>,
      found      |-> <<Sub("QueryTest", "search", <<UserId, F("BookTest", "title")>>)>>,
      nodes      |-> <<Sub("QueryTest", "search", <<F("Node", "id")>>)>>,
      both       |-> <<Sub("QueryTest", "search", <<UserId, BookId>>)>>,
      ranked     |-> <<Sub("QueryTest", "books", <<BookId, F("BookTest", "rank")>>)>>,
      disguised  |-> <<Sub("QueryTest", "books", <<Field("BookTest", "id", "sequel", <<>>)>>)>>,
      lost       |-> <<Sub("QueryTest", "lost", <<UserId>>)>>,
      update     |-> <<Sub("MutationTest", "updateUsers", <<UserId>>)>>,
      updateKey  |-> <<Sub("MutationTest", "updateUsers", <<Field("UserTest", "id", "key", <<>>)>>)>>,
      updateDeep |-> <<Sub("MutationTest", "updateUsers", <<UserNameField, Sub("UserTest", "books", <<BookId>>)>>)>>,
      updateHole |-> <<Sub("MutationTest", "updateUsers", <<UserId, Sub("UserTest", "friend", <<UserId>>)>>)>>,
      updateBook |-> <<Sub("MutationTest", "updateUsers", <<Sub("UserTest", "books",
                           <<F("BookTest", "rank"), F("BookTest", "sequel")>>)>>)>>,
      touch      |-> <<Sub("MutationTest", "touch", <<UserId, UserNameField>>)>> ]

MCDocs == DOMAIN MCSelection
AliasDocs == {"allUsers", "update", "updateKey"}
Mutations == {"update", "updateKey", "updateDeep", "updateHole", "updateBook", "touch"}
MCOperation == [d \in MCDocs |-> IF d \in Mutations THEN "mutation" ELSE "query"]

\* The fields as the walker visits them, the first of them as number i.
RECURSIVE Walk(_, _, _, _)
Walk(sel, path, parent, i) ==
    IF sel = <<>> THEN <<>>
    ELSE LET f == Head(sel)
             at == Append(path, f.alias)
             below == Walk(f.sub, at, i, i + 1)
         IN  <<[on |-> f.on, name |-> f.name, path |-> at, parent |-> parent]>>
               \o below \o Walk(Tail(sel), path, parent, i + 1 + Len(below))

MCFields == [d \in MCDocs |-> Walk(MCSelection[d], <<>>, 0, 1)]

\* The upstream answers with its data, or with errors only.
MCAnswers == [d \in MCDocs |-> {Null, Execute(MCSelection[d], Root(RootTypes[MCOperation[d]]))}]

\* Users keep the default.
MCTypeKeys == "BookTest" :> {"id", "title", "rank", "sequel"}

UserRule == {"UserTest"}
MCRuleTypes == {UserRule}
=============================================================================
