------------------------------ MODULE MCGateway ------------------------------
(***************************************************************************)
(* Two clients of a handler with caching and of one without; operations    *)
(* that fit one schema or both; frames whole and cut.                      *)
(***************************************************************************)
EXTENDS Gateway, TLC

Operation(type, names, asked, fits, depth, tags) ==
    [type |-> type, names |-> names, asked |-> asked, fits |-> fits, introspects |-> FALSE,
     size |-> [depth |-> depth, nodes |-> 1], tags |-> tags]

UserType == <<"type", "User">>
UserKey == <<"key", "User.id.1">>

Users  == Operation("query", <<"A">>, NoName, {1, 2}, 1, {UserType, UserKey})
Emails == Operation("query", <<"A", "B">>, "B", {2}, 3, {UserType})
Rename == Operation("mutation", <<"A">>, NoName, {2}, 1, {UserKey})
Watch  == Operation("subscription", <<"A">>, NoName, {1}, 2, {})
Unsaid == Operation("query", <<"A", "B">>, NoName, {1, 2}, 1, {})
Schema == [Operation("query", <<"S">>, "S", {1, 2}, 3, {}) EXCEPT !.introspects = TRUE]

MCOperations == {Users, Emails, Rename, Watch, Unsaid, Schema}
MCSettings ==
    {[caching |-> TRUE, auto_invalidate |-> TRUE, introspection |-> FALSE, complexity |-> {}],
     [caching |-> FALSE, auto_invalidate |-> FALSE, introspection |-> FALSE,
      complexity |-> {[depth |-> 2, nodes |-> 0]}]}

Says(op) == [op |-> op, whole |-> TRUE]
Cut(op) == [op |-> op, whole |-> FALSE]
MCChunks == {<<Says(None), Says(Watch), Says(Users)>>, <<Cut(None), Says(Watch)>>, <<Says(Schema)>>}

Field(does, tag) == [does |-> does, tag |-> tag]
MCAdminDocs == {<<Field("purgeType", UserType), Field("__typename", <<>>)>>, <<Field("purgeAll", <<>>)>>}
=============================================================================
