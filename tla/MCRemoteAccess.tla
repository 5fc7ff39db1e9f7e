---------------------------- MODULE MCRemoteAccess ----------------------------
(***************************************************************************)
(* Small instances of RemoteAccess for TLC.                                *)
(***************************************************************************)
EXTENDS RemoteAccess

CONSTANTS a, b, users, teams, members, books

TwoCalls == {a, b}
Credentials == [k \in TwoCalls |-> IF k = a THEN "token" ELSE "jwt"]

Setting(transport, backend, token, limit) ==
    [transport |-> transport, AUTH_BACKEND |-> backend, AUTH_TOKEN |-> token, RATE_LIMIT |-> limit]
Settings ==
    {Setting("grpc", "jwt", "token", TRUE), Setting("http", "None", "None", TRUE),
     Setting("http", "None", "token", FALSE)}

\* A model with a name, an owner that is a foreign key, groups, and a foreign key of
\* another model to it.
Names == {"name", "owner", "owner_id", "groups", "book_set"}
Kinds == [n \in Names |-> CASE n = "name" -> "column" [] n = "owner" -> "relation"
                            [] n = "owner_id" -> "attname" [] n = "groups" -> "many"
                            [] n = "book_set" -> "accessor"]

Serializers == {users, teams, members, books}
Listed(resource, fields, getters) ==
    [resource |-> resource, explicit |-> TRUE, fields |-> fields, exclude |-> {}, getters |-> getters]
Metas == [s \in Serializers |->
    CASE s = users -> Listed("users", {"name", "owner"}, {"owner"})
      [] s = teams -> Listed("teams", {"name", "owner_id", "groups"}, {})
      [] s = members -> Listed("members", {"name", "owner_id"}, {})
      [] s = books -> Listed("users", {"name", "book_set"}, {})]
===============================================================================
