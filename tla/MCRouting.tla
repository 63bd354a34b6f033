----------------------------- MODULE MCRouting -----------------------------
(* Instances of Routing for TLC.                                           *)
EXTENDS Routing

Users == <<"users">>
User == <<"users", Param>>
All == {"New", "Edit", "List", "Create", "Show", "Update", "Destroy"}

MCGlobals == {<<>>, <<"g">>}
MCPrefixes == {<<"api">>}
MCDirect == {<<"GET", User>>, <<"POST", <<"health">>>>}

Resource(ops, alias, defaults, idOk) ==
  [path |-> Users, ops |-> ops, alias |-> alias, defaults |-> defaults, idOk |-> idOk]

MCResources ==
  {Resource(All, TRUE, FALSE, TRUE), Resource({"Show", "Edit"}, TRUE, TRUE, TRUE),
   Resource(All \ {"Edit"}, FALSE, FALSE, FALSE)}

MCServed ==
  {<<"GET", <<"users", "new">>>>, <<"GET", <<"api", "users", "new">>>>,
   <<"GET", <<"users", "7">>>>, <<"GET", <<"health">>>>, <<"POST", <<"health">>>>,
   <<"PATCH", <<"users", "7">>>>}
=============================================================================
