----------------------- MODULE MCDashboardEndpoints ------------------------
(***************************************************************************)
(* Model-checking instance of DashboardEndpoints: every RESTController    *)
(* mounted at /api/pool whose members are any subset of the candidate     *)
(* definitions below, with RESOURCE_ID unset, "key" or "a/b".             *)
(***************************************************************************)
EXTENDS DashboardEndpoints, Functions


Sig(args, nd) == [args |-> args, ndefaults |-> nd, varkw |-> FALSE]

\* A plain method definition.
Def(args, nd) ==
    [sig |-> Sig(args, nd), deco |-> "plain", method |-> None, path |-> None,
     path_params |-> None, query_params |-> None, perms |-> {}]

\* Candidate definitions of each member name.
GetDefs == {Def(<<"key">>, 0), Def(<<>>, 0), Def(<<"a", "b">>, 0)}
DeleteDefs == {Def(<<"key">>, 0), Def(<<"name">>, 0)}
Fixed ==
  [set |-> Def(<<"key", "data">>, 0),
   create |-> Def(<<"data">>, 0),
   list |-> Def(<<"pool">>, 1),
   \* @RESTController.Resource('GET') def status(self, key)
   status |-> [Def(<<"key">>, 0) EXCEPT !.deco = "resource", !.method = "GET"],
   \* @RESTController.Collection('POST') @ReadPermission def stats(self, data)
   stats |-> WithPermission([Def(<<"data">>, 0) EXCEPT !.deco = "collection",
                                                      !.method = "POST"], "read"),
   \* @Endpoint('GET') def info(self, key)
   info |-> [Def(<<"key">>, 0) EXCEPT !.deco = "endpoint", !.method = "GET",
                                      !.query_params = None]]

AllMembers ==
    {[n \in DOMAIN Fixed \cup {"get", "delete"} |->
        IF n = "get" THEN g ELSE IF n = "delete" THEN d ELSE Fixed[n]] :
       g \in GetDefs, d \in DeleteDefs}

MCControllers ==
    {[path |-> <<Lit("api"), Lit("pool")>>, resource_id |-> r,
      members |-> Restrict(f, S)] :
       r \in {None, <<"key">>, <<"a", "b">>},
       f \in AllMembers,
       S \in SUBSET (DOMAIN Fixed \cup {"get", "delete"})}

\* The controllers that leave RESOURCE_ID unset and rely on inference.
MCInferredControllers == {c \in MCControllers : c.resource_id = None}

MCMemberOrder ==
    <<"create", "delete", "get", "info", "list", "set", "stats", "status">>
=============================================================================
