------------------------- MODULE MCDashboardRoutes --------------------------
(***************************************************************************)
(* Model-checking instance of DashboardRoutes: a few controller packages *)
(* built from the controllers below, mounted without a url_prefix.       *)
(***************************************************************************)
EXTENDS DashboardRoutes

Sig(args, nd) == [args |-> args, ndefaults |-> nd, varkw |-> FALSE]

Def(args, nd) ==
    [sig |-> Sig(args, nd), deco |-> "plain", method |-> None, path |-> None,
     path_params |-> None, query_params |-> None, perms |-> {}]

\* A controller class decorated with decl.
Ctrl(name, decl, members) ==
    [name |-> name, colon |-> FALSE, decl |-> decl, path |-> ControllerPath(decl),
     resource_id |-> None, members |-> members]

Pool_ == Lit("pool")

\* @ApiController('pool'): list, get(key), delete(key), create(data)
Pool ==
    Ctrl("Pool", ApiController(<<Pool_>>),
         [list |-> Def(<<>>, 0), get |-> Def(<<"key">>, 0),
          delete |-> Def(<<"key">>, 0), create |-> Def(<<"data">>, 0)])

\* @Controller('/api/pool/status', base_url='/'): list
PoolStatus == Ctrl("PoolStatus",
                   Controller(<<Sep, Lit("api"), Sep, Pool_, Sep, Lit("status")>>, <<Sep>>),
                   [list |-> Def(<<>>, 0)])

\* @Controller('/pool', base_url='/api') with @Endpoint('GET') def status(self)
PoolEndpoint ==
    Ctrl("PoolEndpoint", Controller(<<Sep, Pool_>>, <<Sep, Lit("api")>>),
         [status |-> [Def(<<>>, 0) EXCEPT !.deco = "endpoint", !.method = "GET"]])

\* @UiApiController('/host') with a @Resource('GET') devices(self) and no
\* get, delete or set: endpoints() raises.
Host ==
    Ctrl("Host", UiApiController(<<Sep, Lit("host")>>),
         [devices |-> [Def(<<>>, 0) EXCEPT !.deco = "resource", !.method = "GET"]])

\* A class whose _cp_path_ starts with ":": load_controllers skips it.
\* (_cp_path_ set on the class, not by a decorator).
Colon == [Ctrl("Colon", Controller(<<>>, None), [list |-> Def(<<>>, 0)])
            EXCEPT !.colon = TRUE, !.path = <<Ph("x")>>]

\* Packages without two endpoints on one (method, URL).
MCRegistries ==
    {<<{Pool}, {PoolStatus, Colon}>>, <<{Pool, PoolStatus}>>,
     <<{PoolStatus}, {Pool}>>, <<{PoolStatus}, {Pool, Host}>>}

\* A package in which PoolEndpoint.status and PoolStatus.list are both
\* GET /api/pool/status.
MCCollidingRegistries == {<<{Pool, PoolStatus, PoolEndpoint}>>}

MCUrlPrefix == <<>>

MCLitOrder == <<"", "api", "data", "host", "key", "pool", "status", "ui-api", "x">>

MCMemberOrder == <<"create", "delete", "devices", "get", "list", "status">>

MCRequests ==
    [method : {"GET", "POST", "DELETE"},
     path : {<<"api", "pool">>, <<"api", "pool", "">>, <<"api", "pool", "status">>,
             <<"api", "pool", "status", "">>, <<"api", "pool", "p1">>,
             <<"api", "host">>}]
=============================================================================
