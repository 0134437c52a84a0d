-------------------------- MODULE EndpointDerivation --------------------------
(***************************************************************************)
(* Endpoint derivation of the dashboard controller framework              *)
(* (src/pybind/mgr/dashboard/controllers/__init__.py): the pure part of   *)
(* how a controller class becomes the endpoints that endpoints() returns, *)
(* each with its method, URL, path/query/body parameters and required     *)
(* permissions.  DashboardEndpoints runs the loop of                      *)
(* RESTController.endpoints step by step over these operators;            *)
(* DashboardRoutes takes each controller's endpoints whole.               *)
(*                                                                         *)
(* A URL path is a sequence of segments: a literal, or a placeholder      *)
(* ({name}, {name:regex} or :name).  The string-level normalisation of    *)
(* paths ("/" prefixed, "" and "/" alike) is what the sequence encoding   *)
(* makes implicit.  A handler's signature is its argument names after     *)
(* self, how many of them take defaults, and whether it takes **kwargs.  *)
(***************************************************************************)
EXTENDS Integers, Sequences, SequencesExt, FiniteSets

CONSTANTS
    MemberOrder,  \* every member name, in inspect.getmembers' (sorted) order
    None          \* Python's None

Lit(n) == [kind |-> "lit", name |-> n]
Ph(n) == [kind |-> "ph", name |-> n]

\* The four verbs of Permission and RESTController._permission_map.
PermissionMap ==
    [m \in {"GET", "POST", "PUT", "DELETE"} |->
        CASE m = "GET" -> "read" [] m = "POST" -> "create"
          [] m = "PUT" -> "update" [] m = "DELETE" -> "delete"]

\* RESTController._method_mapping, in its OrderedDict order.
MethodMapping == <<
    [name |-> "list",        method |-> "GET",    resource |-> FALSE],
    [name |-> "create",      method |-> "POST",   resource |-> FALSE],
    [name |-> "bulk_set",    method |-> "PUT",    resource |-> FALSE],
    [name |-> "bulk_delete", method |-> "DELETE", resource |-> FALSE],
    [name |-> "get",         method |-> "GET",    resource |-> TRUE],
    [name |-> "delete",      method |-> "DELETE", resource |-> TRUE],
    [name |-> "set",         method |-> "PUT",    resource |-> TRUE]>>

MappedNames == {MethodMapping[i].name : i \in DOMAIN MethodMapping}

Mapping(n) == MethodMapping[SelectInSeq(MethodMapping, LAMBDA r : r.name = n)]

Names(s) == [i \in 1..Len(s) |-> s[i].name]

-----------------------------------------------------------------------------
(***************************************************************************)
(* _get_function_params: the arguments after self, the last ndefaults of *)
(* them optional.                                                          *)
(***************************************************************************)
FunctionParams(sig) ==
    [i \in 1..Len(sig.args) |->
        [name |-> sig.args[i], required |-> i <= Len(sig.args) - sig.ndefaults]]

\* get_path_param_names(path_extension): the placeholder names of the
\* controller path followed by the extension, in order.
GetPathParamNames(cpath, ext) ==
    Names(SelectSeq(cpath \o (IF ext = None THEN <<>> ELSE ext),
                    LAMBDA s : s.kind = "ph"))

(***************************************************************************)
(* Endpoint(method, path, path_params, query_params): the _endpoint       *)
(* config.  POST/PUT default path_params to []; query_params default to  *)
(* [].  (The TypeErrors it raises happen at class definition, before a  *)
(* controller exists, and are not reachable from endpoints().)            *)
(***************************************************************************)
EndpointConfig(method, path, pathParams, queryParams) ==
    [method |-> method,
     path |-> path,
     path_params |-> IF pathParams = None /\ method \in {"POST", "PUT"}
                       THEN <<>> ELSE pathParams,
     query_params |-> IF queryParams = None THEN <<>> ELSE queryParams]

\* BaseController.Endpoint.path_params
EpPathParams(cpath, sig, cfg) ==
    LET cpp == ToSet(GetPathParamNames(cpath, cfg.path)) IN
    IF cfg.method \in {"GET", "DELETE"}
      THEN SelectSeq(FunctionParams(sig),
                     LAMBDA p : p.name \in cpp
                                \/ (p.name \notin ToSet(cfg.query_params) /\ p.required))
      ELSE SelectSeq(FunctionParams(sig),
                     LAMBDA p : p.name \in cpp \/ p.name \in ToSet(cfg.path_params))

\* BaseController.Endpoint.query_params
EpQueryParams(cpath, sig, cfg) ==
    IF cfg.method \in {"GET", "DELETE"}
      THEN SelectSeq(FunctionParams(sig),
                     LAMBDA p : p.name \notin ToSet(Names(EpPathParams(cpath, sig, cfg))))
      ELSE SelectSeq(FunctionParams(sig), LAMBDA p : p.name \in ToSet(cfg.query_params))

\* BaseController.Endpoint.body_params
EpBodyParams(cpath, sig, cfg) ==
    LET taken == ToSet(Names(EpPathParams(cpath, sig, cfg)))
                 \cup ToSet(Names(EpQueryParams(cpath, sig, cfg)))
    IN SelectSeq(FunctionParams(sig), LAMBDA p : p.name \notin taken)

\* Endpoint.url with every path parameter appended, even one the
\* controller path or the endpoint path already names.
EpUrlAllParams(cpath, fname, sig, cfg) ==
    (IF cfg.path # None THEN cpath \o cfg.path ELSE cpath \o <<Lit(fname)>>)
    \o [i \in 1..Len(EpPathParams(cpath, sig, cfg)) |->
          Ph(EpPathParams(cpath, sig, cfg)[i].name)]

(***************************************************************************)
(* BaseController.Endpoint.url: the controller path, then the endpoint's *)
(* path (or /<function name> when it has none), then a placeholder for   *)
(* each path parameter those two do not already name.                     *)
(***************************************************************************)
EpUrl(cpath, fname, sig, cfg) ==
    LET cpp == ToSet(GetPathParamNames(cpath, cfg.path))
        extra == SelectSeq(Names(EpPathParams(cpath, sig, cfg)),
                           LAMBDA n : n \notin cpp)
    IN (IF cfg.path # None THEN cpath \o cfg.path ELSE cpath \o <<Lit(fname)>>)
       \o [i \in 1..Len(extra) |-> Ph(extra[i])]

\* A BaseController.Endpoint for member m of controller c.
MakeEndpoint(c, m, cfg, perms, kind) ==
    LET d == c.members[m] IN
    [action |-> m, kind |-> kind, method |-> cfg.method,
     url |-> EpUrl(c.path, m, d.sig, cfg),
     path_params |-> Names(EpPathParams(c.path, d.sig, cfg)),
     query_params |-> Names(EpQueryParams(c.path, d.sig, cfg)),
     body_params |-> Names(EpBodyParams(c.path, d.sig, cfg)),
     params |-> Names(FunctionParams(d.sig)),
     varkw |-> d.sig.varkw,
     perms |-> perms]

-----------------------------------------------------------------------------
(***************************************************************************)
(* RESTController.infer_resource_id: RESOURCE_ID split at "/", or the    *)
(* required parameters, not named by the controller path, of the first   *)
(* of get, delete, set (in _method_mapping order) the class defines.     *)
(***************************************************************************)
InferResourceId(c) ==
    IF c.resource_id # None THEN c.resource_id
    ELSE LET i == SelectInSeq(MethodMapping,
                              LAMBDA r : r.resource /\ r.name \in DOMAIN c.members)
         IN IF i = 0 THEN None
            ELSE LET cpp == ToSet(GetPathParamNames(c.path, None)) IN
                 Names(SelectSeq(FunctionParams(c.members[MethodMapping[i].name].sig),
                                 LAMBDA p : p.required /\ p.name \notin cpp))

\* "/{id1}/{id2}..." for the resource id parameters.
IdPath(ids) == [i \in 1..Len(ids) |-> Ph(ids[i])]

\* "if not res_id_params" read as "is None": an empty id list passes.
NoIdNoneOnly(ids) == ids = None

\* "if not res_id_params": None and [] alike.
NoId(ids) == ids = None \/ ids = <<>>

\* @ReadPermission, @CreatePermission, @UpdatePermission, @DeletePermission:
\* _set_func_permissions adds the verb to the function's
\* _security_permissions, kept as a set (list(set(...))).
WithPermission(d, verb) == [d EXCEPT !.perms = @ \cup {verb}]

\* The method itself taken as the permission, without _permission_map.
RestPermissionsVerb(d, method) == IF d.perms # {} THEN d.perms ELSE {method}

\* The permissions of a mapped, @Collection or @Resource endpoint: the
\* function's _security_permissions if it has any, else the method's.
RestPermissions(d, method) ==
    IF d.perms # {} THEN d.perms ELSE {PermissionMap[method]}

(***************************************************************************)
(* One iteration of the loop of RESTController.endpoints for member m,   *)
(* with res_id_params = ids: "skip" (continue), "raise" (the TypeError   *)
(* "Could not infer the resource ID parameters"), or "append" with the   *)
(* endpoint and the new res_id_params (None becomes [] for GET/DELETE).  *)
(* A permission is derived from the method unless the function carries   *)
(* _security_permissions already.                                          *)
(***************************************************************************)
RestStep(c, m, ids) ==
    LET d == c.members[m]
        kind == IF m \in MappedNames THEN IF Mapping(m).resource
                                            THEN "resource" ELSE "collection"
                ELSE d.deco
        method == IF m \in MappedNames THEN Mapping(m).method ELSE d.method
        path == CASE m \in MappedNames /\ kind = "collection" -> <<>>
                  [] m \in MappedNames -> IdPath(ids)
                  [] kind = "collection" ->
                        IF d.path \notin {None, <<>>} THEN d.path ELSE <<Lit(m)>>
                  [] OTHER ->
                        IdPath(ids)
                        \o (IF d.path \notin {None, <<>>} THEN d.path ELSE <<Lit(m)>>)
        query == IF m \in MappedNames THEN None ELSE d.query_params
        ids2 == IF method \in {"GET", "DELETE"} /\ ids = None THEN <<>> ELSE ids
        query2 == IF method \in {"GET", "DELETE"} /\ query = None
                    THEN SelectSeq(Names(FunctionParams(d.sig)),
                                   LAMBDA n : n \notin ToSet(ids2))
                    ELSE query
        perms == RestPermissions(d, method)
    IN CASE m \notin MappedNames /\ d.deco \notin {"resource", "collection"} ->
              [outcome |-> "skip"]
         [] kind = "resource" /\ NoId(ids) ->
              [outcome |-> "raise"]
         [] OTHER ->
              [outcome |-> "append", ids |-> ids2,
               ep |-> MakeEndpoint(c, m, EndpointConfig(method, path, None, query2),
                                   perms, kind)]

\* The callable members of the class, in getmembers' order.
Members(c) == SelectSeq(MemberOrder, LAMBDA n : n \in DOMAIN c.members)

\* BaseController.endpoints: an endpoint for every member decorated with
\* @Endpoint, with only the permissions it declares.
BaseEndpoints(c) ==
    LET ms == SelectSeq(Members(c), LAMBDA n : c.members[n].deco = "endpoint") IN
    [i \in 1..Len(ms) |->
        LET d == c.members[ms[i]] IN
        MakeEndpoint(c, ms[i],
                     EndpointConfig(d.method, d.path, d.path_params, d.query_params),
                     d.perms, "endpoint")]


(***************************************************************************)
(* The whole of RESTController.endpoints() for controller c, as a fold of *)
(* RestStep over its members: the endpoints it returns, or failed when    *)
(* the loop raises the TypeError.                                          *)
(***************************************************************************)
EndpointsOf(c) ==
    LET step(acc, m) ==
          IF acc.failed THEN acc
          ELSE LET s == RestStep(c, m, acc.ids) IN
               CASE s.outcome = "skip" -> acc
                 [] s.outcome = "raise" -> [acc EXCEPT !.failed = TRUE]
                 [] OTHER -> [acc EXCEPT !.ids = s.ids, !.eps = Append(@, s.ep)]
    IN FoldLeft(step, [failed |-> FALSE, ids |-> InferResourceId(c),
                       eps |-> BaseEndpoints(c)], Members(c))

-----------------------------------------------------------------------------

Segments == [kind : {"lit", "ph"}, name : STRING]

EndpointRecs ==
    [action : STRING, kind : {"endpoint", "collection", "resource"},
     method : {"GET", "POST", "PUT", "DELETE"}, url : Seq(Segments),
     path_params : Seq(STRING), query_params : Seq(STRING),
     body_params : Seq(STRING), params : Seq(STRING), varkw : BOOLEAN,
     perms : SUBSET {"read", "create", "update", "delete"}]

\* The placeholder names of a URL, in order.
Placeholders(url) == Names(SelectSeq(url, LAMBDA s : s.kind = "ph"))
=============================================================================
