--------------------------- MODULE DashboardRoutes ---------------------------
(***************************************************************************)
(* Route table construction of the dashboard (generate_routes,            *)
(* generate_controller_routes and load_controllers in                     *)
(* src/pybind/mgr/dashboard/controllers/__init__.py) and the dispatch of  *)
(* requests through the Routes mapper it fills.                           *)
(*                                                                         *)
(* load_controllers walks the controller modules in name order and each   *)
(* module's __dict__ in an order Python does not fix; generate_routes     *)
(* collects every controller's endpoints, sorts them by URL and connects  *)
(* each one, with and without a trailing slash, one step per endpoint.   *)
(* The mapper is the sequence of connected routes; a request goes to the *)
(* first route whose template and method match (the Routes mapper tries  *)
(* its routes in the order they were connected).                         *)
(*                                                                         *)
(* A URL's string order is the order of its segment sequence, each        *)
(* segment ranked by LitOrder: "/" sorts below every character of a name, *)
(* and "{" above every letter, digit and "_", so a placeholder sorts      *)
(* after every literal.                                                    *)
(***************************************************************************)
EXTENDS ControllerDecorator, Functions

CONSTANTS
    Registries,  \* candidate controller packages: a sequence of modules
                 \* (pkgutil name order), each the set of its controllers
    UrlPrefix,   \* the url_prefix argument, as segments
    LitOrder,    \* every literal and placeholder name, in string order
    Requests,    \* the requests dispatched: [method, path]
    NoRoute      \* no route matches

VARIABLES
    registry,    \* the controller package
    ctrls,       \* what load_controllers returned
    pending,     \* the sorted endpoint list, still to connect
    mapper,      \* the connected routes, in order
    endpointMap, \* ENDPOINT_MAP: endpoint.url -> its endpoints
    parents,     \* parent_urls
    phase,       \* "load", "collect", "connect", "serving" or "failed"
    served       \* the last request dispatched and the route it reached

vars == <<registry, ctrls, pending, mapper, endpointMap, parents, phase, served>>

\* The trailing "/" of a URL: an empty last segment.
Slash == Lit("")

-----------------------------------------------------------------------------
\* load_controllers without the check of "_cp_path_".
LoadOrdersAll(mods) ==
    LET per(i) == SetToSeqs(mods[i]) IN
    {FlattenSeq(f) :
        f \in {g \in [DOMAIN mods -> UNION {per(i) : i \in DOMAIN mods}] :
                 \A i \in DOMAIN mods : g[i] \in per(i)}}

\* The orders in which load_controllers can return a package's controllers:
\* module by module, any order within a module, "_cp_path_" values
\* starting with ":" skipped.
LoadOrders(mods) ==
    LET per(i) == SetToSeqs({c \in mods[i] : ~c.colon}) IN
    {FlattenSeq(f) :
        f \in {g \in [DOMAIN mods -> UNION {per(i) : i \in DOMAIN mods}] :
                 \A i \in DOMAIN mods : g[i] \in per(i)}}

Rank(s) ==
    LET i == SelectInSeq(LitOrder, LAMBDA n : n = s.name) IN
    IF s.kind = "lit" THEN i ELSE Len(LitOrder) + i

\* u < v as strings.
RECURSIVE UrlBefore(_, _)
UrlBefore(u, v) ==
    CASE v = <<>> -> FALSE
      [] u = <<>> -> TRUE
      [] Rank(Head(u)) # Rank(Head(v)) -> Rank(Head(u)) < Rank(Head(v))
      [] OTHER -> UrlBefore(Tail(u), Tail(v))

SortByUrl(eps) ==
    LET pos(i) == Cardinality({j \in DOMAIN eps :
                               \/ UrlBefore(eps[j].ep.url, eps[i].ep.url)
                               \/ j < i /\ eps[j].ep.url = eps[i].ep.url}) + 1
    IN [p \in DOMAIN eps |-> eps[CHOOSE i \in DOMAIN eps : pos(i) = p]]

\* Every controller that may exist, and what its endpoints() returns
\* (computed once: a class's endpoints do not depend on the state).
AllControllers == UNION {UNION Range(r) : r \in Registries}

ClassEndpoints == [c \in AllControllers |-> EndpointsOf(c)]

\* The endpoints of one controller, each with its instance (the class name).
Tagged(c) ==
    LET eps == ClassEndpoints[c].eps IN
    [j \in DOMAIN eps |-> [ep |-> eps[j], ctrl |-> c.name]]

\* What a route leads to: the controller instance and the action.
Descriptor(t) ==
    [ctrl |-> t.ctrl, action |-> t.ep.action, method |-> t.ep.method,
     url |-> UrlPrefix \o t.ep.url]

\* endp_base_url: the prefix and the first segment of the endpoint's URL.
ParentUrl(e) ==
    IF Len(e.url) > 1 THEN UrlPrefix \o <<e.url[1]>> ELSE UrlPrefix \o e.url

\* ENDPOINT_MAP[endpoint.url].append(endpoint)
MapAppend(m, u, d) ==
    [x \in DOMAIN m \cup {u} |->
        IF x = u THEN Append(IF u \in DOMAIN m THEN m[u] ELSE <<>>, d) ELSE m[x]]

\* The two mapper.connect calls: the URL, then the URL with "/".
Connect(routes, d) ==
    routes \o <<[desc |-> d, method |-> d.method, url |-> d.url],
                [desc |-> d, method |-> d.method, url |-> d.url \o <<Slash>>]>>

\* A {name} placeholder matches one non-empty segment.
Matches(url, path) ==
    /\ Len(url) = Len(path)
    /\ \A i \in DOMAIN url :
         IF url[i].kind = "lit" THEN url[i].name = path[i] ELSE path[i] # ""

\* The index of the route a request reaches, 0 for none.
FirstMatch(routes, req) ==
    SelectInSeq(routes, LAMBDA r : r.method = req.method /\ Matches(r.url, req.path))

-----------------------------------------------------------------------------
Init ==
    /\ registry \in Registries
    /\ ctrls = <<>>
    /\ pending = <<>>
    /\ mapper = <<>>
    /\ endpointMap = [u \in {} |-> <<>>]
    /\ parents = {}
    /\ phase = "load"
    /\ served = NoRoute

LoadControllers ==
    /\ phase = "load"
    /\ ctrls' \in LoadOrders(registry)
    /\ phase' = "collect"
    /\ UNCHANGED <<registry, pending, mapper, endpointMap, parents, served>>

\* The loop over ctrl.endpoints() and the sort.
CollectEndpoints ==
    /\ phase = "collect"
    /\ \A i \in DOMAIN ctrls : ~ClassEndpoints[ctrls[i]].failed
    /\ pending' = SortByUrl(FlattenSeq([i \in DOMAIN ctrls |-> Tagged(ctrls[i])]))
    /\ phase' = "connect"
    /\ UNCHANGED <<registry, ctrls, mapper, endpointMap, parents, served>>

\* An endpoints() call of the loop raises, and generate_routes with it.
CollectRaises ==
    /\ phase = "collect"
    /\ \E i \in DOMAIN ctrls : ClassEndpoints[ctrls[i]].failed
    /\ phase' = "failed"
    /\ UNCHANGED <<registry, ctrls, pending, mapper, endpointMap, parents, served>>

\* generate_controller_routes for the next endpoint of the sorted list.
ConnectEndpoint ==
    /\ phase = "connect"
    /\ pending # <<>>
    /\ LET t == Head(pending) IN
       /\ endpointMap' = MapAppend(endpointMap, t.ep.url, Descriptor(t))
       /\ mapper' = Connect(mapper, Descriptor(t))
       /\ parents' = parents \cup {ParentUrl(t.ep)}
    /\ pending' = Tail(pending)
    /\ UNCHANGED <<registry, ctrls, phase, served>>

ReturnRoutes ==
    /\ phase = "connect"
    /\ pending = <<>>
    /\ phase' = "serving"
    /\ UNCHANGED <<registry, ctrls, pending, mapper, endpointMap, parents, served>>

\* The Routes mapper dispatching a request.
Dispatch(req) ==
    /\ phase = "serving"
    /\ served' = [req |-> req,
                  route |-> IF FirstMatch(mapper, req) = 0 THEN NoRoute
                            ELSE mapper[FirstMatch(mapper, req)]]
    /\ UNCHANGED <<registry, ctrls, pending, mapper, endpointMap, parents, phase>>

Build ==
    LoadControllers \/ CollectEndpoints \/ CollectRaises \/ ConnectEndpoint \/ ReturnRoutes

Next == Build \/ \E req \in Requests : Dispatch(req)

\* generate_routes is one synchronous call at startup: once begun it runs
\* to its end.
Spec == Init /\ [][Next]_vars /\ WF_vars(Build)
-----------------------------------------------------------------------------
Methods == {"GET", "POST", "PUT", "DELETE"}

Descs == [ctrl : STRING, action : STRING, method : Methods, url : Seq(Segments)]

Routes == [desc : Descs, method : Methods, url : Seq(Segments)]

Loadable == {c \in UNION Range(registry) : ~c.colon}

TypeOK ==
    /\ registry \in Registries
    /\ ctrls \in Seq(Loadable)
    /\ pending \in Seq([ep : EndpointRecs, ctrl : STRING])
    /\ mapper \in Seq(Routes)
    /\ \A u \in DOMAIN endpointMap : u \in Seq(Segments) /\ endpointMap[u] \in Seq(Descs)
    /\ parents \subseteq Seq(Segments)
    /\ phase \in {"load", "collect", "connect", "serving", "failed"}
    /\ served \in {NoRoute} \cup [req : Requests, route : Routes \cup {NoRoute}]

(***************************************************************************)
(* The keys spec 4.3 gives a descriptor: its method with its URL, and     *)
(* with its URL and a trailing slash.                                     *)
(***************************************************************************)
RouteKeys(d) == {<<d.method, d.url>>, <<d.method, d.url \o <<Slash>>>>}

\* The table the mapper answers for each key it holds: its first route.
MapperTable ==
    [k \in {<<r.method, r.url>> : r \in ToSet(mapper)} |->
        mapper[SelectInSeq(mapper, LAMBDA r : <<r.method, r.url>> = k)].desc]

Abstract == INSTANCE RouteTable WITH
    AllGroups <- AllControllers,
    Descriptors <- LAMBDA g : {Descriptor(t) : t \in ToSet(Tagged(g))},
    Valid <- LAMBDA g : ~ClassEndpoints[g].failed,
    KeysOf <- RouteKeys,
    groups <- Loadable,
    status <- CASE phase = "serving" -> "serving"
                [] phase = "failed" -> "failed"
                [] OTHER -> "init",
    table <- IF phase = "serving" THEN MapperTable ELSE [k \in {} |-> {}]

(***************************************************************************)
(* generate_routes implements the route table of spec 4.3 (Abstract!Spec, *)
(* its weak fairness stated as <>Built): started on a controller package,*)
(* it ends, and ends serving exactly the table that                      *)
(* maps each descriptor's two keys to it, or fails when a controller's   *)
(* endpoints() raises or two descriptors share a key.  The code does     *)
(* not fail on a shared key (it connects both routes), so this holds only *)
(* for packages without colliding endpoints; no run checks it.            *)
(***************************************************************************)
RouteTableRefined == Abstract!SafetySpec /\ <>Abstract!Built

AllLiteral(url) == \A i \in DOMAIN url : url[i].kind = "lit"

\* The controller a route was connected for.
ControllerNamed(n) == CHOOSE c \in AllControllers : c.name = n

(***************************************************************************)
(* Every route the mapper holds lies under the path its controller was   *)
(* declared with: the url_prefix, then the names of the decorator's      *)
(* base_url and path (Controller.__init__'s normalisation of the "/"s,   *)
(* through _cp_path_, Endpoint.url and both mapper.connect calls), and   *)
(* no segment is empty but the trailing slash of the second route.  It   *)
(* fails for a path declared with a trailing slash and for a controller  *)
(* mounted at '/', which Controller.__init__ passes through; no run      *)
(* checks it.                                                              *)
(***************************************************************************)
RoutesUnderDeclaredPath ==
    \A r \in ToSet(mapper) :
        /\ IsPrefix(UrlPrefix \o DeclaredPath(ControllerNamed(r.desc.ctrl).decl), r.url)
        /\ \A i \in 1..Len(r.url) - 1 : r.url[i] # Slash

=============================================================================
