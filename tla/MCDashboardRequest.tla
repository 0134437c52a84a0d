------------------------ MODULE MCDashboardRequest -------------------------
(***************************************************************************)
(* Model-checking instance of DashboardRequest: three endpoints of a     *)
(* pool controller and the requests that the router can send them.       *)
(***************************************************************************)
EXTENDS DashboardRequest

\* Keyword values: "a", "b", and "%2F" (an escaped "/").
A == <<"a">>
B == <<"b">>
Esc == <<"%", "2", "F">>

Req(name) == [name |-> name, required |-> TRUE, default |-> None]
Opt(name, d) == [name |-> name, required |-> FALSE, default |-> d]

\* GET /api/pool/{key}: get(self, key)
PoolGet == [method |-> "GET", params |-> <<Req("key")>>, varkw |-> FALSE,
            pathParams |-> {"key"}, status |-> 200, json |-> TRUE, task |-> None]

\* POST /api/pool: @Task('pool/create', {'pool': '{pool}', 'first': '{1}',
\* 'size': '{size}', 'kind': 'replicated'}) create(self, pool, size=None)
PoolCreate ==
    [method |-> "POST", params |-> <<Req("pool"), Opt("size", None)>>, varkw |-> FALSE,
     pathParams |-> {}, status |-> 201, json |-> TRUE,
     task |-> [name |-> "pool/create",
               metadata |-> ("pool" :> [ref |-> "pool"]) @@ ("first" :> [pos |-> 1])
                            @@ ("size" :> [ref |-> "size"]) @@ ("kind" :> [lit |-> "replicated"])]]

\* PUT /api/pool/{key}: @Task('pool/edit', {'pool': '{key}'})
\* set(self, key, **kwargs)
PoolSet ==
    [method |-> "PUT", params |-> <<Req("key")>>, varkw |-> TRUE,
     pathParams |-> {"key"}, status |-> 200, json |-> TRUE,
     task |-> [name |-> "pool/edit", metadata |-> "pool" :> [ref |-> "key"]]]

\* A request without keyword arguments.
NoKw == [k \in {} |-> A]

MCHandlers == {PoolGet, PoolCreate, PoolSet}

Bodies ==
    {[kind |-> "empty"], [kind |-> "invalid"], [kind |-> "list"],
     [kind |-> "object", obj |-> "pool" :> A],
     [kind |-> "object", obj |-> ("pool" :> Esc) @@ ("size" :> B)],
     [kind |-> "object", obj |-> "key" :> B]}

MCRequests ==
    {[method |-> "GET", kw |-> kw, form |-> FALSE, clen |-> FALSE, body |-> [kind |-> "empty"]]
       : kw \in {"key" :> A, "key" :> Esc, ("key" :> A) @@ ("x" :> B)}}
    \cup [method : {"POST"}, kw : {NoKw}, form : BOOLEAN, clen : BOOLEAN, body : Bodies]
    \cup [method : {"PUT"}, kw : {"key" :> A}, form : {FALSE}, clen : BOOLEAN, body : Bodies]

MCExStatus == {None, 400}
=============================================================================
