------------------------- MODULE DashboardRequest --------------------------
(***************************************************************************)
(* One request through the wrappers that src/pybind/mgr/dashboard/        *)
(* controllers/__init__.py puts around a REST handler, outermost first:   *)
(*   BaseController._request_wrapper  (unquote, body decoding, encoding) *)
(*   RESTController._status_code_wrapper  (the endpoint's status)        *)
(*   Task.__call__'s wrapper  (only for @Task handlers: metadata, run,   *)
(*                             wait with a timeout)                       *)
(*   the handler itself.                                                  *)
(* The Routes dispatcher passes every path and query value as a keyword  *)
(* argument, so the positional arguments are (self,) only.  TaskManager  *)
(* is not in this repository: how the wait ends is a choice among the    *)
(* outcomes its interface allows.  Each request is handled on its own    *)
(* thread with thread-local cherrypy.request/response, so one request is *)
(* modelled; a behaviour ends with its response.                        *)
(***************************************************************************)
EXTENDS Integers, Sequences, SequencesExt, FiniteSets, Functions

CONSTANTS
    Handlers,   \* the endpoints: handler signature, method, status, json, Task
    Requests,   \* the requests that may reach an endpoint (kwargs, headers, body)
    ExStatus,   \* the status attribute a raised exception may carry (or None)
    None

VARIABLES
    h,          \* the endpoint the request was routed to
    req,        \* the request
    kwargs,     \* the keyword arguments as the wrappers pass them on
    stage,      \* "received", "bound", "call", "task", "wait", "encode", "responded"
    status,     \* cherrypy.response.status
    body,       \* the value returned (before or after encoding)
    md,         \* the Task's resolved metadata, None before
    outcome,    \* how the Task's wait ended, None before
    fate        \* how the task's thread ends, None before the task starts

vars == <<h, req, kwargs, stage, status, body, md, outcome, fate>>

-----------------------------------------------------------------------------
(***************************************************************************)
(* unquote() on our alphabet: "%2F" decodes to "/", "%25" to "%", every  *)
(* other character stays.                                                 *)
(***************************************************************************)
RECURSIVE Unquote(_)
Unquote(s) ==
    IF s = <<>> THEN <<>>
    ELSE IF Len(s) >= 3 /\ s[1] = "%" /\ s[2] = "2" /\ s[3] \in {"F", "5"}
      THEN <<IF s[3] = "F" THEN "/" ELSE "%">> \o Unquote(SubSeq(s, 4, Len(s)))
      ELSE <<s[1]>> \o Unquote(Tail(s))

ParamNames(hh) == {hh.params[i].name : i \in DOMAIN hh.params}

Required(hh) == {hh.params[i].name : i \in {j \in DOMAIN hh.params : hh.params[j].required}}

DefaultOf(hh, p) == (CHOOSE q \in ToSet(hh.params) : q.name = p).default

\* Calling the handler with **kwargs raises TypeError unless every required
\* parameter is given and every keyword is a parameter (or **kwargs exists).
CallOK(hh, kw) ==
    /\ Required(hh) \subseteq DOMAIN kw
    /\ hh.varkw \/ DOMAIN kw \subseteq ParamNames(hh)

\* The values the handler's named parameters are bound to.
Received(hh, kw) ==
    [p \in ParamNames(hh) |-> IF p \in DOMAIN kw THEN kw[p] ELSE DefaultOf(hh, p)]

\* _request_wrapper's first loop: every (string) keyword value unquoted.
Unquoted(kw) == [k \in DOMAIN kw |-> Unquote(kw[k])]

-----------------------------------------------------------------------------
(***************************************************************************)
(* Task._gen_arg_map with args = (self,): each parameter by name from    *)
(* kwargs or its default (asserting it is optional), and by position     *)
(* idx + 1 as well.  ok is FALSE where the assert fails.                  *)
(***************************************************************************)
GenArgMap(hh, kw) ==
    LET byName == [p \in ParamNames(hh) |->
                     IF p \in DOMAIN kw THEN kw[p] ELSE DefaultOf(hh, p)]
    IN [ok |-> Required(hh) \subseteq DOMAIN kw,
        byName |-> byName,
        byPos |-> [i \in DOMAIN hh.params |-> byName[hh.params[i].name]]]

(***************************************************************************)
(* One metadata value: "{<n>}" is arg_map[n], "{<name>}" is               *)
(* arg_map[name], anything else itself; a missing key is a KeyError.     *)
(***************************************************************************)
Resolve(e, a) ==
    CASE "pos" \in DOMAIN e -> [ok |-> e.pos \in DOMAIN a.byPos,
                                 val |-> IF e.pos \in DOMAIN a.byPos THEN a.byPos[e.pos] ELSE None]
      [] "ref" \in DOMAIN e -> [ok |-> e.ref \in DOMAIN a.byName,
                                 val |-> IF e.ref \in DOMAIN a.byName THEN a.byName[e.ref] ELSE None]
      [] OTHER -> [ok |-> TRUE, val |-> e.lit]

\* The md loop without its else branch: literal values are dropped.
MetadataRefsOnly(t, a) ==
    LET refs == {k \in DOMAIN t.metadata : "lit" \notin DOMAIN t.metadata[k]} IN
    [ok |-> \A k \in refs : Resolve(t.metadata[k], a).ok,
     md |-> [k \in refs |-> Resolve(t.metadata[k], a).val]]

\* The wrapper's md dict, or FALSE-ok when some lookup raised.
Metadata(t, a) ==
    [ok |-> \A k \in DOMAIN t.metadata : Resolve(t.metadata[k], a).ok,
     md |-> [k \in DOMAIN t.metadata |-> Resolve(t.metadata[k], a).val]]

-----------------------------------------------------------------------------
\* The request ends with an error status and no value from the handler.
Fail(code) ==
    /\ status' = code
    /\ body' = None
    /\ stage' = "responded"

\* An exception leaving a handler: its status attribute (an HTTPError), else 500.
ErrorStatus(es) == IF es = None THEN 500 ELSE es

Init ==
    /\ h \in Handlers
    /\ req \in Requests
    /\ req.method = h.method
    /\ h.pathParams \subseteq DOMAIN req.kw
    /\ kwargs = req.kw
    /\ stage = "received"
    /\ status = 200
    /\ body = None
    /\ md = None
    /\ outcome = None
    /\ fate = None

(***************************************************************************)
(* _request_wrapper up to the call: unquote, then GET/DELETE and form     *)
(* posts go straight on; otherwise Content-Length is read (KeyError when *)
(* absent), an empty body goes on, an undecodable one is a 400, a JSON   *)
(* value without items() an AttributeError, and an object's items update *)
(* kwargs.                                                                *)
(***************************************************************************)
Bind ==
    /\ stage = "received"
    /\ LET kw == Unquoted(kwargs) IN
       CASE h.method \in {"GET", "DELETE"} \/ req.form ->
              kwargs' = kw /\ stage' = "bound" /\ UNCHANGED <<status, body>>
         [] ~req.clen -> Fail(500) /\ UNCHANGED kwargs
         [] req.body.kind = "empty" ->
              kwargs' = kw /\ stage' = "bound" /\ UNCHANGED <<status, body>>
         [] req.body.kind = "invalid" -> Fail(400) /\ UNCHANGED kwargs
         [] req.body.kind = "list" -> Fail(500) /\ UNCHANGED kwargs
         [] OTHER ->
              kwargs' = req.body.obj @@ kw /\ stage' = "bound"
              /\ UNCHANGED <<status, body>>
    /\ UNCHANGED <<h, req, md, outcome, fate>>

\* _status_code_wrapper: the endpoint's status, then the inner function.
SetStatus ==
    /\ stage = "bound"
    /\ status' = h.status
    /\ stage' = IF h.task = None THEN "call" ELSE "task"
    /\ UNCHANGED <<h, req, kwargs, body, md, outcome, fate>>

\* A handler without @Task: it returns, or raises (answered with the
\* exception's status), or the call itself is a TypeError (a 500).
Call ==
    /\ stage = "call"
    /\ \/ /\ CallOK(h, kwargs)
          /\ body' = [value |-> Received(h, kwargs)]
          /\ stage' = "encode"
          /\ UNCHANGED status
       \/ CallOK(h, kwargs) /\ \E es \in ExStatus : Fail(ErrorStatus(es))
       \/ ~CallOK(h, kwargs) /\ Fail(500)
    /\ UNCHANGED <<h, req, kwargs, md, outcome, fate>>

(***************************************************************************)
(* How the task's thread ends: the handler never returns, raises, raises *)
(* and is handled by the exception_handler, or returns (not when the call *)
(* itself is a TypeError).                                                *)
(***************************************************************************)
Fates ==
    {"hangs", "raised", "handled"} \cup (IF CallOK(h, kwargs) THEN {"done"} ELSE {})

(***************************************************************************)
(* Task's wrapper up to TaskManager.run: the argument map (AssertionError *)
(* on a missing required parameter), then the metadata (KeyError on an   *)
(* unknown reference); then the task is started on its own thread.       *)
(***************************************************************************)
StartTask ==
    /\ stage = "task"
    /\ LET a == GenArgMap(h, kwargs)
           m == Metadata(h.task, a)
       IN IF a.ok /\ m.ok
            THEN /\ md' = m.md
                 /\ fate' \in Fates
                 /\ stage' = "wait"
                 /\ UNCHANGED <<status, body>>
            ELSE Fail(500) /\ UNCHANGED <<md, fate>>
    /\ UNCHANGED <<h, req, kwargs, outcome>>

(***************************************************************************)
(* task.wait(wait_for) and what the wrapper makes of it.  A task still    *)
(* executing at the timeout (always so for one that never ends) is a 202  *)
(* with the task's name and metadata; one that finished returns the      *)
(* handler's value; an exception that the task's exception_handler       *)
(* turned into a ret_value answers it, with ret_value['status'] or the   *)
(* exception's status (500 by default); any other exception propagates.  *)
(***************************************************************************)
WaitResults ==
    IF fate = "hangs" THEN {"executing"} ELSE {"executing", fate}

WaitTask ==
    /\ stage = "wait"
    /\ \E o \in WaitResults :
         /\ outcome' = o
         /\ CASE o = "executing" ->
                   status' = 202 /\ body' = [name |-> h.task.name, metadata |-> md]
                   /\ stage' = "encode"
              [] o = "done" -> body' = [value |-> Received(h, kwargs)] /\ stage' = "encode"
                                /\ UNCHANGED status
              [] o = "handled" -> \E rs, es \in ExStatus :
                                    /\ status' = IF rs # None THEN rs ELSE ErrorStatus(es)
                                    /\ body' = [error |-> h.task.name] /\ stage' = "encode"
              [] OTHER -> \E es \in ExStatus : Fail(ErrorStatus(es))
    /\ UNCHANGED <<h, req, kwargs, md, fate>>

\* _request_wrapper after the call: json.dumps when json_response.
Encode ==
    /\ stage = "encode"
    /\ body' = IF h.json THEN [json |-> body] ELSE body
    /\ stage' = "responded"
    /\ UNCHANGED <<h, req, kwargs, status, md, outcome, fate>>

Next == Bind \/ SetStatus \/ Call \/ StartTask \/ WaitTask \/ Encode

\* The request thread runs each wrapper to its end.
Spec == Init /\ [][Next]_vars /\ WF_vars(Next)

-----------------------------------------------------------------------------
Stages == {"received", "bound", "call", "task", "wait", "encode", "responded"}

TypeOK ==
    /\ h \in Handlers
    /\ req \in Requests
    /\ stage \in Stages
    /\ status \in Nat
    /\ outcome \in {None, "executing", "done", "raised", "handled"}
    /\ fate \in {None, "hangs", "done", "raised", "handled"}
    /\ md = None \/ (h.task # None /\ DOMAIN md = DOMAIN h.task.metadata)

(***************************************************************************)
(* Spec 4.5: path values are bound into the handler's parameters (after  *)
(* percent-decoding); nothing later in binding replaces them, so the     *)
(* handler acts on the resource the URL names.                            *)
(***************************************************************************)
PathValuesFromUrl ==
    stage \notin {"received", "responded"} =>
      \A p \in h.pathParams : kwargs[p] = Unquote(req.kw[p])
=============================================================================
