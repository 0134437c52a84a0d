------------------------- MODULE DashboardEndpoints -------------------------
(***************************************************************************)
(* RESTController.endpoints() (src/pybind/mgr/dashboard/controllers/      *)
(* __init__.py) as the loop it is: BaseController.endpoints() first, then *)
(* one step per callable member in name order (inspect.getmembers), so    *)
(* that the TypeError raised in the middle of the loop is a state of its  *)
(* own.  The derivation of each endpoint is in EndpointDerivation.        *)
(***************************************************************************)
EXTENDS EndpointDerivation

CONSTANTS
    Controllers   \* the RESTController subclasses to register

VARIABLES
    ctrl,       \* the controller class being registered
    pc,         \* "base", "members", "done" or "failed"
    todo,       \* the members the loop has still to visit
    resid,      \* res_id_params of endpoints()
    result      \* the endpoints collected so far

vars == <<ctrl, pc, todo, resid, result>>

-----------------------------------------------------------------------------
Init ==
    /\ ctrl \in Controllers
    /\ pc = "base"
    /\ todo = <<>>
    /\ resid = None
    /\ result = <<>>

\* endpoints(): super().endpoints(), then infer_resource_id().
StartEndpoints ==
    /\ pc = "base"
    /\ result' = BaseEndpoints(ctrl)
    /\ resid' = InferResourceId(ctrl)
    /\ todo' = Members(ctrl)
    /\ pc' = "members"
    /\ UNCHANGED ctrl

\* One iteration of the member loop.
VisitMember ==
    /\ pc = "members"
    /\ todo # <<>>
    /\ LET s == RestStep(ctrl, Head(todo), resid) IN
       CASE s.outcome = "skip" ->
              /\ todo' = Tail(todo)
              /\ UNCHANGED <<pc, resid, result>>
         [] s.outcome = "raise" ->
              /\ pc' = "failed"
              /\ UNCHANGED <<todo, resid, result>>
         [] OTHER ->
              /\ todo' = Tail(todo)
              /\ resid' = s.ids
              /\ result' = Append(result, s.ep)
              /\ UNCHANGED pc
    /\ UNCHANGED ctrl

\* The loop ends and endpoints() returns the result.
ReturnEndpoints ==
    /\ pc = "members"
    /\ todo = <<>>
    /\ pc' = "done"
    /\ UNCHANGED <<ctrl, todo, resid, result>>

Next == StartEndpoints \/ VisitMember \/ ReturnEndpoints

Spec == Init /\ [][Next]_vars

-----------------------------------------------------------------------------
TypeOK ==
    /\ ctrl \in Controllers
    /\ pc \in {"base", "members", "done", "failed"}
    /\ todo \in Seq(STRING)
    /\ resid \in Seq(STRING) \cup {None}
    /\ result \in Seq(EndpointRecs)

Endpoints == ToSet(result)

\* A member that needs the resource id: get, delete, set or @Resource.
ResourceScoped(c, m) ==
    IF m \in MappedNames THEN Mapping(m).resource
    ELSE c.members[m].deco = "resource"

(***************************************************************************)
(* Registration fails exactly for a missing resource id (spec 4.2): the  *)
(* loop of endpoints() ends in the TypeError if and only if the class    *)
(* has a resource-scoped member and infer_resource_id finds no id; for  *)
(* every other class it returns one endpoint per decorated or mapped     *)
(* member.                                                                 *)
(***************************************************************************)
FailsOnlyWithoutResourceId ==
    /\ pc \in {"done", "failed"} =>
         (pc = "failed" <=>
            /\ \E m \in DOMAIN ctrl.members : ResourceScoped(ctrl, m)
            /\ InferResourceId(ctrl) \in {None, <<>>})
    /\ pc = "done" =>
         {e.action : e \in Endpoints} =
            {m \in DOMAIN ctrl.members :
                m \in MappedNames \/ ctrl.members[m].deco # "plain"}

(***************************************************************************)
(* Resource URLs (spec 4.2, and the composite "a/b" round trip of spec  *)
(* 8): every resource endpoint's URL is the controller path followed by *)
(* one placeholder per resource-id component, in order, and then only   *)
(* literals; a collection endpoint adds no placeholder to the controller *)
(* path.                                                                   *)
(***************************************************************************)

ResourceUrlsCarryId ==
    pc = "done" =>
      \A e \in Endpoints :
        LET tail == SubSeq(e.url, Len(ctrl.path) + 1, Len(e.url)) IN
        /\ IsPrefix(ctrl.path, e.url)
        /\ e.kind = "resource" =>
             Placeholders(tail) = InferResourceId(ctrl)
             /\ IsPrefix(IdPath(InferResourceId(ctrl)), tail)
        /\ e.kind = "collection" => Placeholders(tail) = <<>>

=============================================================================
