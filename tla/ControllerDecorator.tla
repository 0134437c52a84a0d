------------------------- MODULE ControllerDecorator -------------------------
(***************************************************************************)
(* The controller decorators of the dashboard (Controller, ApiController  *)
(* and UiApiController in src/pybind/mgr/dashboard/controllers/           *)
(* __init__.py): how the path and base_url a controller is declared with *)
(* become its _cp_path_, and that string as the segments the endpoint and *)
(* route modules work on.                                                  *)
(*                                                                         *)
(* A path string is a sequence of tokens: Sep for a "/", and Lit or Ph    *)
(* for a run of characters (a name, or a {name} placeholder).  The empty *)
(* string is <<>>.  String concatenation is \o of token sequences, and a *)
(* segment of the split string joins the adjacent runs of characters.    *)
(***************************************************************************)
EXTENDS EndpointDerivation

Sep == [kind |-> "sep", name |-> "/"]

\* A declaration Controller(path, base_url=None).
Controller(path, baseUrl) == [path |-> path, base_url |-> baseUrl]

\* ApiController(path): Controller(path, base_url="/api").
ApiController(path) == Controller(path, <<Sep, Lit("api")>>)

\* UiApiController(path): Controller(path, base_url="/ui-api").
UiApiController(path) == Controller(path, <<Sep, Lit("ui-api")>>)

(***************************************************************************)
(* Controller.__init__ and __call__: a path not starting with "/" gets   *)
(* one; a base_url of None or "/" is ""; base_url "" with path "" is "/"; *)
(* _cp_path_ is base_url followed by path.                                *)
(***************************************************************************)
CpPath(decl) ==
    LET p == IF decl.path # <<>> /\ decl.path[1] # Sep
               THEN <<Sep>> \o decl.path ELSE decl.path
        b == IF decl.base_url \in {None, <<Sep>>} THEN <<>> ELSE decl.base_url
    IN (IF b = <<>> /\ p = <<>> THEN <<Sep>> ELSE b) \o p

(***************************************************************************)
(* s.split('/')[1:] for a string s that starts with "/", as               *)
(* get_path_param_names splits _cp_path_[1:]: every "/" opens a segment,  *)
(* and a run of characters joins the segment it falls in.                *)
(***************************************************************************)
PathSegments(s) ==
    LET step(acc, t) ==
          IF t.kind = "sep" THEN Append(acc, Lit(""))
          ELSE LET last == acc[Len(acc)] IN
               [acc EXCEPT ![Len(acc)] =
                  IF last = Lit("") THEN t ELSE Lit(last.name \o t.name)]
    IN FoldLeft(step, <<>>, s)

\* The _cp_path_ of a declaration, as segments.
ControllerPath(decl) == PathSegments(CpPath(decl))

\* A reference for the path a declaration means: the names written in its
\* base_url and path, whatever the slashes around them.
DeclaredPath(decl) ==
    SelectSeq((IF decl.base_url = None THEN <<>> ELSE decl.base_url) \o decl.path,
              LAMBDA t : t.kind # "sep")
=============================================================================
