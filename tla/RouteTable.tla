----------------------------- MODULE RouteTable -----------------------------
(***************************************************************************)
(* What the dashboard's route table builder promises (spec 4.3): every    *)
(* descriptor of every registered resource group is entered, under its   *)
(* (method, URL) and (method, URL + "/") keys, in one step; a group whose *)
(* configuration is invalid, or two descriptors sharing a key, make the   *)
(* build fail instead.  The table is then read by exact key.              *)
(***************************************************************************)
EXTENDS FiniteSets

CONSTANTS
    AllGroups,        \* every resource group that may exist
    Descriptors(_),   \* the descriptors of a group
    Valid(_),         \* whether a group's configuration is valid
    KeysOf(_)         \* the route-table keys of a descriptor

VARIABLES
    groups,   \* the registered groups
    status,   \* "init", "serving" or "failed"
    table     \* key -> descriptor

vars == <<groups, status, table>>

AllDescriptors == UNION {Descriptors(g) : g \in groups}

AllKeys == UNION {KeysOf(d) : d \in AllDescriptors}

\* Two distinct descriptors would take the same key.
Collision ==
    \E d1, d2 \in AllDescriptors : d1 # d2 /\ KeysOf(d1) \cap KeysOf(d2) # {}

Init ==
    /\ groups \in SUBSET AllGroups
    /\ status = "init"
    /\ table = [k \in {} |-> {}]

Build ==
    /\ status = "init"
    /\ IF Collision \/ \E g \in groups : ~Valid(g)
         THEN status' = "failed" /\ UNCHANGED table
         ELSE /\ status' = "serving"
              /\ table' = [k \in AllKeys |->
                             CHOOSE d \in AllDescriptors : k \in KeysOf(d)]
    /\ UNCHANGED groups

Next == Build

SafetySpec == Init /\ [][Next]_vars

\* The build runs to its end once started (startup is one call).
Spec == SafetySpec /\ WF_vars(Build)

\* What WF_vars(Build) asks of a behaviour of SafetySpec: Build stays
\* enabled until it is taken, so the table is eventually built or failed.
Built == status # "init"
=============================================================================
