--------------------------- MODULE MgrTestHarness ---------------------------
(***************************************************************************)
(* The mgr test harness (qa/tasks/mgr/mgr_test_case.py) against the       *)
(* cluster it drives.  A test runs MgrTestCase.setUp (stop every mgr      *)
(* daemon, fail every mgr id, restart the daemons, wait for an active and *)
(* for the expected standbys), then _load_module(Mod) and _get_uri(Mod).  *)
(* Each command the test sends and each read of the mgr map is one step;  *)
(* a wait_until_true is a step that is only enabled once its condition    *)
(* holds (its timeout is a wait that never ends, caught by liveness).     *)
(*                                                                         *)
(* The cluster is the environment, modelled from how the monitors keep    *)
(* the mgr map: a running daemon that is not in the map registers, as the *)
(* active one when there is none (with a new gid) and otherwise as a      *)
(* standby; a daemon that stopped is dropped after its beacon grace; an   *)
(* active starts with the modules enabled at its activation, becomes      *)
(* available, then publishes its modules' services; a change of the      *)
(* enabled modules makes it respawn.  Up to MaxFailovers times the        *)
(* monitors also fail an active for a reason of their own (a missed      *)
(* beacon), while the test is at one of the points FailoverAt.          *)
(***************************************************************************)
EXTENDS Naturals, FiniteSets

CONSTANTS
    MgrIds,        \* the mgr daemons of the cluster (mgr_cluster.mgr_ids)
    Mod,           \* the module the test loads and whose URI it asks for
    MaxFailovers,  \* bound on failovers the test did not ask for
    FailoverAt,    \* the points of the test at which they may happen
    NoActive,      \* active_name = "" in the mgr map
    None

VARIABLES
    \* the cluster
    running,     \* daemons whose process runs
    active,      \* active_name, NoActive when there is none
    gid,         \* active_gid: grows with every activation
    available,   \* the map's 'available' flag
    standbys,    \* the names in the map's standbys
    enabled,     \* the modules enabled in the map
    starting,    \* the enabled modules the active read when it was activated
    loaded,      \* the modules the active runs (once it is available)
    services,    \* the map's services: one per module that published it
    failovers,   \* failovers the test did not ask for, so far
    \* the test
    pc,          \* where the test is
    todo,        \* the daemons or ids its current loop still has to visit
    expect,      \* setUp's expect_standbys
    initialGid,  \* _load_module's initial_gid
    uri          \* what _get_uri returned

cluster == <<running, active, gid, available, standbys, enabled, starting, loaded,
             services, failovers>>
test == <<pc, todo, expect, initialGid, uri>>
vars == <<cluster, test>>

\* MgrTestCase.MGRS_REQUIRED; setUp raises SkipTest below it, and
\* MgrCluster.__init__ raises RuntimeError without any mgr.
MGRS_REQUIRED == 1
ASSUME MgrIds # {} /\ Cardinality(MgrIds) >= MGRS_REQUIRED

InMap == standbys \cup ({active} \ {NoActive})

\* The active is gone from the map: a standby, if any, is promoted with a
\* new gid and reads the enabled modules; else there is no active.
DropActive ==
    /\ \/ /\ standbys = {}
          /\ active' = NoActive /\ UNCHANGED <<standbys, gid>>
       \/ \E s \in standbys :
          /\ active' = s /\ standbys' = standbys \ {s} /\ gid' = gid + 1
    /\ available' = FALSE /\ loaded' = {} /\ services' = {}
    /\ starting' = enabled

-----------------------------------------------------------------------------
(* The cluster's steps. *)

\* A running daemon that is not in the map sends its beacon.
Beacon(d) ==
    /\ d \in running /\ d \notin InMap
    /\ IF active = NoActive
         THEN /\ active' = d /\ gid' = gid + 1 /\ starting' = enabled
              /\ UNCHANGED standbys
         ELSE /\ standbys' = standbys \cup {d}
              /\ UNCHANGED <<active, gid, starting>>
    /\ UNCHANGED <<running, available, enabled, loaded, services, failovers, test>>

\* The active has started its modules.
BecomeAvailable ==
    /\ active \in running /\ ~available
    /\ available' = TRUE /\ loaded' = starting
    /\ UNCHANGED <<running, active, gid, standbys, enabled, starting, services,
                   failovers, test>>

\* A module of the available active publishes its service.
Publish(m) ==
    /\ available /\ active \in running /\ m \in loaded \ services
    /\ services' = services \cup {m}
    /\ UNCHANGED <<running, active, gid, available, standbys, enabled, starting,
                   loaded, failovers, test>>

\* The active sees a changed set of enabled modules and respawns: it
\* leaves the map and registers again.
Respawn ==
    /\ active \in running /\ starting # enabled
    /\ DropActive
    /\ UNCHANGED <<running, enabled, failovers, test>>

\* The beacon grace of a stopped daemon expires.
Expire(d) ==
    /\ d \notin running /\ d \in InMap
    /\ IF d = active THEN DropActive
                     ELSE /\ standbys' = standbys \ {d}
                          /\ UNCHANGED <<active, gid, available, starting, loaded, services>>
    /\ UNCHANGED <<running, enabled, failovers, test>>

\* The monitors fail a running active that the test did not fail.
Failover ==
    /\ failovers < MaxFailovers /\ pc \in FailoverAt
    /\ active \in running
    /\ DropActive
    /\ failovers' = failovers + 1
    /\ UNCHANGED <<running, enabled, test>>

-----------------------------------------------------------------------------
(* The test's steps. *)

Init ==
    /\ running = MgrIds /\ active \in MgrIds /\ standbys = MgrIds \ {active}
    /\ gid = 1 /\ available = TRUE
    /\ enabled \in {{}, {Mod}} /\ starting = enabled /\ loaded = enabled
    /\ services = loaded /\ failovers = 0
    /\ pc = "stop" /\ todo = MgrIds /\ expect = {} /\ initialGid = 0 /\ uri = None

\* One turn of a setUp loop over the ids, in no fixed order: the loop at
\* `from` visits x, and the test moves on to `to` after the last one.
LoopStep(from, to, x) ==
    /\ pc = from /\ x \in todo
    /\ IF todo = {x} THEN pc' = to /\ todo' = MgrIds
                     ELSE todo' = todo \ {x} /\ UNCHANGED pc

\* for daemon in mgr_daemons.values(): daemon.stop()
StopDaemon(d) ==
    /\ LoopStep("stop", "fail", d)
    /\ running' = running \ {d}
    /\ UNCHANGED <<active, gid, available, standbys, enabled, starting, loaded,
                   services, failovers, expect, initialGid, uri>>

\* for mgr_id in mgr_ids: mgr_fail(mgr_id), that is `ceph mgr fail`:
\* the monitors drop the id from the map before the command returns.
FailMgr(id) ==
    /\ LoopStep("fail", "restart", id)
    /\ IF id = active THEN DropActive
       ELSE /\ standbys' = standbys \ {id}
            /\ UNCHANGED <<active, gid, available, starting, loaded, services>>
    /\ UNCHANGED <<running, enabled, failovers, expect, initialGid, uri>>

\* for daemon in mgr_daemons.values(): daemon.restart()
RestartDaemon(d) ==
    /\ LoopStep("restart", "wait_active", d)
    /\ running' = running \cup {d}
    /\ UNCHANGED <<active, gid, available, standbys, enabled, starting, loaded,
                   services, failovers, expect, initialGid, uri>>

\* wait_until_true(lambda: get_active_id() != "")
WaitActive ==
    /\ pc = "wait_active" /\ active # NoActive
    /\ pc' = "expect"
    /\ UNCHANGED <<cluster, todo, expect, initialGid, uri>>

\* A mutant: the active id is not taken out of the expected standbys.
ReadExpectAll ==
    /\ pc = "expect"
    /\ expect' = MgrIds
    /\ pc' = "wait_standbys"
    /\ UNCHANGED <<cluster, todo, initialGid, uri>>

\* expect_standbys = set(mgr_ids) - {get_active_id()}: a read of its own,
\* after the wait.
ReadExpect ==
    /\ pc = "expect"
    /\ expect' = MgrIds \ {active}
    /\ pc' = "wait_standbys"
    /\ UNCHANGED <<cluster, todo, initialGid, uri>>

\* wait_until_true(lambda: set(get_standby_ids()) == expect_standbys)
WaitStandbys ==
    /\ pc = "wait_standbys" /\ standbys = expect
    /\ pc' = "load_ls"
    /\ UNCHANGED <<cluster, todo, expect, initialGid, uri>>

\* _load_module: `mgr module ls`, and return at once when the module is in it.
LoadLs ==
    /\ pc = "load_ls"
    /\ pc' = IF Mod \in enabled THEN "uri_wait" ELSE "load_gid"
    /\ UNCHANGED <<cluster, todo, expect, initialGid, uri>>

\* initial_gid = get_mgr_map()['active_gid']
ReadGid ==
    /\ pc = "load_gid"
    /\ initialGid' = gid
    /\ pc' = "load_enable"
    /\ UNCHANGED <<cluster, todo, expect, uri>>

\* `mgr module enable`: the monitors add the module to the map.
Enable ==
    /\ pc = "load_enable"
    /\ enabled' = enabled \cup {Mod}
    /\ pc' = "load_wait"
    /\ UNCHANGED <<running, active, gid, available, standbys, starting, loaded,
                   services, failovers, todo, expect, initialGid, uri>>

\* A mutant: has_restarted without map['available'].
WaitRestartNoAvailable ==
    /\ pc = "load_wait" /\ gid # initialGid
    /\ pc' = "uri_wait"
    /\ UNCHANGED <<cluster, todo, expect, initialGid, uri>>

\* wait_until_true(has_restarted): a new active gid, and available.
WaitRestart ==
    /\ pc = "load_wait" /\ gid # initialGid /\ available
    /\ pc' = "uri_wait"
    /\ UNCHANGED <<cluster, todo, expect, initialGid, uri>>

\* _get_uri: wait_until_true(lambda: _get_or_none() is not None)
WaitUri ==
    /\ pc = "uri_wait" /\ Mod \in services
    /\ pc' = "uri_read"
    /\ UNCHANGED <<cluster, todo, expect, initialGid, uri>>

\* A mutant: the whole services dict is returned instead of its entry.
ReadUriServices ==
    /\ pc = "uri_read"
    /\ uri' = services
    /\ pc' = "done"
    /\ UNCHANGED <<cluster, todo, expect, initialGid>>

\* return _get_or_none(): the map is read once more.
ReadUri ==
    /\ pc = "uri_read"
    /\ uri' = IF Mod \in services THEN Mod ELSE None
    /\ pc' = "done"
    /\ UNCHANGED <<cluster, todo, expect, initialGid>>

-----------------------------------------------------------------------------

Environment ==
    \/ \E d \in MgrIds : Beacon(d) \/ Expire(d)
    \/ BecomeAvailable \/ Respawn \/ Failover
    \/ \E m \in {Mod} : Publish(m)

Test ==
    \/ \E d \in MgrIds : StopDaemon(d) \/ FailMgr(d) \/ RestartDaemon(d)
    \/ WaitActive \/ ReadExpect \/ WaitStandbys
    \/ LoadLs \/ ReadGid \/ Enable \/ WaitRestart
    \/ WaitUri \/ ReadUri

Next == Environment \/ Test

\* The test runs its steps as long as it can, and the monitors and daemons
\* keep doing what they do (registering, expiring, starting modules,
\* respawning); a failover the test did not ask for is never forced.
Fairness ==
    /\ WF_vars(Test)
    /\ \A d \in MgrIds : WF_vars(Beacon(d)) /\ WF_vars(Expire(d))
    /\ WF_vars(BecomeAvailable) /\ WF_vars(Respawn)
    /\ \A m \in {Mod} : WF_vars(Publish(m))

Spec == Init /\ [][Next]_vars /\ Fairness

-----------------------------------------------------------------------------

Pcs == {"stop", "fail", "restart", "wait_active", "expect", "wait_standbys",
        "load_ls", "load_gid", "load_enable", "load_wait", "uri_wait", "uri_read",
        "done"}

TypeOK ==
    /\ running \subseteq MgrIds /\ standbys \subseteq MgrIds
    /\ active \in MgrIds \cup {NoActive} /\ active \notin standbys
    /\ gid \in Nat /\ available \in BOOLEAN /\ failovers \in 0..MaxFailovers
    /\ {enabled, starting, loaded, services} \subseteq SUBSET {Mod}
    /\ pc \in Pcs /\ todo \subseteq MgrIds /\ expect \subseteq MgrIds
    /\ initialGid \in Nat /\ uri \in {Mod, None}

\* When _load_module's wait for a restart returns (a new active gid that is
\* available), the active mgr runs the module the test just enabled.
ModuleLoadedOnReturn ==
    [][pc = "load_wait" /\ pc' = "uri_wait" => Mod \in loaded]_vars

\* setUp's waits, _load_module's and _get_uri's all end: the test gets its
\* URI instead of a timeout.
TestCompletes == <>(pc = "done")
=============================================================================
