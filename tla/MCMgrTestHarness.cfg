\* The monitors may fail the active once on their own, while setUp stops,
\* fails and restarts the daemons or waits for an active.
CONSTANTS
    x = x
    y = y
    z = z
    MgrIds <- MCMgrIds
    Mod = dashboard
    NoActive = NoActive
    None = None
    MaxFailovers = 1
    FailoverAt <- SetUpRestart
SPECIFICATION Spec
INVARIANTS
    TypeOK
PROPERTIES
    ModuleLoadedOnReturn
    TestCompletes
\* The test stops once _get_uri has returned.
CHECK_DEADLOCK FALSE
