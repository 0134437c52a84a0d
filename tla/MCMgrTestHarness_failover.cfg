\* A cluster whose monitors may also fail the active once on their own, at any point of the test.
CONSTANTS
    x = x
    y = y
    z = z
    MgrIds <- MCMgrIds
    Mod = dashboard
    NoActive = NoActive
    None = None
    MaxFailovers = 1
    FailoverAt <- Pcs
SPECIFICATION Spec
PROPERTIES
    ModuleLoadedOnReturn
\* The test stops once _get_uri has returned.
CHECK_DEADLOCK FALSE
