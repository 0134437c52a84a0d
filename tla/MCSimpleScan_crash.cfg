CONSTANTS
    None = None
    Osds <- MCOsds
    Args <- MCArgs
    MaxScans = 3
SPECIFICATION Spec
INVARIANT PersistedFileComplete
CHECK_DEADLOCK FALSE
