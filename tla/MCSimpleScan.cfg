CONSTANTS
    None = None
    Osds <- MCOsds
    Args <- MCArgs
    MaxScans = 3
SPECIFICATION Spec
INVARIANTS TypeOK MappingOnlyLeftByKill MountsOnlyLeakedByKill
\* After MaxScans invocations the host is left as it is.
CHECK_DEADLOCK FALSE
