\* A package whose controller raises in endpoints() stops generate_routes:
\* that terminal state is not a deadlock.
CONSTANTS
    None = None
    NoRoute = NoRoute
    UrlPrefix <- MCUrlPrefix
    Registries <- MCRegistries
    LitOrder <- MCLitOrder
    MemberOrder <- MCMemberOrder
    Requests <- MCRequests
SPECIFICATION Spec
INVARIANTS TypeOK 

CHECK_DEADLOCK FALSE
