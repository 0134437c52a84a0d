\* A behaviour is one request; it stops once the response is produced.
CONSTANTS
    None = None
    Handlers <- MCHandlers
    Requests <- MCRequests
    ExStatus <- MCExStatus
SPECIFICATION Spec
INVARIANTS TypeOK
CHECK_DEADLOCK FALSE
