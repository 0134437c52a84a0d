\* Registration ends (done or failed): a terminal state is not a deadlock.
CONSTANTS
    None = None
    Controllers <- MCControllers
    MemberOrder <- MCMemberOrder
SPECIFICATION Spec
INVARIANTS TypeOK FailsOnlyWithoutResourceId ResourceUrlsCarryId
CHECK_DEADLOCK FALSE
