CONSTANTS
    AddrBytes = 24
    PC_RESET_ADDRESS = 0
    Targets <- MCTargets
    Long <- MCLong
SPECIFICATION Spec
INVARIANTS
    ErrorTagsFollowData
