CONSTANTS
    AddrBytes = 24
    PC_RESET_ADDRESS = 0
    Targets <- MCTargets
    Long <- MCLong
SPECIFICATION FairSpec
INVARIANTS
    TypeOK
    BufferNeverOverflows
    ResponseCountersExact
    RoomForResponse
    StreamUnlessSpoilt
PROPERTIES
    RequestHeldUntilGranted
    FetchProgress
