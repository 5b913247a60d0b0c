CONSTANTS
    Words <- MCWords
    Base <- MCBase
    Size <- MCSize
    InitMem <- MCInit
    Layouts <- MCLayouts
    Values = {0, 1}
    None = None
SPECIFICATION TickSpec
INVARIANTS
    TypeOK
    BridgeHoldsWhatSlaveHas
PROPERTIES
    ImplementsSharedMemory
    AxiOfferHeld
    DataNeverWaitsOnChip
    DataServedOnChipFetch
    FetchServed
