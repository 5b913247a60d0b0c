CONSTANTS
    Words <- ExtWords
    Base <- MCBase
    Size <- MCSize
    InitMem <- ExtInit
    Layouts <- ExternalFetch
    Values = {0}
    None = None
SPECIFICATION FairSpec
PROPERTIES
    DataServed
