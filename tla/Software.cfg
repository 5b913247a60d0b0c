CONSTANTS
    NewLine = 10
    Junk = 238
    None = None
    default_ram_base_addr = 16
    default_ram_size = 16
    uart_base_addr = 48
    ccx_uart_base_addr = 64
    ext_ram_base_addr = 80
    ext_ram_size = 8
    Noise <- MCNoise
    Runs <- MCRuns
    Table <- MCTable
    Faults <- MCFaults
    Codes = {0, 2, 5, 7}
    Msg1 <- MCMsg1
    Msg2 <- MCMsg2
    Delay = 5
    Depth = 2
    Chars = {1, 2}
    MaxRx = 4
    Never = Never
SPECIFICATION SoftwareSpec
INVARIANTS
    TypeOK
    VerdictExact
    NoRetirementMissed
    ConsoleIsWhatWasSent
    LoadedImage
    TestTypeOK
    MessagesIntact
    ReaderExact
PROPERTIES
    ImplementsSharedMemory
    OnlyExpectedPasses
    NoEarlyWake
    OldTimerNeverWakes
    BenchEnds
    TestEnds
    BoardEnds
