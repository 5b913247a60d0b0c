CONSTANTS
    XLEN = 4
    MUL_UNROLL = 2
    CLMUL_UNROLL = 2
    CLK_GATE_EN = TRUE
    Operands <- MCOperands
    Flushable <- MCFlushable
SPECIFICATION Spec
INVARIANT
    FlushedLeavesNothing
