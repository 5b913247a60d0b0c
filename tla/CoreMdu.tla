------------------------------ MODULE CoreMdu -------------------------------
(***************************************************************************)
(* The multiply/divide unit, core_pipe_exec_mdu.sv, with the part of the   *)
(* execute stage that drives it (core_pipe_exec.sv:211-240) and its gated  *)
(* clock (core_clock_ctrl.sv).                                             *)
(*                                                                         *)
(* One step is one clock cycle.  Registers are variables, wires are        *)
(* operators of the registers and of instr, the instruction in execute.    *)
(* Values are natural numbers below 2^XLEN (2^MLEN for mdu_state).  The    *)
(* source has XLEN = 64 and words of 32 bits; here XLEN is a parameter, a  *)
(* word is half of it and the counter is as wide in proportion.  mdu_done  *)
(* is left out: it is written and never read.                              *)
(***************************************************************************)
EXTENDS Integers, FiniteSets, FiniteSetsExt

CONSTANTS
    XLEN,           \* bits of a register
    MUL_UNROLL,     \* bits the multiplier retires in a cycle
    CLMUL_UNROLL,   \* bits the carry-less multiplier retires in a cycle
    CLK_GATE_EN,    \* the unit is clocked only while it is used
    Operands,       \* the register values that are used
    Flushable       \* the instructions an interrupt may flush, and those that
                    \* follow until the unit has been flushed too

WLEN == XLEN \div 2
MLEN == 2 * XLEN

MulOps   == {"mul", "mulh", "mulhu", "mulhsu"}
ClmulOps == {"clmul", "clmulh"}
DivOps   == {"div", "divu", "rem", "remu"}

(* What decode tells the unit; word operations exist for some only.        *)
Instruction ==
    [op : MulOps \cup ClmulOps \cup DivOps, word : {FALSE},
     rs1 : Operands, rs2 : Operands]
        \cup [op : {"mul"} \cup DivOps, word : {TRUE},
              rs1 : Operands, rs2 : Operands]

NoInstr == [op |-> "none", word |-> FALSE, rs1 |-> 0, rs2 |-> 0]

ASSUME MduAssumption ==
    /\ XLEN \in Nat \ {0} /\ XLEN % 2 = 0
    /\ MUL_UNROLL \in 1..WLEN /\ CLMUL_UNROLL \in 1..WLEN
    /\ CLK_GATE_EN \in BOOLEAN
    /\ Operands \subseteq 0..(2^XLEN - 1)
    /\ Flushable \subseteq Instruction

(* What the powers of two are.  The provers take them for an unknown       *)
(* function; this is the definition of exponentiation.                     *)
ASSUME PowerAssumption ==
    2^0 = 1 /\ \A n \in 0..MLEN : 2^n \in Nat /\ 2^(n + 1) = 2 * 2^n

VARIABLES
    instr,                          \* the instruction in execute
    s_rs1, s_rs2, mdu_state,        \* operand and accumulator registers
    mdu_run, mdu_ctr,               \* the iteration counter
    mul_run, mul_done,
    clmul_run, clmul_done,
    div_start, div_run, div_done,
    stale,      \* history: an instruction was flushed out of execute and the
                \* unit has not been flushed since
    cycles      \* history: cycles the instruction has been in execute

unit == <<s_rs1, s_rs2, mdu_state, mdu_run, mdu_ctr, mul_run, mul_done,
          clmul_run, clmul_done, div_start, div_run, div_done>>
vars == <<instr, unit, stale, cycles>>

-----------------------------------------------------------------------------
(* Bits of a value, as the part selects and concatenations of the source.  *)

Bit(v, i) == (v \div 2^i) % 2

Low(v, w) == v % 2^w

Neg(v, w) == (2^w - v) % 2^w

(* The sign bit of the low w bits, copied up to bit XLEN-1.                *)
Sext(v, w) == Low(v, w) + (IF Bit(v, w - 1) = 1 THEN 2^XLEN - 2^w ELSE 0)

(* The set of the bits that are 1, and the value of such a set.            *)
Bits(v) == {i \in 0..(XLEN - 1) : Bit(v, i) = 1}

Value(bits) ==
    LET v[i \in 0..MLEN] ==
            IF i = 0 THEN 0 ELSE v[i - 1] + (IF i - 1 \in bits THEN 2^(i - 1) ELSE 0)
    IN  v[MLEN]

(* v with the one bit of the mask m set; an empty mask sets none.          *)
WithBit(v, m) == IF m = 0 \/ (v \div m) % 2 = 1 THEN v ELSE v + m

-----------------------------------------------------------------------------
(* Decoded operation and results.                                          *)

op      == instr.op
op_word == instr.word
rs1     == instr.rs1
rs2     == instr.rs2

any_mul   == op \in MulOps
any_clmul == op \in ClmulOps
any_div   == op \in DivOps
mdu_valid == any_mul \/ any_clmul \/ any_div

lhs_signed == op \in {"mulh", "mulhsu"}
rhs_signed == op = "mulh"
div_signed == op \in {"div", "rem"}
div_div    == op \in {"div", "divu"}

(* The width of the operation, and its most significant bit.               *)
width == IF op_word THEN WLEN ELSE XLEN
div_sign_lhs == div_signed /\ Bit(rs1, width - 1) = 1
div_sign_rhs == div_signed /\ Bit(rs2, width - 1) = 1

mdu_ready ==
    \/ any_mul /\ mul_done
    \/ any_div /\ div_done
    \/ any_clmul /\ clmul_done

result_mul ==
    IF op_word THEN Sext(mdu_state \div 2^WLEN, WLEN)
    ELSE IF op = "mul" THEN Low(mdu_state, XLEN)
    ELSE mdu_state \div 2^XLEN

result_clmul == IF op = "clmulh" THEN mdu_state \div 2^XLEN ELSE Low(mdu_state, XLEN)

(* Mutant: a quotient by zero gets the sign of the operands.               *)
div_outsign_zero ==
    IF div_div THEN div_sign_lhs # div_sign_rhs ELSE div_sign_lhs

div_outsign ==
    IF div_div THEN (div_sign_lhs # div_sign_rhs) /\ Low(rs2, width) # 0
               ELSE div_sign_lhs

result_div ==
    LET div_out == IF div_div THEN s_rs2 ELSE s_rs1
    IN  Sext(IF div_outsign THEN Neg(div_out, XLEN) ELSE div_out, width)

rd == IF any_mul THEN result_mul ELSE IF any_clmul THEN result_clmul ELSE result_div

-----------------------------------------------------------------------------
(* Control: each of the three units starts when it is asked and neither    *)
(* runs nor has a result.  The divider loads its operands in one cycle and *)
(* takes their magnitudes in the next, in which the counter starts.        *)

MUL_END   == MUL_UNROLL % 2
CLMUL_END == 0

mul_start   == any_mul /\ ~mul_run /\ ~mul_done
clmul_start == any_clmul /\ ~clmul_run /\ ~clmul_done
n_div_start == any_div /\ ~div_run /\ ~div_done /\ ~div_start
mdu_start   == mul_start \/ div_start \/ clmul_start

n_mul_done   == mul_run /\ mdu_ctr = MUL_END
n_clmul_done == clmul_run /\ mdu_ctr = CLMUL_END
n_div_done   == div_run /\ mdu_ctr = 0

mdu_end ==
    \/ any_mul /\ mdu_ctr = MUL_END
    \/ any_clmul /\ mdu_ctr = CLMUL_END
    \/ any_div /\ mdu_ctr = 0

mdu_step == IF any_mul THEN MUL_UNROLL ELSE IF any_clmul THEN CLMUL_UNROLL ELSE 1

(* Mutant: word operations iterate over the whole register.                *)
n_mdu_ctr_long ==
    IF mdu_start THEN XLEN
    ELSE IF mdu_run /\ ~mdu_end THEN (mdu_ctr - mdu_step) % MLEN
    ELSE mdu_ctr

n_mdu_ctr ==
    IF mdu_start THEN width
    ELSE IF mdu_run /\ ~mdu_end THEN (mdu_ctr - mdu_step) % MLEN
    ELSE mdu_ctr

(* Each unit's flags after a cycle without a flush: started, ended, held.  *)
MulClock ==
    /\ mul_run'  = (mul_start \/ (mul_run /\ mdu_ctr # MUL_END))
    /\ mul_done' = (~mul_start /\ (mul_done \/ n_mul_done))

ClmulClock ==
    /\ clmul_run'  = (clmul_start \/ (clmul_run /\ mdu_ctr # CLMUL_END))
    /\ clmul_done' = (~clmul_start /\ (clmul_done \/ n_clmul_done))

DivClock ==
    /\ div_start' = n_div_start
    /\ div_run'   = (div_start \/ (div_run /\ mdu_ctr # 0))
    /\ div_done'  = (div_done \/ (~div_start /\ n_div_done))

CounterClock ==
    /\ mdu_run' = (mdu_start \/ (mdu_run /\ ~mdu_end))
    /\ mdu_ctr' = n_mdu_ctr

-----------------------------------------------------------------------------
(* Data: shift-and-add over the low bits of s_rs2, into the top of the     *)
(* accumulator, which moves down a bit for each.                           *)

(* The top bit of a signed multiplier weighs -2^(XLEN-1).                  *)
sub_last(i) ==
    i = MUL_UNROLL - 1 /\ mdu_ctr = MUL_UNROLL /\ rhs_signed /\ Bit(s_rs2, i) = 1

(* Mutant: the sum keeps its carry.                                        *)
mul_add_carry(acc, i) ==
    LET to_add    == IF Bit(s_rs2, i) = 1 THEN s_rs1 ELSE 0
        sign(s)   == IF lhs_signed /\ s THEN 2^XLEN ELSE 0
        mul_add_l == sign(Bit(acc, MLEN - 1) = 1) + acc \div 2^XLEN
        mul_add_r == sign(Bit(to_add, width - 1) = 1) + to_add
        mul_sum   == IF sub_last(i) THEN mul_add_l - mul_add_r
                                    ELSE mul_add_l + mul_add_r
    IN  mul_sum * 2^(XLEN - 1) + Low(acc, XLEN) \div 2

mul_add(acc, i) ==
    LET to_add    == IF Bit(s_rs2, i) = 1 THEN s_rs1 ELSE 0
        sign(s)   == IF lhs_signed /\ s THEN 2^XLEN ELSE 0
        mul_add_l == sign(Bit(acc, MLEN - 1) = 1) + acc \div 2^XLEN
        mul_add_r == sign(Bit(to_add, width - 1) = 1) + to_add
        mul_sum   == IF sub_last(i) THEN mul_add_l - mul_add_r
                                    ELSE mul_add_l + mul_add_r
    IN  Low(mul_sum, XLEN + 1) * 2^(XLEN - 1) + Low(acc, XLEN) \div 2

n_mul_state ==
    LET acc[i \in 0..MUL_UNROLL] ==
            IF i = 0 THEN mdu_state ELSE mul_add(acc[i - 1], i - 1)
    IN  acc[MUL_UNROLL]

clmul_add(acc, i) ==
    LET clmul_rhs == IF Bit(s_rs2, i) = 1 THEN s_rs1 ELSE 0
        sum       == Value(SymDiff(Bits(acc \div 2^XLEN), Bits(clmul_rhs)))
    IN  sum * 2^(XLEN - 1) + Low(acc, XLEN) \div 2

n_clmul_state ==
    LET acc[i \in 0..CLMUL_UNROLL] ==
            IF i = 0 THEN mdu_state ELSE clmul_add(acc[i - 1], i - 1)
    IN  acc[CLMUL_UNROLL]

(* Restoring division: s_rs1 holds the dividend and then the remainder,    *)
(* s_rs2 the quotient, mdu_state the divisor, which moves down a bit in    *)
(* each cycle.                                                             *)
div_less == mdu_state <= s_rs1

qmask == IF mdu_ctr = 0 THEN 0 ELSE Low(2^(mdu_ctr - 1), XLEN)

n_dividend ==
    IF n_div_start THEN rs1
    ELSE IF div_start
    THEN IF div_sign_lhs THEN Neg(Sext(s_rs1, width), XLEN) ELSE Low(s_rs1, width)
    ELSE IF div_run /\ div_less /\ ~n_div_done
    THEN Low(s_rs1 - mdu_state, XLEN)
    ELSE s_rs1

n_quotient ==
    IF n_div_start THEN rs2
    ELSE IF div_start THEN 0
    ELSE IF div_run /\ div_less /\ ~n_div_done THEN WithBit(s_rs2, qmask)
    ELSE s_rs2

(* The magnitude of the stored divisor, negated if rs2 is negative: over   *)
(* all MLEN bits, in which a word is extended from bit WLEN of its         *)
(* negation.                                                               *)
div_magnitude ==
    LET neg_rs2 == Neg(Sext(s_rs2, width), XLEN)
    IN  IF ~div_sign_rhs THEN Low(s_rs2, width)
        ELSE IF ~op_word THEN 2^XLEN - s_rs2
        ELSE Low(neg_rs2, WLEN) + Bit(neg_rs2, WLEN) * (2^MLEN - 2^WLEN)

n_divisor ==
    IF n_div_start THEN 0
    ELSE IF div_start THEN Low(div_magnitude * 2^(width - 1), MLEN)
    ELSE mdu_state \div 2

(* The registers are shared; an earlier case goes first.  The last cycle   *)
(* of a multiplier only sets its done flag, unless it retires one bit in a *)
(* cycle.                                                                  *)
StorageClock ==
    IF n_div_start \/ div_start \/ div_run THEN
        /\ s_rs1' = n_dividend
        /\ s_rs2' = n_quotient
        /\ mdu_state' = n_divisor
    ELSE IF mul_start \/ clmul_start THEN
        /\ s_rs1' = rs1
        /\ s_rs2' = rs2
        /\ mdu_state' = 0
    ELSE IF mul_run THEN
        /\ s_rs1' = s_rs1
        /\ s_rs2' = s_rs2 \div 2^MUL_UNROLL
        /\ mdu_state' = IF n_mul_done /\ MUL_UNROLL # 1 THEN mdu_state
                        ELSE n_mul_state
    ELSE IF clmul_run THEN
        /\ s_rs1' = s_rs1
        /\ s_rs2' = s_rs2 \div 2^CLMUL_UNROLL
        /\ mdu_state' = IF n_clmul_done /\ CLMUL_UNROLL # 1 THEN mdu_state
                        ELSE n_clmul_state
    ELSE UNCHANGED <<s_rs1, s_rs2, mdu_state>>

-----------------------------------------------------------------------------
(* A clock edge of the unit.  A flush clears everything but mdu_state.     *)

Flush ==
    /\ s_rs1' = 0 /\ s_rs2' = 0
    /\ mdu_run' = FALSE /\ mdu_ctr' = 0
    /\ mul_run' = FALSE /\ mul_done' = FALSE
    /\ clmul_run' = FALSE /\ clmul_done' = FALSE
    /\ div_start' = FALSE /\ div_run' = FALSE /\ div_done' = FALSE
    /\ UNCHANGED mdu_state

UnitClock == StorageClock /\ CounterClock /\ MulClock /\ ClmulClock /\ DivClock

(* mdu_state is not reset: zero and all ones stand for what it powers up   *)
(* with.                                                                   *)
Init ==
    /\ instr = NoInstr
    /\ s_rs1 = 0 /\ s_rs2 = 0
    /\ mdu_state \in {0, 2^MLEN - 1}
    /\ mdu_run = FALSE /\ mdu_ctr = 0
    /\ mul_run = FALSE /\ mul_done = FALSE
    /\ clmul_run = FALSE /\ clmul_done = FALSE
    /\ div_start = FALSE /\ div_run = FALSE /\ div_done = FALSE
    /\ stale = FALSE
    /\ cycles = 0

(* Cycles from the arrival of an instruction to its result.                *)
Latency(i) ==
    LET w == IF i.word THEN WLEN ELSE XLEN
    IN  CASE i.op \in MulOps   -> w \div MUL_UNROLL + 2 - MUL_END
          [] i.op \in ClmulOps -> w \div CLMUL_UNROLL + 2
          [] i.op \in DivOps   -> w + 3

(* The bound of the count: when the result is due.                         *)
count == IF cycles < Latency(instr) THEN cycles + 1 ELSE cycles

(* Execute holds no instruction for the unit, and the next one arrives.    *)
(* The clock is gated, or runs on without anything to do.                  *)
Idle ==
    /\ ~mdu_valid
    /\ IF CLK_GATE_EN THEN UNCHANGED unit ELSE UnitClock
    /\ instr' \in IF stale THEN Flushable ELSE Instruction
    /\ cycles' = 0
    /\ UNCHANGED stale

(* The instruction waits: for the unit, or for writeback.                  *)
Wait ==
    /\ mdu_valid
    /\ UnitClock
    /\ cycles' = count
    /\ UNCHANGED <<instr, stale>>

(* Writeback takes the result: e_new_instr, which flushes the unit.        *)
Retire ==
    /\ mdu_valid /\ mdu_ready
    /\ Flush
    /\ instr' \in Instruction \cup {NoInstr}
    /\ cycles' = 0
    /\ stale' = FALSE

(* A trap or interrupt in writeback flushes execute (s2_flush) before the  *)
(* instruction has ended.  The unit is not told (core_pipe_exec.sv:240).   *)
Interrupt ==
    /\ mdu_valid
    /\ instr \in Flushable
    /\ UnitClock
    /\ instr' = NoInstr
    /\ cycles' = 0
    /\ stale' = TRUE

Next == Idle \/ Wait \/ Retire \/ Interrupt

Spec == Init /\ [][Next]_vars

-----------------------------------------------------------------------------
(* What the instructions mean: the RISC-V M extension and the carry-less   *)
(* products of the B extension.                                            *)

Signed(v, w) == IF Bit(v, w - 1) = 1 THEN Low(v, w) - 2^w ELSE Low(v, w)

(* Division of integers that rounds towards zero.                          *)
Quotient(a, b) ==
    LET abs(x) == IF x < 0 THEN -x ELSE x
        q      == abs(a) \div abs(b)
    IN  IF (a < 0) # (b < 0) THEN -q ELSE q

Divide(a, b) == IF b = 0 THEN -1 ELSE Quotient(a, b)

Remainder(a, b) == IF b = 0 THEN a ELSE a - b * Quotient(a, b)

(* The product of two polynomials over the field of two elements: bit k is *)
(* the parity of the pairs of bits whose positions add up to k.            *)
CarrylessProduct(a, b) ==
    LET pairs(k) == {i \in 0..k : Bit(a, i) = 1 /\ Bit(b, k - i) = 1}
    IN  Value({k \in 0..(MLEN - 1) : Cardinality(pairs(k)) % 2 = 1})

(* The number an instruction computes, and the register that holds it.    *)
Exact(i) ==
    LET w  == IF i.word THEN WLEN ELSE XLEN
        s1 == Signed(i.rs1, w)
        s2 == Signed(i.rs2, w)
        u1 == Low(i.rs1, w)
        u2 == Low(i.rs2, w)
        high(p) == p \div 2^XLEN
    IN  CASE i.op = "mul"    -> u1 * u2
          [] i.op = "mulh"   -> high(s1 * s2)
          [] i.op = "mulhsu" -> high(s1 * u2)
          [] i.op = "mulhu"  -> high(u1 * u2)
          [] i.op = "clmul"  -> CarrylessProduct(u1, u2)
          [] i.op = "clmulh" -> high(CarrylessProduct(u1, u2))
          [] i.op = "div"    -> Divide(s1, s2)
          [] i.op = "divu"   -> Divide(u1, u2)
          [] i.op = "rem"    -> Remainder(s1, s2)
          [] i.op = "remu"   -> Remainder(u1, u2)

Meaning(i) ==
    LET w == IF i.word THEN WLEN ELSE XLEN
    IN  Sext(Low(Exact(i), w), w)

-----------------------------------------------------------------------------
(* The registers keep their widths.                                        *)
TypeOK ==
    /\ instr \in Instruction \cup {NoInstr}
    /\ s_rs1 \in 0..(2^XLEN - 1) /\ s_rs2 \in 0..(2^XLEN - 1)
    /\ mdu_state \in 0..(2^MLEN - 1)
    /\ mdu_ctr \in 0..(MLEN - 1)
    /\ {mdu_run, mul_run, mul_done, clmul_run, clmul_done, div_start, div_run, div_done,
        stale} \subseteq BOOLEAN
    /\ cycles \in 0..(XLEN + 3)

(* What the unit presents as ready is what the instruction means, for as   *)
(* long as writeback leaves it waiting: all widths, signs, division by     *)
(* zero and overflow, whatever was computed before, provided nothing was   *)
(* flushed out of execute since the unit was last flushed.                 *)
ResultIsMeaning ==
    mdu_valid /\ mdu_ready /\ ~stale => rd = Meaning(instr)

(* An operation always ends, and when it does depends on the operation and *)
(* not on its operands or on what was computed before it.                  *)
TimingIsFixed ==
    mdu_valid /\ ~stale => (mdu_ready <=> cycles >= Latency(instr))

(* core_pipe_exec.sv:26 "Flush pipestage contents",                        *)
(* core_pipe_exec_mdu.sv:13 "Flush and stop any execution.": an            *)
(* instruction that was flushed out of execute has no influence on the     *)
(* result of a later one.                                                  *)
FlushedLeavesNothing ==
    mdu_valid /\ mdu_ready => rd = Meaning(instr)

=============================================================================
