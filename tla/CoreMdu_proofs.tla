--------------------------- MODULE CoreMdu_proofs ---------------------------
(***************************************************************************)
(* The multiply/divide unit for registers of every width, for every        *)
(* operand and for every order of instructions and flushes: when its       *)
(* results are there, that its registers keep their widths, and that what  *)
(* it presents is what the instruction means.                              *)
(***************************************************************************)
EXTENDS CoreMdu, Induction, FiniteSetTheorems, TLAPS

(* The unrolling of a multiplier that its counter can end with: a number   *)
(* of bits that divides a word, one or even.  The source has 4 and 8.      *)
UnrollsFit ==
    /\ MUL_UNROLL = 1 \/ MUL_UNROLL % 2 = 0
    /\ WLEN % MUL_UNROLL = 0 /\ WLEN % CLMUL_UNROLL = 0

(* For an instruction: the width of its operands, the bits the counter     *)
(* goes down in a cycle and where it ends, and the cycles before it is     *)
(* loaded.                                                                 *)
Width(i)  == IF i.word THEN WLEN ELSE XLEN
Unroll(i) == IF i.op \in MulOps THEN MUL_UNROLL
             ELSE IF i.op \in ClmulOps THEN CLMUL_UNROLL ELSE 1
End(i)    == IF i.op \in MulOps THEN MUL_END ELSE 0
Lead(i)   == IF i.op \in DivOps THEN 2 ELSE 1

(* The steps of the counter that are left after c cycles.                  *)
Left(i, c) == Latency(i) - 1 - c

(* What the counter is then.                                               *)
CountAt(i, c) == End(i) + Unroll(i) * Left(i, c)

(* The unit in step with the instruction in execute: the flags are those   *)
(* of its operation and of no other, and they and the counter are a        *)
(* function of the cycles it has been there.                               *)
InStep ==
    /\ mul_run    <=> any_mul   /\ cycles >= 1 /\ cycles < Latency(instr)
    /\ clmul_run  <=> any_clmul /\ cycles >= 1 /\ cycles < Latency(instr)
    /\ div_start  <=> any_div   /\ cycles = 1
    /\ div_run    <=> any_div   /\ cycles >= 2 /\ cycles < Latency(instr)
    /\ mul_done   <=> any_mul   /\ cycles >= Latency(instr)
    /\ clmul_done <=> any_clmul /\ cycles >= Latency(instr)
    /\ div_done   <=> any_div   /\ cycles >= Latency(instr)
    /\ mdu_run    <=> mul_run \/ clmul_run \/ div_run
    /\ mdu_run => mdu_ctr = CountAt(instr, cycles)

(* The inductive invariant: the unit is in step, unless an instruction was *)
(* flushed since the unit was.                                             *)
TimingInv ==
    /\ instr \in Instruction \cup {NoInstr} /\ cycles \in Nat /\ stale \in BOOLEAN
    /\ ~mdu_valid => cycles = 0
    /\ ~stale => InStep

-----------------------------------------------------------------------------
(* Arithmetic: a product smaller than its factor is zero, ...              *)
LEMMA SmallProduct ==
    ASSUME NEW u \in Nat, NEW k \in Int, u > 0, 0 <= u * k, u * k < u
    PROVE  k = 0
<1>1. CASE k >= 1
  <2>1. u * k = u + u * (k - 1) /\ u * (k - 1) >= 0
    BY <1>1, SMT
  <2> QED BY <2>1
<1>2. CASE k <= -1
  <2>1. u * k = -u + u * (k + 1) /\ u * (k + 1) <= 0
    BY <1>2, SMT
  <2> QED BY <2>1
<1> QED BY <1>1, <1>2

(* ... a multiple of a number is divided by it, ...                        *)
LEMMA Multiple ==
    ASSUME NEW u \in Nat, NEW q \in Int, u > 0
    PROVE  (u * q) \div u = q
<1> DEFINE d == (u * q) \div u
           r == (u * q) % u
<1>1. d \in Int /\ r \in Int /\ 0 <= r /\ r < u /\ u * q = u * d + r
  OBVIOUS
<1> HIDE DEF d, r
<1>2. u * (q - d) = r
  BY <1>1
<1>3. q - d = 0
  BY <1>1, <1>2, SmallProduct
<1> QED BY <1>1, <1>3 DEF d

(* ... and so are the word and the register by an unrolling that fits.     *)
LEMMA Divides ==
    ASSUME NEW u \in 1..WLEN, WLEN % u = 0
    PROVE  /\ WLEN \div u \in Nat /\ XLEN \div u \in Nat
           /\ u * (WLEN \div u) = WLEN /\ u * (XLEN \div u) = XLEN
           /\ WLEN \div u >= 1 /\ XLEN \div u >= 1
<1>1. WLEN \in Nat /\ XLEN \in Nat /\ XLEN = 2 * WLEN /\ WLEN >= 1
  BY MduAssumption DEF WLEN
<1> DEFINE q == WLEN \div u
<1> HIDE DEF q
<1>2. q \in Nat /\ u * q = WLEN
  BY <1>1 DEF q
<1>3. XLEN = u * (2 * q)
  BY <1>1, <1>2
<1>4. XLEN \div u = 2 * q
  BY <1>2, <1>3, Multiple
<1>5. q >= 1
  BY <1>1, <1>2
<1> QED BY <1>1, <1>2, <1>3, <1>4, <1>5 DEF q

-----------------------------------------------------------------------------
(* The latency of an instruction is the cycles before the counter is       *)
(* loaded, the steps from the width to the end, and one.                   *)
LEMMA LatencyFacts ==
    ASSUME UnrollsFit, NEW i \in Instruction
    PROVE  /\ Latency(i) \in Nat /\ Unroll(i) \in Nat /\ Unroll(i) >= 1 /\ End(i) \in Nat
           /\ Left(i, Lead(i)) \in Nat
           /\ Width(i) \in Nat /\ Width(i) < MLEN
           /\ Width(i) = CountAt(i, Lead(i))
<1>1. /\ XLEN \in Nat /\ WLEN \in Nat /\ XLEN = 2 * WLEN /\ WLEN >= 1 /\ MLEN = 2 * XLEN
      /\ MUL_UNROLL \in 1..WLEN /\ CLMUL_UNROLL \in 1..WLEN
  BY MduAssumption DEF WLEN, MLEN
<1>2. Width(i) \in {WLEN, XLEN} /\ Width(i) \in Nat /\ Width(i) >= 1 /\ Width(i) < MLEN
  BY <1>1 DEF Width
<1>3. \A u \in 1..WLEN : WLEN % u = 0 =>
        Width(i) \div u \in Nat /\ u * (Width(i) \div u) = Width(i) /\ Width(i) \div u >= 1
  BY <1>2, Divides
<1>4. CASE i.op \in MulOps
  <2> DEFINE n == Width(i) \div MUL_UNROLL
  <2>1. /\ Latency(i) = n + 2 - MUL_END /\ Unroll(i) = MUL_UNROLL /\ End(i) = MUL_END
        /\ Lead(i) = 1
    BY <1>4 DEF Latency, Width, Unroll, End, Lead, MulOps, ClmulOps, DivOps
  <2>2. n \in Nat /\ MUL_UNROLL * n = Width(i) /\ n >= 1
    BY <1>1, <1>3 DEF UnrollsFit
  <2> HIDE DEF n
  <2>3. CASE MUL_UNROLL = 1
    <3>1. MUL_END = 1
      BY <2>3 DEF MUL_END
    <3>2. Latency(i) = n + 1 /\ Left(i, 1) = n - 1 /\ Width(i) = n
      BY <2>1, <2>2, <2>3, <3>1 DEF Left
    <3> QED BY <1>2, <2>1, <2>2, <2>3, <3>1, <3>2 DEF CountAt
  <2>4. CASE MUL_UNROLL % 2 = 0
    <3>1. MUL_END = 0
      BY <2>4 DEF MUL_END
    <3>2. Latency(i) = n + 2 /\ Left(i, 1) = n
      BY <2>1, <2>2, <3>1 DEF Left
    <3> QED BY <1>1, <1>2, <2>1, <2>2, <3>1, <3>2 DEF CountAt
  <2> QED BY <2>3, <2>4 DEF UnrollsFit
<1>5. CASE i.op \in ClmulOps
  <2> DEFINE n == Width(i) \div CLMUL_UNROLL
  <2>1. Latency(i) = n + 2 /\ Unroll(i) = CLMUL_UNROLL /\ End(i) = 0 /\ Lead(i) = 1
    BY <1>5 DEF Latency, Width, Unroll, End, Lead, MulOps, ClmulOps, DivOps
  <2>2. n \in Nat /\ CLMUL_UNROLL * n = Width(i) /\ n >= 1
    BY <1>1, <1>3 DEF UnrollsFit
  <2> HIDE DEF n
  <2>3. Left(i, 1) = n
    BY <2>1, <2>2 DEF Left
  <2> QED BY <1>1, <1>2, <2>1, <2>2, <2>3 DEF CountAt
<1>6. CASE i.op \in DivOps
  <2>1. Latency(i) = Width(i) + 3 /\ Unroll(i) = 1 /\ End(i) = 0 /\ Lead(i) = 2
    BY <1>6 DEF Latency, Width, Unroll, End, Lead, MulOps, ClmulOps, DivOps
  <2>2. Left(i, 2) = Width(i)
    BY <1>2, <2>1 DEF Left
  <2> QED BY <1>2, <2>1, <2>2 DEF CountAt
<1> QED BY <1>4, <1>5, <1>6 DEF Instruction, DivOps, MulOps

(* The counter after c cycles: at its end in the cycle before the result,  *)
(* and a step nearer to it, without wrapping, in every other.              *)
LEMMA CounterStep ==
    ASSUME UnrollsFit, NEW i \in Instruction, NEW c \in Nat,
           Lead(i) <= c, c < Latency(i)
    PROVE  /\ CountAt(i, c) = End(i) <=> c + 1 = Latency(i)
           /\ c + 1 < Latency(i) => (CountAt(i, c) - Unroll(i)) % MLEN = CountAt(i, c + 1)
<1> DEFINE u == Unroll(i)
           e == End(i)
           k == Left(i, c)
           n == Left(i, Lead(i))
<1>1. /\ u \in Nat /\ u >= 1 /\ e \in Nat /\ n \in Nat /\ e + u * n < MLEN
      /\ Latency(i) \in Nat
  BY LatencyFacts DEF CountAt
<1>2. k \in Nat /\ k <= n /\ (k = 0 <=> c + 1 = Latency(i)) /\ Left(i, c + 1) = k - 1
  BY <1>1 DEF Left, Lead
<1>3. MLEN \in Nat /\ MLEN > 0
  BY MduAssumption DEF MLEN
<1> HIDE DEF u, e, k, n
<1>4. u * k = 0 <=> k = 0
  BY <1>1, <1>2, SmallProduct
<1>5. ASSUME k # 0
      PROVE  /\ e + u * k - u = e + u * (k - 1)
             /\ e + u * (k - 1) \in 0..(MLEN - 1)
  <2>1. u * k - u = u * (k - 1)
    BY <1>1, <1>2
  <2>2. u * (k - 1) >= 0
    BY <1>1, <1>2, <1>5
  <2>3. u * (k - 1) <= u * n
    <3>1. u * n = u * (k - 1) + u * (n - (k - 1)) /\ u * (n - (k - 1)) >= 0
      BY <1>1, <1>2
    <3> QED BY <3>1, <1>1, <1>2
  <2> QED BY <1>1, <1>2, <1>3, <2>1, <2>2, <2>3
<1>6. e + u * k = e <=> k = 0
  BY <1>1, <1>2, <1>4
<1>7. c + 1 < Latency(i) => k # 0
  BY <1>1, <1>2
<1>8. CountAt(i, c) = e + u * k /\ CountAt(i, c + 1) = e + u * (k - 1)
  BY <1>2 DEF u, e, k, CountAt
<1>9. c + 1 < Latency(i) => (CountAt(i, c) - u) % MLEN = CountAt(i, c + 1)
  <2>1. SUFFICES ASSUME c + 1 < Latency(i)
                 PROVE  (CountAt(i, c) - u) % MLEN = CountAt(i, c + 1)
    OBVIOUS
  <2>2. CountAt(i, c + 1) \in 0..(MLEN - 1)
    BY <1>5, <1>7, <1>8, <2>1
  <2>3. CountAt(i, c) - u = CountAt(i, c + 1)
    BY <1>1, <1>2, <1>5, <1>7, <1>8, <2>1
  <2> QED BY <1>3, <2>2, <2>3
<1>10. CountAt(i, c) = e <=> c + 1 = Latency(i)
  BY <1>2, <1>6, <1>8
<1> QED BY <1>9, <1>10 DEF u, e

-----------------------------------------------------------------------------
(* What is asked of the unit.                                              *)
LEMMA Decoded ==
    ASSUME instr \in Instruction \cup {NoInstr}
    PROVE  /\ mdu_valid <=> instr \in Instruction
           /\ any_mul => ~any_clmul /\ ~any_div
           /\ any_clmul => ~any_mul /\ ~any_div
           /\ any_div => ~any_mul /\ ~any_clmul
<1>1. instr \in Instruction => op \in MulOps \cup ClmulOps \cup DivOps
  BY DEF op, Instruction, MulOps
<1>2. instr = NoInstr => op = "none"
  BY DEF op, NoInstr
<1> QED BY <1>1, <1>2 DEF mdu_valid, any_mul, any_clmul, any_div, MulOps, ClmulOps, DivOps

(* The control of the unit in a cycle, in the terms of the invariant.      *)
Control == CounterClock /\ MulClock /\ ClmulClock /\ DivClock

(* A multiplication goes from its start to its result.                     *)
LEMMA MulStep ==
    ASSUME UnrollsFit, TimingInv, InStep, any_mul, Control, cycles' = count, instr' = instr
    PROVE  InStep'
<1>1. /\ instr \in Instruction /\ ~any_clmul /\ ~any_div /\ cycles \in Nat
      /\ any_mul' /\ ~any_clmul' /\ ~any_div' /\ Latency(instr)' = Latency(instr)
      /\ CountAt(instr, cycles)' = CountAt(instr, cycles')
  BY Decoded DEF TimingInv, mdu_valid, any_mul, any_clmul, any_div, op
<1>2. Lead(instr) = 1 /\ End(instr) = MUL_END /\ Unroll(instr) = MUL_UNROLL /\ width = Width(instr)
  BY <1>1 DEF Lead, End, Unroll, width, Width, op_word, any_mul, any_div, op
<1>3. ~clmul_run /\ ~clmul_done /\ ~div_start /\ ~div_run /\ ~div_done
  BY <1>1 DEF InStep
<1>4. ~clmul_run' /\ ~clmul_done' /\ ~div_start' /\ ~div_run' /\ ~div_done'
  BY <1>1, <1>3 DEF Control, ClmulClock, DivClock, clmul_start, n_div_start, n_clmul_done, n_div_done
<1>5. Latency(instr) \in Nat /\ Latency(instr) >= 2
  BY <1>1, <1>2, LatencyFacts DEF Left
<1>6. CASE cycles = 0
  <2>1. ~mul_run /\ ~mul_done /\ mul_start /\ mdu_start
    BY <1>5, <1>6 DEF InStep, mul_start, mdu_start
  <2>2. mul_run' /\ ~mul_done' /\ mdu_run' /\ mdu_ctr' = width
    BY <2>1, Zenon DEF Control, MulClock, CounterClock, n_mdu_ctr
  <2>4. cycles' = 1
    BY <1>5, <1>6 DEF count
  <2>3. mdu_ctr' = CountAt(instr, cycles')
    BY <1>1, <1>2, <2>2, <2>4, LatencyFacts
  <2> QED BY <1>1, <1>4, <1>5, <2>2, <2>3, <2>4 DEF InStep
<1>7. CASE cycles >= 1 /\ cycles < Latency(instr)
  <2>0. mul_run /\ ~mul_done /\ mdu_run /\ mdu_ctr = CountAt(instr, cycles)
    BY <1>1, <1>5, <1>7 DEF InStep
  <2>1. ~mul_start /\ ~mdu_start /\ mdu_step = MUL_UNROLL
    BY <1>1, <1>3, <2>0 DEF mul_start, clmul_start, mdu_start, mdu_step
  <2>2. mdu_end <=> mdu_ctr = MUL_END
    BY <1>1 DEF mdu_end
  <2>3. /\ mul_run' <=> mdu_ctr # MUL_END
        /\ mul_done' <=> mdu_ctr = MUL_END
        /\ mdu_run' <=> mdu_ctr # MUL_END
        /\ mdu_ctr # MUL_END => mdu_ctr' = (mdu_ctr - MUL_UNROLL) % MLEN
        /\ cycles' = cycles + 1
    BY <1>7, <2>0, <2>1, <2>2 DEF Control, MulClock, CounterClock, n_mdu_ctr, n_mul_done, count
  <2>4. mdu_ctr = MUL_END <=> cycles + 1 = Latency(instr)
    BY <1>1, <1>2, <1>7, <2>0, CounterStep
  <2>5. mdu_ctr # MUL_END => mdu_ctr' = CountAt(instr, cycles')
    BY <1>1, <1>2, <1>5, <1>7, <2>0, <2>3, <2>4, CounterStep
  <2>6. cycles' >= 1 /\ (cycles' < Latency(instr) <=> mdu_ctr # MUL_END)
        /\ (cycles' >= Latency(instr) <=> mdu_ctr = MUL_END)
    BY <1>1, <1>5, <1>7, <2>3, <2>4
  <2> QED BY <1>1, <1>4, <2>3, <2>5, <2>6 DEF InStep
<1>8. CASE cycles >= Latency(instr)
  <2>1. ~mul_run /\ mul_done /\ ~mul_start /\ ~mdu_start /\ ~mdu_run /\ cycles' = cycles
    BY <1>1, <1>3, <1>5, <1>8 DEF InStep, mul_start, clmul_start, mdu_start, count
  <2>2. ~mul_run' /\ mul_done' /\ ~mdu_run'
    BY <2>1 DEF Control, MulClock, CounterClock
  <2> QED BY <1>1, <1>4, <1>5, <1>8, <2>1, <2>2 DEF InStep
<1> QED BY <1>1, <1>5, <1>6, <1>7, <1>8

(* So does a carry-less multiplication.                                    *)
LEMMA ClmulStep ==
    ASSUME UnrollsFit, TimingInv, InStep, any_clmul, Control, cycles' = count, instr' = instr
    PROVE  InStep'
<1>1. /\ instr \in Instruction /\ ~any_mul /\ ~any_div /\ cycles \in Nat
      /\ any_clmul' /\ ~any_mul' /\ ~any_div' /\ Latency(instr)' = Latency(instr)
      /\ CountAt(instr, cycles)' = CountAt(instr, cycles')
  BY Decoded DEF TimingInv, mdu_valid, any_clmul, any_mul, any_div, op
<1>2. Lead(instr) = 1 /\ End(instr) = CLMUL_END /\ Unroll(instr) = CLMUL_UNROLL /\ width = Width(instr)
  BY <1>1 DEF Lead, End, Unroll, width, Width, op_word, any_mul, any_clmul, any_div, op, CLMUL_END
<1>3. ~mul_run /\ ~mul_done /\ ~div_start /\ ~div_run /\ ~div_done
  BY <1>1 DEF InStep
<1>4. ~mul_run' /\ ~mul_done' /\ ~div_start' /\ ~div_run' /\ ~div_done'
  BY <1>1, <1>3 DEF Control, MulClock, DivClock, mul_start, n_div_start, n_mul_done, n_div_done
<1>5. Latency(instr) \in Nat /\ Latency(instr) >= 2
  BY <1>1, <1>2, LatencyFacts DEF Left
<1>6. CASE cycles = 0
  <2>1. ~clmul_run /\ ~clmul_done /\ clmul_start /\ mdu_start
    BY <1>5, <1>6 DEF InStep, clmul_start, mdu_start
  <2>2. clmul_run' /\ ~clmul_done' /\ mdu_run' /\ mdu_ctr' = width
    BY <2>1, Zenon DEF Control, ClmulClock, CounterClock, n_mdu_ctr
  <2>4. cycles' = 1
    BY <1>5, <1>6 DEF count
  <2>3. mdu_ctr' = CountAt(instr, cycles')
    BY <1>1, <1>2, <2>2, <2>4, LatencyFacts
  <2> QED BY <1>1, <1>4, <1>5, <2>2, <2>3, <2>4 DEF InStep
<1>7. CASE cycles >= 1 /\ cycles < Latency(instr)
  <2>0. clmul_run /\ ~clmul_done /\ mdu_run /\ mdu_ctr = CountAt(instr, cycles)
    BY <1>1, <1>5, <1>7 DEF InStep
  <2>1. ~clmul_start /\ ~mdu_start /\ mdu_step = CLMUL_UNROLL
    BY <1>1, <1>3, <2>0 DEF clmul_start, mul_start, mdu_start, mdu_step
  <2>2. mdu_end <=> mdu_ctr = CLMUL_END
    BY <1>1 DEF mdu_end
  <2>3. /\ clmul_run' <=> mdu_ctr # CLMUL_END
        /\ clmul_done' <=> mdu_ctr = CLMUL_END
        /\ mdu_run' <=> mdu_ctr # CLMUL_END
        /\ mdu_ctr # CLMUL_END => mdu_ctr' = (mdu_ctr - CLMUL_UNROLL) % MLEN
        /\ cycles' = cycles + 1
    BY <1>7, <2>0, <2>1, <2>2 DEF Control, ClmulClock, CounterClock, n_mdu_ctr, n_clmul_done, count
  <2>4. mdu_ctr = CLMUL_END <=> cycles + 1 = Latency(instr)
    BY <1>1, <1>2, <1>7, <2>0, CounterStep
  <2>5. mdu_ctr # CLMUL_END => mdu_ctr' = CountAt(instr, cycles')
    BY <1>1, <1>2, <1>5, <1>7, <2>0, <2>3, <2>4, CounterStep
  <2>6. cycles' >= 1 /\ (cycles' < Latency(instr) <=> mdu_ctr # CLMUL_END)
        /\ (cycles' >= Latency(instr) <=> mdu_ctr = CLMUL_END)
    BY <1>1, <1>5, <1>7, <2>3, <2>4
  <2> QED BY <1>1, <1>4, <2>3, <2>5, <2>6 DEF InStep
<1>8. CASE cycles >= Latency(instr)
  <2>1. ~clmul_run /\ clmul_done /\ ~clmul_start /\ ~mdu_start /\ ~mdu_run /\ cycles' = cycles
    BY <1>1, <1>3, <1>5, <1>8 DEF InStep, clmul_start, mul_start, mdu_start, count
  <2>2. ~clmul_run' /\ clmul_done' /\ ~mdu_run'
    BY <2>1 DEF Control, ClmulClock, CounterClock
  <2> QED BY <1>1, <1>4, <1>5, <1>8, <2>1, <2>2 DEF InStep
<1> QED BY <1>1, <1>5, <1>6, <1>7, <1>8

(* A division loads its operands first, and the counter a cycle later.     *)
LEMMA DivStep ==
    ASSUME UnrollsFit, TimingInv, InStep, any_div, Control, cycles' = count, instr' = instr
    PROVE  InStep'
<1>1. /\ instr \in Instruction /\ ~any_mul /\ ~any_clmul /\ cycles \in Nat
      /\ any_div' /\ ~any_mul' /\ ~any_clmul' /\ Latency(instr)' = Latency(instr)
      /\ CountAt(instr, cycles)' = CountAt(instr, cycles')
  BY Decoded DEF TimingInv, mdu_valid, any_mul, any_clmul, any_div, op
<1>2. Lead(instr) = 2 /\ End(instr) = 0 /\ Unroll(instr) = 1 /\ width = Width(instr)
  BY <1>1 DEF Lead, End, Unroll, width, Width, op_word, any_mul, any_clmul, any_div, op
<1>3. ~mul_run /\ ~mul_done /\ ~clmul_run /\ ~clmul_done
  BY <1>1 DEF InStep
<1>4. ~mul_run' /\ ~mul_done' /\ ~clmul_run' /\ ~clmul_done'
  BY <1>1, <1>3 DEF Control, MulClock, ClmulClock, mul_start, clmul_start, n_mul_done, n_clmul_done
<1>5. Latency(instr) \in Nat /\ Latency(instr) >= 3
  BY <1>1, <1>2, LatencyFacts DEF Left
<1>6. mdu_start <=> div_start
  BY <1>1 DEF mdu_start, mul_start, clmul_start
<1>7. CASE cycles = 0
  <2>1. ~div_start /\ ~div_run /\ ~div_done /\ ~mdu_run
    BY <1>3, <1>5, <1>7 DEF InStep
  <2>2. div_start' /\ ~div_run' /\ ~div_done' /\ ~mdu_run'
    BY <1>6, <2>1, Zenon DEF Control, DivClock, CounterClock, n_div_start, n_div_done
  <2>3. cycles' = 1
    BY <1>5, <1>7 DEF count
  <2> QED BY <1>1, <1>4, <1>5, <2>2, <2>3 DEF InStep
<1>8. CASE cycles = 1
  <2>1. div_start /\ ~div_run /\ ~div_done
    BY <1>5, <1>8 DEF InStep
  <2>2. ~div_start' /\ div_run' /\ ~div_done' /\ mdu_run' /\ mdu_ctr' = width
    BY <1>6, <2>1, Zenon DEF Control, DivClock, CounterClock, n_div_start, n_div_done, n_mdu_ctr
  <2>3. cycles' = 2
    BY <1>5, <1>8 DEF count
  <2>4. mdu_ctr' = CountAt(instr, cycles')
    BY <1>1, <1>2, <2>2, <2>3, LatencyFacts
  <2> QED BY <1>1, <1>4, <1>5, <2>2, <2>3, <2>4 DEF InStep
<1>9. CASE cycles >= 2 /\ cycles < Latency(instr)
  <2>0. ~div_start /\ div_run /\ ~div_done /\ mdu_run /\ mdu_ctr = CountAt(instr, cycles)
    BY <1>1, <1>5, <1>9 DEF InStep
  <2>1. ~n_div_start /\ ~mdu_start /\ mdu_step = 1 /\ (mdu_end <=> mdu_ctr = 0)
    BY <1>1, <1>6, <2>0 DEF n_div_start, mdu_step, mdu_end
  <2>2. ~div_start'
    BY <2>1, Zenon DEF Control, DivClock
  <2>3. /\ div_run' <=> mdu_ctr # 0
        /\ div_done' <=> mdu_ctr = 0
        /\ mdu_run' <=> mdu_ctr # 0
        /\ mdu_ctr # 0 => mdu_ctr' = (mdu_ctr - 1) % MLEN
        /\ cycles' = cycles + 1
    BY <1>9, <2>0, <2>1 DEF Control, DivClock, CounterClock, n_mdu_ctr, n_div_done, count
  <2>4. mdu_ctr = 0 <=> cycles + 1 = Latency(instr)
    BY <1>1, <1>2, <1>9, <2>0, CounterStep
  <2>5. mdu_ctr # 0 => mdu_ctr' = CountAt(instr, cycles')
    BY <1>1, <1>2, <1>5, <1>9, <2>0, <2>3, <2>4, CounterStep
  <2>6. cycles' >= 2 /\ (cycles' < Latency(instr) <=> mdu_ctr # 0)
        /\ (cycles' >= Latency(instr) <=> mdu_ctr = 0)
    BY <1>1, <1>5, <1>9, <2>3, <2>4
  <2> QED BY <1>1, <1>4, <2>2, <2>3, <2>5, <2>6 DEF InStep
<1>10. CASE cycles >= Latency(instr)
  <2>1. ~div_start /\ ~div_run /\ div_done /\ ~mdu_run /\ cycles' = cycles
    BY <1>1, <1>3, <1>5, <1>10 DEF InStep, count
  <2>2. ~div_start' /\ ~div_run' /\ div_done' /\ ~mdu_run'
    BY <1>6, <2>1, Zenon DEF Control, DivClock, CounterClock, n_div_start
  <2> QED BY <1>1, <1>4, <1>5, <1>10, <2>1, <2>2 DEF InStep
<1> QED BY <1>1, <1>5, <1>7, <1>8, <1>9, <1>10

(* Without an instruction nothing runs and nothing starts.                 *)
Quiet ==
    /\ ~mul_run /\ ~mul_done /\ ~clmul_run /\ ~clmul_done
    /\ ~div_start /\ ~div_run /\ ~div_done /\ ~mdu_run

(* A unit at rest stays at rest.                                           *)
LEMMA IdleStep ==
    ASSUME Quiet, ~mdu_valid, Control \/ UNCHANGED unit
    PROVE  Quiet'
<1>1. CASE UNCHANGED unit
  BY <1>1 DEF unit, Quiet
<1>2. CASE Control
  <2>1. ~mul_start /\ ~clmul_start /\ ~n_div_start /\ ~mdu_start
    BY DEF Quiet, mdu_valid, mul_start, clmul_start, n_div_start, mdu_start
  <2>2. ~mul_run' /\ ~mul_done'
    BY <1>2, <2>1 DEF Control, MulClock, n_mul_done, Quiet
  <2>3. ~clmul_run' /\ ~clmul_done'
    BY <1>2, <2>1 DEF Control, ClmulClock, n_clmul_done, Quiet
  <2>4. ~div_start' /\ ~div_run' /\ ~div_done'
    BY <1>2, <2>1 DEF Control, DivClock, n_div_done, Quiet
  <2>5. ~mdu_run'
    BY <1>2, <2>1 DEF Control, CounterClock, Quiet
  <2> QED BY <2>2, <2>3, <2>4, <2>5 DEF Quiet
<1> QED BY <1>1, <1>2

(* An instruction that arrives at a quiet unit finds it in step.           *)
Arrives == instr \in Instruction \cup {NoInstr} /\ cycles = 0

(* A unit in step with an instruction that has just arrived is a unit at   *)
(* rest.                                                                   *)
LEMMA Arrival ==
    UnrollsFit /\ Arrives => (InStep <=> Quiet)
<1> SUFFICES ASSUME UnrollsFit, Arrives PROVE InStep <=> Quiet
  OBVIOUS
<1>1. instr \in Instruction => Latency(instr) \in Nat /\ Latency(instr) >= 2
  BY LatencyFacts DEF Left, Lead
<1>2. any_mul \/ any_clmul \/ any_div => instr \in Instruction
  BY Decoded DEF mdu_valid, Arrives
<1> QED BY <1>1, <1>2 DEF InStep, Quiet, Arrives

(* The same after a step.                                                  *)
LEMMA NextArrival ==
    UnrollsFit /\ Arrives' => (InStep' <=> Quiet')
<1>1. (UnrollsFit /\ Arrives => (InStep <=> Quiet))'
  BY Arrival, PTL
<1>2. UnrollsFit' <=> UnrollsFit
  BY DEF UnrollsFit, WLEN
<1> QED BY <1>1, <1>2

-----------------------------------------------------------------------------
(* Reset leaves the unit in step.                                          *)
LEMMA TimingInit ==
    ASSUME UnrollsFit, Init
    PROVE  TimingInv
<1>1. instr \in Instruction \cup {NoInstr} /\ cycles = 0 /\ stale = FALSE /\ Quiet
  BY DEF Init, Quiet
<1> QED BY <1>1, Arrival DEF TimingInv, Arrives

(* Every cycle, flush and interrupt keeps it so.                           *)
LEMMA TimingNext ==
    ASSUME UnrollsFit, TimingInv, [Next]_vars
    PROVE  TimingInv'
<1>1. CASE Idle
  <2>1. instr' \in Instruction /\ cycles' = 0 /\ stale' = stale
    BY <1>1, MduAssumption DEF Idle
  <2>2. ASSUME ~stale
        PROVE  InStep'
    <3>1. Quiet
      BY <1>1, <2>2, Arrival DEF TimingInv, Idle, Arrives
    <3>2. Quiet'
      BY <1>1, <3>1, IdleStep DEF Idle, UnitClock, Control
    <3> QED BY <2>1, <3>2, NextArrival DEF Arrives
  <2> QED BY <2>1, <2>2 DEF TimingInv
<1>2. CASE Wait
  <2>1. /\ instr' = instr /\ stale' = stale /\ cycles' = count /\ Control /\ mdu_valid
        /\ instr \in Instruction /\ cycles \in Nat
    BY <1>2, Decoded DEF Wait, UnitClock, Control, TimingInv
  <2>2. cycles' \in Nat
    BY <2>1 DEF count
  <2>3. ~stale => InStep'
    BY <2>1, MulStep, ClmulStep, DivStep DEF TimingInv, mdu_valid
  <2>4. mdu_valid'
    BY <2>1 DEF mdu_valid, any_mul, any_clmul, any_div, op
  <2> QED BY <2>1, <2>2, <2>3, <2>4 DEF TimingInv
<1>3. CASE Retire
  <2>1. instr' \in Instruction \cup {NoInstr} /\ cycles' = 0 /\ stale' = FALSE /\ Quiet'
    BY <1>3 DEF Retire, Flush, Quiet
  <2> QED BY <2>1, NextArrival DEF TimingInv, Arrives
<1>4. CASE Interrupt
  BY <1>4 DEF Interrupt, TimingInv
<1>5. CASE UNCHANGED vars
  BY <1>5 DEF vars, unit, TimingInv, InStep, mdu_valid, any_mul, any_clmul, any_div, op
<1> QED BY <1>1, <1>2, <1>3, <1>4, <1>5 DEF Next

(* The flags and the counter of the unit follow the instruction in         *)
(* execute, cycle by cycle (core_pipe_exec_mdu.sv:109-140,176-189,252-265, *)
(* 365-388), with every unrolling that fits.                               *)
THEOREM MduInStep ==
    ASSUME UnrollsFit
    PROVE  Spec => []TimingInv
<1>1. Init => TimingInv
  BY TimingInit
<1>2. TimingInv /\ [Next]_vars => TimingInv'
  BY TimingNext
<1> QED BY <1>1, <1>2, PTL DEF Spec

(* A result is there after a number of cycles that depends on the          *)
(* operation only, whatever was computed before and whatever the operands  *)
(* (core_pipe_exec_mdu.sv:59-62).                                          *)
THEOREM MduTimingIsFixed ==
    ASSUME UnrollsFit
    PROVE  Spec => []TimingIsFixed
<1>1. TimingInv => TimingIsFixed
  BY Decoded DEF TimingInv, InStep, TimingIsFixed, mdu_valid, mdu_ready
<1>2. Spec => []TimingInv
  BY MduInStep
<1> QED BY <1>1, <1>2, PTL

-----------------------------------------------------------------------------
(* Division of integers by a positive number: quotient and remainder are   *)
(* unique, ...                                                             *)
LEMMA DivUnique ==
    ASSUME NEW v \in Int, NEW d \in Nat, d > 0, NEW q \in Int, NEW r \in Int,
           v = d * q + r, 0 <= r, r < d
    PROVE  v \div d = q /\ v % d = r
<1> DEFINE qq == v \div d
           rr == v % d
<1>1. qq \in Int /\ rr \in Int /\ 0 <= rr /\ rr < d /\ v = d * qq + rr
  OBVIOUS
<1> HIDE DEF qq, rr
<1>2. d * (q - qq) = rr - r
  BY <1>1
<1>3. q - qq = 0
  <2>1. CASE rr >= r
    BY <1>1, <1>2, <2>1, SmallProduct
  <2>2. CASE rr < r
    <3>1. d * (qq - q) = r - rr
      BY <1>1
    <3>2. qq - q = 0
      BY <1>1, <2>2, <3>1, SmallProduct
    <3> QED BY <1>1, <3>2
  <2> QED BY <1>1, <2>1, <2>2
<1> QED BY <1>1, <1>2, <1>3 DEF qq, rr

(* ... and exist.                                                          *)
LEMMA DivMod ==
    ASSUME NEW v \in Int, NEW d \in Nat, d > 0
    PROVE  /\ v \div d \in Int /\ v % d \in 0..(d - 1)
           /\ v = d * (v \div d) + (v % d)
OBVIOUS

(* A product grows with its factor, ...                                    *)
LEMMA ProductOrder ==
    ASSUME NEW a \in Int, NEW b \in Int, NEW c \in Nat, a <= b
    PROVE  a * c <= b * c
<1>1. (b - a) * c >= 0
  BY SMT
<1> QED BY <1>1, SMT

(* ... and is a number.                                                    *)
LEMMA ProductNat ==
    ASSUME NEW a \in Nat, NEW b \in Nat
    PROVE  a * b \in Nat /\ (a > 0 /\ b > 0 => a * b > 0) /\ a * b = b * a
BY SMT

(* A number below a product splits into a digit and a rest.                *)
LEMMA DivBound ==
    ASSUME NEW v \in Nat, NEW d \in Nat, d > 0, NEW e \in Nat, v < d * e
    PROVE  v \div d \in 0..(e - 1)
<1> DEFINE q == v \div d
<1>1. q \in Int /\ v % d \in 0..(d - 1) /\ v = d * q + (v % d)
  BY DivMod
<1> HIDE DEF q
<1>2. q >= 0
  <2>1. ASSUME q <= -1 PROVE FALSE
    <3>1. q * d <= (-1) * d
      BY <1>1, <2>1, ProductOrder
    <3> QED BY <1>1, <3>1
  <2> QED BY <1>1, <2>1
<1>3. q <= e - 1
  <2>1. ASSUME e <= q PROVE FALSE
    <3>1. e * d <= q * d
      BY <1>1, <2>1, ProductOrder
    <3> QED BY <1>1, <3>1
  <2> QED BY <1>1, <2>1
<1> QED BY <1>1, <1>2, <1>3 DEF q

(* A multiple of the divisor does not change the remainder.                *)
LEMMA ModShift ==
    ASSUME NEW v \in Int, NEW k \in Int, NEW d \in Nat, d > 0
    PROVE  (v + d * k) % d = v % d /\ (v + d * k) \div d = v \div d + k
<1>1. v \div d \in Int /\ v % d \in 0..(d - 1) /\ v = d * (v \div d) + (v % d)
  BY DivMod
<1> DEFINE q == v \div d
           r == v % d
<1> HIDE DEF q, r
<1>2. q \in Int /\ r \in Int /\ v + d * k = d * (q + k) + r /\ 0 <= r /\ r < d
  BY <1>1 DEF q, r
<1>3. (v + d * k) \div d = q + k /\ (v + d * k) % d = r
  BY <1>2, DivUnique
<1> QED BY <1>3 DEF q, r

(* Dividing twice is dividing by the product.                              *)
LEMMA DivDiv ==
    ASSUME NEW v \in Int, NEW d \in Nat, NEW e \in Nat, d > 0, e > 0
    PROVE  /\ (v \div d) \div e = v \div (d * e)
           /\ (v \div d) % e = (v % (d * e)) \div d
           /\ (v % (d * e)) % d = v % d
<1> DEFINE q == v \div d
           r == v % d
           qq == q \div e
           rr == q % e
<1>1. q \in Int /\ r \in 0..(d - 1) /\ v = d * q + r
  BY DivMod
<1> HIDE DEF q, r
<1>2. qq \in Int /\ rr \in 0..(e - 1) /\ q = e * qq + rr
  BY <1>1, DivMod
<1> HIDE DEF qq, rr
<1>3. v = (d * e) * qq + (d * rr + r)
  BY <1>1, <1>2
<1>4. d * rr \in Nat /\ rr * d <= (e - 1) * d /\ d * e \in Nat /\ d * e > 0
  BY <1>2, ProductOrder, ProductNat
<1>5. 0 <= d * rr + r /\ d * rr + r < d * e /\ d * rr + r \in Int
  BY <1>1, <1>2, <1>4
<1>6. v \div (d * e) = qq /\ v % (d * e) = d * rr + r
  BY <1>2, <1>3, <1>4, <1>5, DivUnique
<1>7. (d * rr + r) \div d = rr /\ (d * rr + r) % d = r
  BY <1>1, <1>2, <1>5, DivUnique
<1> QED BY <1>6, <1>7 DEF q, r, qq, rr

-----------------------------------------------------------------------------
(* Powers of two.                                                          *)
LEMMA Widths ==
    /\ XLEN \in Nat /\ WLEN \in Nat /\ XLEN = 2 * WLEN /\ WLEN >= 1
    /\ MLEN \in Nat /\ MLEN = 2 * XLEN
    /\ MUL_UNROLL \in 1..WLEN /\ CLMUL_UNROLL \in 1..WLEN
BY MduAssumption DEF WLEN, MLEN

(* Powers of two up to the width of the accumulator, ...                   *)
LEMMA Pow ==
    /\ 2^0 = 1
    /\ \A n \in 0..(MLEN + 1) : 2^n \in Nat /\ 2^n > 0
    /\ \A n \in 0..MLEN : 2^(n + 1) = 2 * 2^n
<1> DEFINE S == {n \in Nat : 2^n \in Nat /\ 2^n > 0}
<1>1. MLEN + 1 \in Nat /\ (MLEN + 1) - 1 = MLEN
  BY Widths
<1>2. 0 \in S
  BY PowerAssumption
<1>3. \A n \in 0..((MLEN + 1) - 1) : n \in S => n + 1 \in S
  <2> SUFFICES ASSUME NEW n \in 0..MLEN, n \in S PROVE n + 1 \in S
    BY <1>1
  <2>1. 2^(n + 1) = 2 * 2^n /\ n + 1 \in Nat
    BY PowerAssumption, Widths
  <2> DEFINE x == 2^n
             y == 2^(n + 1)
  <2>2. x \in Nat /\ x > 0 /\ y = 2 * x
    BY <2>1
  <2> HIDE DEF x, y
  <2>3. y \in Nat /\ y > 0
    BY <2>2
  <2> QED BY <2>1, <2>3 DEF y
<1> HIDE DEF S
<1>4. \A n \in 0..(MLEN + 1) : n \in S
  BY <1>1, <1>2, <1>3, BoundedInduction
<1> QED BY <1>4, PowerAssumption DEF S

(* ... of sums, ...                                                        *)
LEMMA PowAdd ==
    ASSUME NEW a \in Nat, NEW b \in Nat, a + b <= MLEN + 1
    PROVE  2^(a + b) = 2^a * 2^b
<1> DEFINE S == {k \in Nat : a + k <= MLEN + 1 => 2^(a + k) = 2^a * 2^k}
<1>1. 0 \in S
  <2>1. 2^a \in Nat /\ a + 0 = a /\ 2^0 = 1
    BY Pow, Widths
  <2> QED BY <2>1
<1>2. ASSUME NEW k \in Nat, k \in S
      PROVE  k + 1 \in S
  <2>1. SUFFICES ASSUME a + (k + 1) <= MLEN + 1 PROVE 2^(a + (k + 1)) = 2^a * 2^(k + 1)
    OBVIOUS
  <2>2. /\ 2^(a + k) = 2^a * 2^k /\ a + k \in 0..MLEN /\ k \in 0..MLEN /\ a \in 0..MLEN
        /\ a + (k + 1) = (a + k) + 1
    BY <1>2, <2>1, Widths
  <2>3. 2^(a + (k + 1)) = 2 * (2^a * 2^k) /\ 2^(k + 1) = 2 * 2^k /\ 2^a \in Nat /\ 2^k \in Nat
    BY <2>2, Pow, Widths
  <2> DEFINE x == 2^a
             y == 2^k
  <2> HIDE DEF x, y
  <2>4. x \in Nat /\ y \in Nat => 2 * (x * y) = x * (2 * y)
    BY SMT
  <2> QED BY <2>3, <2>4 DEF x, y
<1> HIDE DEF S
<1>3. b \in S
  BY <1>1, <1>2, SetInduction
<1> QED BY <1>3 DEF S

(* ... and in order.                                                       *)
LEMMA PowOrder ==
    ASSUME NEW a \in Nat, NEW b \in Nat, a <= b, b <= MLEN + 1
    PROVE  /\ 2^a <= 2^b /\ 2^a \in Nat /\ 2^b \in Nat /\ 2^a > 0 /\ 2^b > 0
           /\ 2^(b - a) \in Nat /\ 2^(b - a) > 0 /\ 2^b = 2^a * 2^(b - a)
           /\ a < b => 2^a < 2^b
<1>1. b - a \in Nat /\ a + (b - a) = b /\ {a, b, b - a} \subseteq 0..(MLEN + 1)
  BY Widths
<1>2. 2^b = 2^a * 2^(b - a) /\ 2^a \in Nat /\ 2^(b - a) \in Nat /\ 2^(b - a) > 0 /\ 2^a > 0
      /\ 2^b \in Nat /\ 2^b > 0
  BY <1>1, PowAdd, Pow
<1>3. a < b => 2^(b - a) >= 2
  <2> SUFFICES ASSUME a < b PROVE 2^(b - a) >= 2
    OBVIOUS
  <2>1. (b - a) - 1 \in 0..MLEN /\ ((b - a) - 1) + 1 = b - a
    BY <1>1, Widths
  <2>2. 2^(b - a) = 2 * 2^((b - a) - 1) /\ 2^((b - a) - 1) \in Nat /\ 2^((b - a) - 1) > 0
    BY <2>1, Pow, Widths
  <2> DEFINE x == 2^((b - a) - 1)
             y == 2^(b - a)
  <2> HIDE DEF x, y
  <2>3. y = 2 * x /\ x \in Nat /\ x > 0 => y >= 2
    BY SMT
  <2> QED BY <2>2, <2>3 DEF x, y
<1> DEFINE x == 2^a
           y == 2^(b - a)
           z == 2^b
<1> HIDE DEF x, y, z
<1>4. x \in Nat /\ y \in Nat /\ z \in Nat /\ x > 0 /\ y > 0 /\ z = x * y /\ (a < b => y >= 2)
  BY <1>2, <1>3 DEF x, y, z
<1>5. x <= z /\ (a < b => x < z)
  <2>1. 1 * x <= y * x
    BY <1>4, ProductOrder
  <2>2. a < b => 2 * x <= y * x
    BY <1>4, ProductOrder
  <2> QED BY <1>4, <2>1, <2>2
<1> QED BY <1>2, <1>5 DEF x, y, z

-----------------------------------------------------------------------------
(* Part selects, ...                                                       *)
LEMMA LowType ==
    ASSUME NEW v \in Int, NEW w \in 0..(MLEN + 1)
    PROVE  Low(v, w) \in 0..(2^w - 1) /\ Low(v, w) \in Nat /\ Low(v, w) < 2^w
<1>1. 2^w \in Nat /\ 2^w > 0
  BY Pow
<1> QED BY <1>1, DivMod DEF Low

(* ... negations, ...                                                      *)
LEMMA NegType ==
    ASSUME NEW v \in Int, NEW w \in 0..(MLEN + 1)
    PROVE  Neg(v, w) \in 0..(2^w - 1)
<1>1. 2^w \in Nat /\ 2^w > 0
  BY Pow
<1>2. 2^w - v \in Int
  BY <1>1
<1> QED BY <1>1, <1>2, DivMod DEF Neg

(* ... single bits ...                                                     *)
LEMMA BitType ==
    ASSUME NEW v \in Int, NEW i \in 0..(MLEN + 1)
    PROVE  Bit(v, i) \in {0, 1}
<1>1. 2^i \in Nat /\ 2^i > 0
  BY Pow
<1>2. v \div 2^i \in Int
  BY <1>1, DivMod
<1> QED BY <1>2 DEF Bit

(* ... and sign extensions keep their widths.                              *)
LEMMA SextType ==
    ASSUME NEW v \in Int, NEW w \in 1..XLEN
    PROVE  Sext(v, w) \in 0..(2^XLEN - 1)
<1>1. w \in 0..(MLEN + 1) /\ w \in Nat /\ w <= XLEN /\ XLEN \in Nat /\ XLEN <= MLEN + 1
  BY Widths
<1>2. 2^w \in Nat /\ 2^XLEN \in Nat /\ 2^w <= 2^XLEN
  BY <1>1, PowOrder
<1>3. Low(v, w) \in 0..(2^w - 1)
  BY <1>1, LowType
<1> DEFINE x == 2^w
           y == 2^XLEN
<1> HIDE DEF x, y
<1>4. x \in Nat /\ y \in Nat /\ x <= y /\ Low(v, w) \in 0..(x - 1)
  BY <1>2, <1>3 DEF x, y
<1>5. Sext(v, w) = Low(v, w) + (IF Bit(v, w - 1) = 1 THEN y - x ELSE 0)
  BY DEF Sext, x, y
<1>6. Sext(v, w) \in 0..(y - 1)
  BY <1>4, <1>5
<1> QED BY <1>6 DEF y

(* Setting a bit that is clear stays below the next power.                 *)
LEMMA SetBit ==
    ASSUME NEW v \in Nat, NEW k \in Nat, NEW w \in Nat, k < w, w <= MLEN + 1, v < 2^w,
           (v \div 2^k) % 2 # 1
    PROVE  v + 2^k < 2^w
<1>1. w - k \in Nat /\ w - k >= 1 /\ (w - k) - 1 \in 0..MLEN /\ ((w - k) - 1) + 1 = w - k
  BY Widths
<1>2. /\ 2^k \in Nat /\ 2^k > 0 /\ 2^w = 2^k * 2^(w - k)
      /\ 2^(w - k) = 2 * 2^((w - k) - 1) /\ 2^((w - k) - 1) \in Nat
  <2>1. 2^(w - k) = 2 * 2^((w - k) - 1) /\ 2^((w - k) - 1) \in Nat
    BY <1>1, Pow, Widths
  <2> QED BY <2>1, PowOrder
<1> DEFINE d == 2^k
           h == 2^((w - k) - 1)
           q == v \div d
<1>3. d \in Nat /\ d > 0 /\ h \in Nat /\ v < d * (2 * h) /\ q % 2 # 1
  BY <1>2
<1> HIDE DEF d, h
<1>4. q \in 0..(2 * h - 1) /\ v = d * q + (v % d) /\ v % d \in 0..(d - 1)
  <2>1. 2 * h \in Nat
    BY <1>3
  <2>2. v \div d \in 0..((2 * h) - 1)
    BY <1>3, <2>1, DivBound
  <2> QED BY <1>3, <2>2, DivMod
<1> HIDE DEF q
<1>5. q <= 2 * h - 2
  BY <1>3, <1>4
<1>6. (q + 2) * d <= (2 * h) * d
  BY <1>3, <1>4, <1>5, ProductOrder
<1>7. v + d < d * (2 * h)
  BY <1>3, <1>4, <1>6
<1> QED BY <1>2, <1>7 DEF d, h

(* A power beyond the register is no bit of it.                            *)
LEMMA MaskType ==
    ASSUME NEW c \in 1..(MLEN - 1)
    PROVE  \/ c - 1 < XLEN /\ Low(2^(c - 1), XLEN) = 2^(c - 1)
           \/ c - 1 >= XLEN /\ Low(2^(c - 1), XLEN) = 0
<1>1. c - 1 \in Nat /\ c - 1 <= MLEN + 1 /\ XLEN \in Nat /\ XLEN <= MLEN + 1
  BY Widths
<1>2. CASE c - 1 < XLEN
  <2>1. 2^(c - 1) \in Nat /\ 2^XLEN \in Nat /\ 2^(c - 1) < 2^XLEN
    BY <1>1, <1>2, PowOrder
  <2> DEFINE x == 2^(c - 1)
             y == 2^XLEN
  <2> HIDE DEF x, y
  <2>2. x \in Nat /\ y \in Nat /\ x < y => x % y = x
    BY DivUnique, SMT
  <2> QED BY <1>2, <2>1, <2>2 DEF x, y, Low
<1>3. CASE c - 1 >= XLEN
  <2>1. /\ 2^XLEN \in Nat /\ 2^XLEN > 0 /\ 2^((c - 1) - XLEN) \in Nat
        /\ 2^(c - 1) = 2^XLEN * 2^((c - 1) - XLEN)
    BY <1>1, <1>3, PowOrder
  <2> DEFINE x == 2^((c - 1) - XLEN)
             y == 2^XLEN
  <2> HIDE DEF x, y
  <2>3. x \in Nat /\ y \in Nat /\ y > 0
    BY <2>1 DEF x, y
  <2>2. (y * x) % y = 0
    BY <2>3, DivUnique
  <2> QED BY <1>3, <2>1, <2>2 DEF x, y, Low
<1> QED BY <1>1, <1>2, <1>3

(* Setting a bit of the quotient keeps it in its register.                 *)
LEMMA WithBitType ==
    ASSUME NEW v \in 0..(2^XLEN - 1), NEW c \in 0..(MLEN - 1)
    PROVE  WithBit(v, IF c = 0 THEN 0 ELSE Low(2^(c - 1), XLEN)) \in 0..(2^XLEN - 1)
<1> DEFINE m == IF c = 0 THEN 0 ELSE Low(2^(c - 1), XLEN)
<1>1. 2^XLEN \in Nat /\ XLEN \in Nat /\ XLEN <= MLEN + 1
  BY Widths, Pow
<1>2. CASE m = 0
  BY <1>2 DEF WithBit
<1>3. CASE m # 0
  <2>1. c \in 1..(MLEN - 1) /\ c - 1 \in Nat /\ c - 1 < XLEN /\ m = 2^(c - 1)
    BY <1>3, MaskType, Widths
  <2>2. 2^(c - 1) \in Nat /\ v \in Nat /\ v < 2^XLEN
    BY <1>1, <2>1, PowOrder
  <2>3. (v \div 2^(c - 1)) % 2 # 1 => v + 2^(c - 1) < 2^XLEN
    BY <1>1, <2>1, <2>2, SetBit
  <2> HIDE DEF m
  <2> DEFINE x == 2^(c - 1)
             y == 2^XLEN
  <2>4. /\ x \in Nat /\ y \in Nat /\ v \in 0..(y - 1) /\ m = x
        /\ (v \div x) % 2 # 1 => v + x < y
    BY <1>1, <2>1, <2>2, <2>3
  <2> HIDE DEF x, y
  <2>5. WithBit(v, m) \in 0..(y - 1)
    BY <2>4 DEF WithBit
  <2> QED BY <2>5 DEF y, m
<1> HIDE DEF m
<1> QED BY <1>2, <1>3 DEF m

-----------------------------------------------------------------------------
(* The value of a set of bits, position by position.                       *)
ValueUpto(bits, v) ==
    /\ v \in [0..MLEN -> Nat]
    /\ v[0] = 0 /\ Value(bits) = v[MLEN]
    /\ \A i \in 1..MLEN : v[i] = v[i - 1] + (IF i - 1 \in bits THEN 2^(i - 1) ELSE 0)

(* The recursion has a solution, and Value is its last value.              *)
LEMMA ValueLoop ==
    ASSUME NEW bits
    PROVE  \E v : ValueUpto(bits, v)
<1> DEFINE N == MLEN
           Step(k, t) == t + (IF k - 1 \in bits THEN 2^(k - 1) ELSE 0)
           step == [k \in 1..N |-> [t \in Nat |-> Step(k, t)]]
           Rec(f) == f = [i \in 0..MLEN |->
                            IF i = 0 THEN 0
                            ELSE f[i - 1] + (IF i - 1 \in bits THEN 2^(i - 1) ELSE 0)]
           v == CHOOSE f : Rec(f)
<1>1. N \in Nat
  BY Widths
<1>2. \A k \in 1..N, t \in Nat : Step(k, t) \in Nat
  <2> TAKE k \in 1..N, t \in Nat
  <2>1. k - 1 \in 0..(MLEN + 1)
    BY <1>1
  <2>2. 2^(k - 1) \in Nat
    BY <2>1, Pow
  <2> DEFINE x == 2^(k - 1)
  <2> HIDE DEF x
  <2>3. t + (IF k - 1 \in bits THEN x ELSE 0) \in Nat
    BY <2>2 DEF x
  <2> QED BY <2>3 DEF x
<1> HIDE DEF Step
<1>3. step \in [1..N -> [Nat -> Nat]]
  BY <1>2
<1> HIDE DEF step
<1>4. PICK g \in [0..N -> Nat] : GoesOn(g, N, 0, step)
  BY <1>1, <1>3, RecursionExists
<1>5. Rec(g)
  <2>1. \A k \in 0..N : g[k] = IF k = 0 THEN 0 ELSE Step(k, g[k - 1])
    <3>1. \A k \in 1..N : k - 1 \in 0..N /\ g[k - 1] \in Nat
      BY <1>1, <1>4
    <3>2. \A k \in 1..N : g[k] = Step(k, g[k - 1])
      BY <1>4, <3>1 DEF GoesOn, step
    <3> QED BY <1>1, <1>4, <3>2 DEF GoesOn
  <2> QED BY <1>4, <2>1 DEF Step
<1>6. Value(bits) = v[MLEN]
  BY DEF Value
<1>7. Rec(v)
  BY <1>5, Zenon
<1> HIDE DEF v
<1>8. v[0] = 0 /\ \A i \in 1..MLEN : v[i] = Step(i, v[i - 1])
  BY <1>1, <1>7 DEF Step
<1>9. \A k \in 0..MLEN : v[k] \in Nat
  <2> DEFINE S == {k \in Nat : v[k] \in Nat}
  <2>1. 0 \in S
    BY <1>8
  <2>2. \A n \in 0..(MLEN - 1) : n \in S => n + 1 \in S
    <3> TAKE n \in 0..(MLEN - 1)
    <3>1. n + 1 \in 1..MLEN /\ (n + 1) - 1 = n /\ n \in Nat
      BY <1>1
    <3>2. v[n + 1] = Step(n + 1, v[n])
      BY <1>8, <3>1
    <3>3. ASSUME v[n] \in Nat
          PROVE  v[n + 1] \in Nat
      <4>1. Step(n + 1, v[n]) \in Nat
        BY <1>2, <3>1, <3>3, Zenon DEF N
      <4> QED BY <3>2, <4>1, Zenon
    <3>4. n + 1 \in Nat
      BY <3>1
    <3> QED BY <3>3, <3>4, Zenon
  <2> HIDE DEF S
  <2>3. \A k \in 0..MLEN : k \in S
    BY <1>1, <2>1, <2>2, BoundedInduction
  <2> QED BY <2>3 DEF S
<1>10. v \in [0..MLEN -> Nat]
  BY <1>7, <1>9
<1> QED BY <1>6, <1>8, <1>10 DEF ValueUpto, Step

(* A set of bits below n has a value below 2^n.                            *)
LEMMA ValueBound ==
    ASSUME NEW n \in 0..MLEN, NEW bits, bits \subseteq 0..(n - 1)
    PROVE  Value(bits) \in 0..(2^n - 1)
<1>1. PICK v : ValueUpto(bits, v)
  BY ValueLoop
<1>2. MLEN \in Nat /\ n \in Nat /\ n <= MLEN
  BY Widths
<1> DEFINE Cut(k) == IF k <= n THEN k ELSE n
           S == {k \in Nat : v[k] < 2^Cut(k)}
<1>3. 0 \in S
  BY <1>1, <1>2, Pow DEF ValueUpto
<1>4. \A k \in 0..(MLEN - 1) : k \in S => k + 1 \in S
  <2> SUFFICES ASSUME NEW k \in 0..(MLEN - 1), k \in S PROVE k + 1 \in S
    OBVIOUS
  <2>1. k + 1 \in 1..MLEN /\ (k + 1) - 1 = k /\ k \in Nat /\ k \in 0..MLEN
    BY <1>2
  <2>2. v[k + 1] = v[k] + (IF k \in bits THEN 2^k ELSE 0) /\ v[k] \in Nat
    BY <1>1, <2>1 DEF ValueUpto
  <2>3. 2^k \in Nat /\ 2^(k + 1) = 2 * 2^k
    BY <2>1, Pow, Widths
  <2>4. CASE k < n
    <3>1. Cut(k) = k /\ Cut(k + 1) = k + 1
      BY <1>2, <2>1, <2>4
    <3>2. v[k] < 2^k
      BY <3>1
    <3> DEFINE x == 2^k
               y == 2^(k + 1)
    <3> HIDE DEF x, y
    <3>3. x \in Nat /\ y = 2 * x /\ v[k] < x /\ v[k + 1] = v[k] + (IF k \in bits THEN x ELSE 0)
      BY <2>2, <2>3, <3>2 DEF x, y
    <3>4. v[k + 1] < y
      BY <2>2, <3>3
    <3> QED BY <2>1, <3>1, <3>4 DEF y
  <2>5. CASE k >= n
    <3>1. Cut(k) = n /\ Cut(k + 1) = n /\ k \notin bits
      BY <1>2, <2>1, <2>5
    <3>2. v[k + 1] = v[k]
      BY <2>2, <3>1
    <3> QED BY <2>1, <3>1, <3>2
  <2> QED BY <1>2, <2>1, <2>4, <2>5
<1> HIDE DEF S
<1>5. MLEN \in S
  BY <1>2, <1>3, <1>4, BoundedInduction
<1>6. Cut(MLEN) = n
  BY <1>2
<1>7. v[MLEN] < 2^n /\ v[MLEN] \in Nat /\ Value(bits) = v[MLEN]
  BY <1>1, <1>2, <1>5, <1>6 DEF S, ValueUpto
<1>8. 2^n \in Nat
  BY <1>2, Pow
<1> QED BY <1>7, <1>8

-----------------------------------------------------------------------------
(* What the operand registers and the accumulator can hold.                *)
Register == 0..(2^XLEN - 1)
State    == 0..(2^MLEN - 1)

(* The halves of the accumulator.                                          *)
LEMMA Powers ==
    /\ 2^XLEN \in Nat /\ 2^XLEN > 0 /\ 2^(XLEN - 1) \in Nat /\ 2^(XLEN - 1) > 0
    /\ 2^(XLEN + 1) \in Nat /\ 2^(XLEN + 1) > 0 /\ 2^MLEN \in Nat /\ 2^MLEN > 0
    /\ 2^WLEN \in Nat /\ 2^WLEN > 0 /\ 2^(WLEN - 1) \in Nat /\ 2^(WLEN - 1) > 0
    /\ 2^XLEN = 2 * 2^(XLEN - 1) /\ 2^(XLEN + 1) = 2 * 2^XLEN /\ 2^MLEN = 2^XLEN * 2^XLEN
    /\ 2^WLEN = 2 * 2^(WLEN - 1) /\ 2^XLEN = 2^WLEN * 2^WLEN
    /\ Register \subseteq Nat /\ State \subseteq Nat
<1>1. /\ XLEN - 1 \in 0..MLEN /\ XLEN + 1 \in 0..(MLEN + 1) /\ XLEN \in 0..MLEN /\ XLEN \in Nat
      /\ (XLEN - 1) + 1 = XLEN /\ XLEN + XLEN = MLEN /\ WLEN \in 0..MLEN /\ WLEN - 1 \in 0..MLEN
      /\ (WLEN - 1) + 1 = WLEN /\ WLEN + WLEN = XLEN /\ WLEN \in Nat /\ MLEN \in 0..(MLEN + 1)
      /\ XLEN \in 0..(MLEN + 1) /\ WLEN \in 0..(MLEN + 1) /\ XLEN - 1 \in 0..(MLEN + 1)
      /\ WLEN - 1 \in 0..(MLEN + 1)
  BY Widths
<1>2. /\ 2^XLEN \in Nat /\ 2^XLEN > 0 /\ 2^(XLEN - 1) \in Nat /\ 2^(XLEN - 1) > 0
      /\ 2^(XLEN + 1) \in Nat /\ 2^(XLEN + 1) > 0 /\ 2^MLEN \in Nat /\ 2^MLEN > 0
      /\ 2^WLEN \in Nat /\ 2^WLEN > 0 /\ 2^(WLEN - 1) \in Nat /\ 2^(WLEN - 1) > 0
  BY <1>1, Pow
<1>3. 2^XLEN = 2 * 2^(XLEN - 1) /\ 2^(XLEN + 1) = 2 * 2^XLEN /\ 2^WLEN = 2 * 2^(WLEN - 1)
  BY <1>1, Pow
<1>4. 2^MLEN = 2^XLEN * 2^XLEN
  BY <1>1, PowAdd, Widths
<1>5. 2^XLEN = 2^WLEN * 2^WLEN
  BY <1>1, PowAdd, Widths
<1>6. Register \subseteq Nat /\ State \subseteq Nat
  BY <1>2 DEF Register, State
<1> QED BY <1>2, <1>3, <1>4, <1>5, <1>6

(* A sum above the low half, shifted down by one bit, fits.                *)
LEMMA Shifted ==
    ASSUME NEW s \in 0..(2^(XLEN + 1) - 1), NEW a \in Int
    PROVE  s * 2^(XLEN - 1) + Low(a, XLEN) \div 2 \in State
<1> DEFINE h == 2^(XLEN - 1)
           l == Low(a, XLEN)
           t == l \div 2
<1>1. h \in Nat /\ h > 0 /\ 2^XLEN = 2 * h /\ 2^(XLEN + 1) = 2 * (2 * h)
      /\ 2^MLEN = (2 * h) * (2 * h)
  BY Powers
<1>2. l \in 0..(2 * h - 1)
  BY <1>1, LowType, Widths
<1>3. s \in 0..(2 * (2 * h) - 1)
  BY <1>1
<1> HIDE DEF h, l
<1>4. t \in 0..(h - 1)
  BY <1>1, <1>2
<1> HIDE DEF t
<1>5. s * h <= (2 * (2 * h) - 1) * h /\ s * h \in Nat
  BY <1>1, <1>3, ProductOrder, ProductNat
<1>6. (2 * (2 * h) - 1) * h = (2 * h) * (2 * h) - h
  BY <1>1
<1>7. s * h + t \in Nat /\ s * h + t <= (2 * h) * (2 * h) - 1
  BY <1>1, <1>4, <1>5, <1>6
<1>8. s * 2^(XLEN - 1) + Low(a, XLEN) \div 2 = s * h + t
  BY DEF h, l, t
<1>9. (2 * h) * (2 * h) \in Nat
  BY <1>1
<1> QED BY <1>1, <1>7, <1>8, <1>9 DEF State

(* A step of either multiplier keeps the accumulator in its register.      *)
LEMMA AddType ==
    ASSUME s_rs1 \in Register, s_rs2 \in Register, NEW a \in State, NEW i \in 0..(XLEN - 1),
           width \in 1..XLEN
    PROVE  mul_add(a, i) \in State /\ clmul_add(a, i) \in State
<1>0. s_rs1 \in Nat /\ s_rs2 \in Nat /\ a \in Nat
  BY Powers
<1>1. mul_add(a, i) \in State
  <2> DEFINE to_add    == IF Bit(s_rs2, i) = 1 THEN s_rs1 ELSE 0
             sign(s)   == IF lhs_signed /\ s THEN 2^XLEN ELSE 0
             mul_add_l == sign(Bit(a, MLEN - 1) = 1) + a \div 2^XLEN
             mul_add_r == sign(Bit(to_add, width - 1) = 1) + to_add
             mul_sum   == IF sub_last(i) THEN mul_add_l - mul_add_r
                                         ELSE mul_add_l + mul_add_r
  <2>1. sign(Bit(a, MLEN - 1) = 1) \in Int /\ sign(Bit(to_add, width - 1) = 1) \in Int
    BY Powers
  <2>2. to_add \in Int /\ a \div 2^XLEN \in Int
    BY <1>0, Powers, DivMod
  <2>3. mul_add(a, i) = Low(mul_sum, XLEN + 1) * 2^(XLEN - 1) + Low(a, XLEN) \div 2
    BY DEF mul_add
  <2> HIDE DEF to_add, sign
  <2>4. mul_sum \in Int
    BY <2>1, <2>2
  <2> HIDE DEF mul_sum
  <2>5. Low(mul_sum, XLEN + 1) \in 0..(2^(XLEN + 1) - 1)
    BY <2>4, LowType, Widths
  <2> QED BY <1>0, <2>3, <2>5, Shifted
<1>2. clmul_add(a, i) \in State
  <2> DEFINE rhs == IF Bit(s_rs2, i) = 1 THEN s_rs1 ELSE 0
             sum == Value(SymDiff(Bits(a \div 2^XLEN), Bits(rhs)))
  <2>1. SymDiff(Bits(a \div 2^XLEN), Bits(rhs)) \subseteq 0..(XLEN - 1) /\ XLEN \in 0..MLEN
    BY Widths DEF SymDiff, Bits
  <2>2. sum \in 0..(2^XLEN - 1)
    BY <2>1, ValueBound
  <2>3. clmul_add(a, i) = sum * 2^(XLEN - 1) + Low(a, XLEN) \div 2
    BY DEF clmul_add
  <2> HIDE DEF sum
  <2>4. sum \in 0..(2^(XLEN + 1) - 1)
    BY <2>2, Powers
  <2> QED BY <1>0, <2>3, <2>4, Shifted
<1> QED BY <1>1, <1>2

(* The unrolled additions of a cycle, one bit after the other.             *)
MulUpto(a) ==
    /\ a \in [0..MUL_UNROLL -> State]
    /\ a[0] = mdu_state /\ n_mul_state = a[MUL_UNROLL]
    /\ \A i \in 1..MUL_UNROLL : a[i] = mul_add(a[i - 1], i - 1)

ClmulUpto(a) ==
    /\ a \in [0..CLMUL_UNROLL -> State]
    /\ a[0] = mdu_state /\ n_clmul_state = a[CLMUL_UNROLL]
    /\ \A i \in 1..CLMUL_UNROLL : a[i] = clmul_add(a[i - 1], i - 1)

(* The recursion of the source has a solution, and the accumulator after a *)
(* cycle is its last value.                                                *)
LEMMA MulLoop ==
    ASSUME s_rs1 \in Register, s_rs2 \in Register, mdu_state \in State, width \in 1..XLEN
    PROVE  \E a : MulUpto(a)
<1> DEFINE N == MUL_UNROLL
           V == State
           Step(k, t) == mul_add(t, k - 1)
           step == [k \in 1..N |-> [t \in V |-> Step(k, t)]]
           Rec(f) == f = [i \in 0..MUL_UNROLL |->
                            IF i = 0 THEN mdu_state ELSE mul_add(f[i - 1], i - 1)]
           a == CHOOSE f : Rec(f)
<1>1. N \in Nat /\ N \in 1..XLEN
  BY Widths
<1>2. \A k \in 1..N, t \in V : Step(k, t) \in V
  <2> TAKE k \in 1..N, t \in V
  <2>1. k - 1 \in 0..(XLEN - 1)
    BY <1>1, Widths
  <2> QED BY <2>1, AddType
<1> HIDE DEF V, Step
<1>3. step \in [1..N -> [V -> V]] /\ mdu_state \in V
  BY <1>2 DEF V
<1> HIDE DEF step
<1>4. PICK g \in [0..N -> V] : GoesOn(g, N, mdu_state, step)
  BY <1>1, <1>3, RecursionExists
<1>5. Rec(g)
  <2>1. \A k \in 0..N : g[k] = IF k = 0 THEN mdu_state ELSE Step(k, g[k - 1])
    <3>1. \A k \in 1..N : k - 1 \in 0..N /\ g[k - 1] \in V
      BY <1>1, <1>4
    <3>2. \A k \in 1..N : g[k] = Step(k, g[k - 1])
      BY <1>4, <3>1 DEF GoesOn, step
    <3> QED BY <1>1, <1>4, <3>2 DEF GoesOn
  <2> QED BY <1>4, <2>1 DEF Step
<1>6. n_mul_state = a[MUL_UNROLL]
  BY DEF n_mul_state
<1>7. Rec(a)
  BY <1>5, Zenon
<1> HIDE DEF a
<1>8. a[0] = mdu_state /\ \A i \in 1..N : a[i] = Step(i, a[i - 1])
  BY <1>1, <1>7 DEF Step
<1>9. \A k \in 0..N : a[k] \in V
  <2> DEFINE S == {k \in Nat : a[k] \in V}
  <2>1. 0 \in S
    BY <1>3, <1>8
  <2>2. \A n \in 0..(N - 1) : n \in S => n + 1 \in S
    <3> TAKE n \in 0..(N - 1)
    <3>1. n + 1 \in 1..N /\ (n + 1) - 1 = n /\ n \in Nat
      BY <1>1
    <3>2. a[n + 1] = Step(n + 1, a[n])
      BY <1>8, <3>1
    <3> QED BY <1>2, <3>1, <3>2
  <2> HIDE DEF S
  <2>3. \A k \in 0..N : k \in S
    BY <1>1, <2>1, <2>2, BoundedInduction
  <2> QED BY <2>3 DEF S
<1>10. a \in [0..N -> V]
  BY <1>7, <1>9
<1> QED BY <1>6, <1>8, <1>10 DEF MulUpto, Step, V

(* The same for the carry-less multiplier.                                 *)
LEMMA ClmulLoop ==
    ASSUME s_rs1 \in Register, s_rs2 \in Register, mdu_state \in State, width \in 1..XLEN
    PROVE  \E a : ClmulUpto(a)
<1> DEFINE N == CLMUL_UNROLL
           V == State
           Step(k, t) == clmul_add(t, k - 1)
           step == [k \in 1..N |-> [t \in V |-> Step(k, t)]]
           Rec(f) == f = [i \in 0..CLMUL_UNROLL |->
                            IF i = 0 THEN mdu_state ELSE clmul_add(f[i - 1], i - 1)]
           a == CHOOSE f : Rec(f)
<1>1. N \in Nat /\ N \in 1..XLEN
  BY Widths
<1>2. \A k \in 1..N, t \in V : Step(k, t) \in V
  <2> TAKE k \in 1..N, t \in V
  <2>1. k - 1 \in 0..(XLEN - 1)
    BY <1>1, Widths
  <2> QED BY <2>1, AddType
<1> HIDE DEF V, Step
<1>3. step \in [1..N -> [V -> V]] /\ mdu_state \in V
  BY <1>2 DEF V
<1> HIDE DEF step
<1>4. PICK g \in [0..N -> V] : GoesOn(g, N, mdu_state, step)
  BY <1>1, <1>3, RecursionExists
<1>5. Rec(g)
  <2>1. \A k \in 0..N : g[k] = IF k = 0 THEN mdu_state ELSE Step(k, g[k - 1])
    <3>1. \A k \in 1..N : k - 1 \in 0..N /\ g[k - 1] \in V
      BY <1>1, <1>4
    <3>2. \A k \in 1..N : g[k] = Step(k, g[k - 1])
      BY <1>4, <3>1 DEF GoesOn, step
    <3> QED BY <1>1, <1>4, <3>2 DEF GoesOn
  <2> QED BY <1>4, <2>1 DEF Step
<1>6. n_clmul_state = a[CLMUL_UNROLL]
  BY DEF n_clmul_state
<1>7. Rec(a)
  BY <1>5, Zenon
<1> HIDE DEF a
<1>8. a[0] = mdu_state /\ \A i \in 1..N : a[i] = Step(i, a[i - 1])
  BY <1>1, <1>7 DEF Step
<1>9. \A k \in 0..N : a[k] \in V
  <2> DEFINE S == {k \in Nat : a[k] \in V}
  <2>1. 0 \in S
    BY <1>3, <1>8
  <2>2. \A n \in 0..(N - 1) : n \in S => n + 1 \in S
    <3> TAKE n \in 0..(N - 1)
    <3>1. n + 1 \in 1..N /\ (n + 1) - 1 = n /\ n \in Nat
      BY <1>1
    <3>2. a[n + 1] = Step(n + 1, a[n])
      BY <1>8, <3>1
    <3> QED BY <1>2, <3>1, <3>2
  <2> HIDE DEF S
  <2>3. \A k \in 0..N : k \in S
    BY <1>1, <2>1, <2>2, BoundedInduction
  <2> QED BY <2>3 DEF S
<1>10. a \in [0..N -> V]
  BY <1>7, <1>9
<1> QED BY <1>6, <1>8, <1>10 DEF ClmulUpto, Step, V

-----------------------------------------------------------------------------
(* The type invariant in parts: the data and the control.                  *)
DataOK == s_rs1 \in Register /\ s_rs2 \in Register /\ mdu_state \in State

FlagsOK ==
    /\ mdu_run \in BOOLEAN /\ mul_run \in BOOLEAN /\ mul_done \in BOOLEAN
    /\ clmul_run \in BOOLEAN /\ clmul_done \in BOOLEAN
    /\ div_start \in BOOLEAN /\ div_run \in BOOLEAN /\ div_done \in BOOLEAN
    /\ stale \in BOOLEAN

(* They make up the type invariant.                                        *)
LEMMA TypeParts ==
    TypeOK <=> /\ instr \in Instruction \cup {NoInstr} /\ DataOK /\ FlagsOK
               /\ mdu_ctr \in 0..(MLEN - 1) /\ cycles \in 0..(XLEN + 3)
BY DEF TypeOK, DataOK, FlagsOK, Register, State

(* The operands and the width of an instruction.                           *)
LEMMA InstrType ==
    ASSUME instr \in Instruction \cup {NoInstr}
    PROVE  rs1 \in Register /\ rs2 \in Register /\ width \in 1..XLEN /\ op_word \in BOOLEAN
           /\ width \in {WLEN, XLEN}
<1>1. Operands \subseteq Register /\ 0 \in Register
  BY MduAssumption, Powers DEF Register
<1>2. instr.rs1 \in Register /\ instr.rs2 \in Register /\ instr.word \in BOOLEAN
  <2>1. CASE instr \in Instruction
    <3>1. instr.rs1 \in Operands /\ instr.rs2 \in Operands /\ instr.word \in BOOLEAN
      BY <2>1 DEF Instruction
    <3> QED BY <1>1, <3>1
  <2>2. CASE instr = NoInstr
    BY <1>1, <2>2 DEF NoInstr
  <2> QED BY <2>1, <2>2
<1>3. WLEN \in 1..XLEN /\ XLEN \in 1..XLEN
  BY Widths
<1> QED BY <1>2, <1>3 DEF rs1, rs2, width, op_word

(* The storage registers keep their widths in every cycle.                 *)
LEMMA DataStep ==
    ASSUME instr \in Instruction \cup {NoInstr}, DataOK, mdu_ctr \in 0..(MLEN - 1), StorageClock
    PROVE  DataOK'
<1>1. rs1 \in Register /\ rs2 \in Register /\ width \in 1..XLEN /\ 0 \in Register /\ 0 \in State
  BY InstrType, Powers DEF Register, State
<1>2. s_rs1 \in Register /\ s_rs2 \in Register /\ mdu_state \in State
      /\ s_rs1 \in Int /\ s_rs2 \in Int /\ mdu_state \in Int
  BY Powers DEF DataOK
<1>3. XLEN \in 0..(MLEN + 1) /\ MLEN \in 0..(MLEN + 1) /\ width \in 0..(MLEN + 1) /\ XLEN \in 1..XLEN
      /\ width \in Nat /\ width <= XLEN /\ XLEN \in Nat /\ XLEN <= MLEN + 1
  BY <1>1, Widths
<1>4. n_dividend \in Register
  <2>1. Neg(Sext(s_rs1, width), XLEN) \in Register
    <3>1. Sext(s_rs1, width) \in Int
      BY <1>1, <1>2, SextType
    <3> QED BY <1>3, <3>1, NegType DEF Register
  <2>2. Low(s_rs1, width) \in Register
    <3>1. Low(s_rs1, width) \in Nat /\ Low(s_rs1, width) < 2^width
      BY <1>2, <1>3, LowType
    <3>2. 2^width \in Nat /\ 2^XLEN \in Nat /\ 2^width <= 2^XLEN
      BY <1>3, PowOrder
    <3> DEFINE x == 2^width
               y == 2^XLEN
               z == Low(s_rs1, width)
    <3> HIDE DEF x, y, z
    <3>3. z \in Nat /\ z < x /\ x \in Nat /\ y \in Nat /\ x <= y => z \in 0..(y - 1)
      BY SMT
    <3> QED BY <3>1, <3>2, <3>3 DEF x, y, z, Register
  <2>3. Low(s_rs1 - mdu_state, XLEN) \in Register
    <3>1. s_rs1 - mdu_state \in Int
      BY <1>2
    <3> QED BY <1>3, <3>1, LowType DEF Register
  <2> QED BY <1>1, <1>2, <2>1, <2>2, <2>3 DEF n_dividend
<1>5. n_quotient \in Register
  <2>1. WithBit(s_rs2, qmask) \in Register
    BY <1>2, WithBitType DEF qmask, Register
  <2> QED BY <1>1, <1>2, <2>1 DEF n_quotient
<1>6. n_divisor \in State
  <2>1. Low(div_magnitude * 2^(width - 1), MLEN) \in State
    <3>1. div_magnitude \in Int
      <4>1. Sext(s_rs2, width) \in Int
        BY <1>1, <1>2, SextType
      <4>2. Neg(Sext(s_rs2, width), XLEN) \in Int
        BY <1>3, <4>1, NegType
      <4>3. WLEN \in 0..(MLEN + 1)
        BY Widths
      <4>4. Low(Neg(Sext(s_rs2, width), XLEN), WLEN) \in Int /\ Low(s_rs2, width) \in Int
        BY <1>2, <1>3, <4>2, <4>3, LowType
      <4>5. Bit(Neg(Sext(s_rs2, width), XLEN), WLEN) \in Int
        BY <4>2, <4>3, BitType
      <4>6. 2^MLEN - 2^WLEN \in Int /\ 2^XLEN - s_rs2 \in Int
        BY <1>2, Powers
      <4> DEFINE n == Neg(Sext(s_rs2, width), XLEN)
                 p == 2^MLEN - 2^WLEN
      <4>7. div_magnitude = IF ~div_sign_rhs THEN Low(s_rs2, width)
                            ELSE IF ~op_word THEN 2^XLEN - s_rs2
                            ELSE Low(n, WLEN) + Bit(n, WLEN) * p
        BY DEF div_magnitude
      <4> HIDE DEF n, p
      <4>8. Low(n, WLEN) + Bit(n, WLEN) * p \in Int
        BY <4>4, <4>5, <4>6 DEF n, p
      <4> QED BY <4>4, <4>6, <4>7, <4>8
    <3>2. width - 1 \in 0..(MLEN + 1)
      BY <1>1, Widths
    <3>3. 2^(width - 1) \in Int
      BY <3>2, Pow
    <3>4. div_magnitude * 2^(width - 1) \in Int
      BY <3>1, <3>3
    <3> QED BY <1>3, <3>4, LowType DEF State
  <2>2. mdu_state \div 2 \in State
    <3> DEFINE y == 2^MLEN
    <3>1. y \in Nat /\ mdu_state \in 0..(y - 1)
      BY <1>2, Powers DEF State
    <3> HIDE DEF y
    <3>2. mdu_state \div 2 \in 0..(y - 1)
      BY <3>1
    <3> QED BY <3>2 DEF y, State
  <2> QED BY <1>1, <2>1, <2>2 DEF n_divisor
<1>7. n_mul_state \in State /\ n_clmul_state \in State
  <2>1. PICK a : MulUpto(a)
    BY <1>1, <1>2, MulLoop
  <2>2. PICK b : ClmulUpto(b)
    BY <1>1, <1>2, ClmulLoop
  <2>3. MUL_UNROLL \in 0..MUL_UNROLL /\ CLMUL_UNROLL \in 0..CLMUL_UNROLL
    BY Widths
  <2> QED BY <2>1, <2>2, <2>3 DEF MulUpto, ClmulUpto
<1>8. s_rs2 \div 2^MUL_UNROLL \in Register /\ s_rs2 \div 2^CLMUL_UNROLL \in Register
  <2>1. ASSUME NEW u \in 1..WLEN PROVE s_rs2 \div 2^u \in Register
    <3>1. u \in 0..(MLEN + 1)
      BY Widths
    <3> DEFINE d == 2^u
               y == 2^XLEN
    <3>2. d \in Nat /\ d > 0 /\ y \in Nat /\ s_rs2 \in 0..(y - 1)
      BY <1>2, <3>1, Pow, Powers DEF Register
    <3> HIDE DEF d, y
    <3>3. 1 * y <= d * y
      BY <3>2, ProductOrder
    <3>4. s_rs2 \div d \in 0..(y - 1)
      BY <3>2, <3>3, DivBound
    <3> QED BY <3>4 DEF d, y, Register
  <2> QED BY <2>1, Widths
<1>9. CASE n_div_start \/ div_start \/ div_run
  <2>1. s_rs1' = n_dividend /\ s_rs2' = n_quotient /\ mdu_state' = n_divisor
    BY <1>9, Zenon DEF StorageClock
  <2> QED BY <1>4, <1>5, <1>6, <2>1 DEF DataOK, Register, State
<1>10. CASE ~(n_div_start \/ div_start \/ div_run)
  <2>1. s_rs1' \in {rs1, s_rs1} /\ s_rs2' \in {rs2, s_rs2, s_rs2 \div 2^MUL_UNROLL, s_rs2 \div 2^CLMUL_UNROLL}
        /\ mdu_state' \in {0, mdu_state, n_mul_state, n_clmul_state}
    BY <1>10 DEF StorageClock
  <2>2. s_rs1' \in Register /\ s_rs2' \in Register /\ mdu_state' \in State
    BY <1>1, <1>2, <1>7, <1>8, <2>1
  <2> QED BY <2>2 DEF DataOK, Register, State
<1> QED BY <1>9, <1>10

(* The flags stay flags and the counter keeps its range.                   *)
LEMMA FlagsStep ==
    ASSUME FlagsOK, instr \in Instruction \cup {NoInstr}, mdu_ctr \in 0..(MLEN - 1),
           CounterClock, MulClock, ClmulClock, DivClock, stale' \in BOOLEAN
    PROVE  FlagsOK' /\ mdu_ctr' \in 0..(MLEN - 1)
<1>1. FlagsOK'
  BY DEF FlagsOK, CounterClock, MulClock, ClmulClock, DivClock, n_div_start, any_div
<1>2. mdu_ctr' \in 0..(MLEN - 1)
  <2>1. width \in 0..(MLEN - 1) /\ MLEN \in Nat /\ MLEN > 0
    BY InstrType, Widths
  <2>2. mdu_step \in Int
    BY Widths DEF mdu_step
  <2>3. (mdu_ctr - mdu_step) % MLEN \in 0..(MLEN - 1)
    BY <2>1, <2>2
  <2> QED BY <2>1, <2>3 DEF CounterClock, n_mdu_ctr
<1> QED BY <1>1, <1>2

(* No operation takes more than a cycle for each bit and three.            *)
LEMMA LatencyBound ==
    ASSUME NEW i \in Instruction
    PROVE  Latency(i) \in Int /\ Latency(i) <= XLEN + 3
<1> DEFINE w == IF i.word THEN WLEN ELSE XLEN
<1>1. w \in Nat /\ w <= XLEN /\ XLEN \in Nat
  BY Widths
<1>2. ASSUME NEW u \in 1..WLEN PROVE w \div u \in Int /\ w \div u <= XLEN
  <2>1. u \in Nat /\ u > 0 /\ XLEN + 1 \in Nat
    BY Widths
  <2>2. 1 * (XLEN + 1) <= u * (XLEN + 1)
    BY <2>1, ProductOrder
  <2>3. w < u * (XLEN + 1)
    BY <1>1, <2>1, <2>2
  <2> HIDE DEF w
  <2>4. w \div u \in 0..((XLEN + 1) - 1)
    BY <1>1, <2>1, <2>3, DivBound
  <2> QED BY <1>1, <2>4
<1>3. /\ w \div MUL_UNROLL \in Int /\ w \div MUL_UNROLL <= XLEN
      /\ w \div CLMUL_UNROLL \in Int /\ w \div CLMUL_UNROLL <= XLEN
  BY <1>2, Widths
<1>4. MUL_END \in {0, 1}
  BY Widths DEF MUL_END
<1>5. CASE i.op \in MulOps
  <2>1. Latency(i) = w \div MUL_UNROLL + 2 - MUL_END
    BY <1>5 DEF Latency, MulOps, ClmulOps, DivOps
  <2> HIDE DEF w
  <2> QED BY <1>1, <1>3, <1>4, <2>1
<1>6. CASE i.op \in ClmulOps
  <2>1. Latency(i) = w \div CLMUL_UNROLL + 2
    BY <1>6 DEF Latency, MulOps, ClmulOps, DivOps
  <2> HIDE DEF w
  <2> QED BY <1>1, <1>3, <2>1
<1>7. CASE i.op \in DivOps
  <2>1. Latency(i) = w + 3
    BY <1>7 DEF Latency, MulOps, ClmulOps, DivOps
  <2> HIDE DEF w
  <2> QED BY <1>1, <2>1
<1>8. i.op \in MulOps \cup ClmulOps \cup DivOps
  BY DEF Instruction, MulOps
<1> QED BY <1>5, <1>6, <1>7, <1>8

(* Every step keeps the types.                                             *)
LEMMA TypeNext ==
    ASSUME TypeOK, [Next]_vars
    PROVE  TypeOK'
<1>1. /\ instr \in Instruction \cup {NoInstr} /\ DataOK /\ FlagsOK
      /\ mdu_ctr \in 0..(MLEN - 1) /\ cycles \in 0..(XLEN + 3)
  BY TypeParts
<1>2. Flushable \subseteq Instruction /\ XLEN \in Nat
  BY MduAssumption
<1>3. ASSUME UnitClock, stale' \in BOOLEAN
      PROVE  DataOK' /\ FlagsOK' /\ mdu_ctr' \in 0..(MLEN - 1)
  BY <1>1, <1>3, DataStep, FlagsStep DEF UnitClock
<1>0. SUFFICES /\ instr' \in Instruction \cup {NoInstr} /\ DataOK' /\ FlagsOK'
               /\ mdu_ctr' \in 0..(MLEN - 1) /\ cycles' \in 0..(XLEN + 3)
  <2>1. (TypeOK <=> /\ instr \in Instruction \cup {NoInstr} /\ DataOK /\ FlagsOK
                    /\ mdu_ctr \in 0..(MLEN - 1) /\ cycles \in 0..(XLEN + 3))'
    BY TypeParts, PTL
  <2>2. /\ (Instruction \cup {NoInstr})' = Instruction \cup {NoInstr} /\ MLEN' = MLEN
    BY DEF Instruction, NoInstr, MulOps, ClmulOps, DivOps, MLEN
  <2> QED BY <2>1, <2>2
<1>4. ASSUME UNCHANGED unit, stale' \in BOOLEAN
      PROVE  DataOK' /\ FlagsOK' /\ mdu_ctr' \in 0..(MLEN - 1)
  BY <1>1, <1>4 DEF unit, DataOK, FlagsOK, Register, State
<1>5. CASE Idle
  <2>1. stale' \in BOOLEAN /\ cycles' = 0 /\ instr' \in Instruction
    BY <1>1, <1>2, <1>5 DEF Idle, FlagsOK
  <2>2. UnitClock \/ UNCHANGED unit
    BY <1>5 DEF Idle
  <2> QED BY <1>2, <1>3, <1>4, <2>1, <2>2
<1>6. CASE Wait
  <2>1. stale' \in BOOLEAN /\ cycles' = count /\ instr' = instr /\ UnitClock /\ instr \in Instruction
    BY <1>1, <1>6, Decoded DEF Wait, FlagsOK
  <2>2. cycles' \in 0..(XLEN + 3)
    BY <1>1, <1>2, <2>1, LatencyBound DEF count
  <2> QED BY <1>3, <2>1, <2>2
<1>7. CASE Retire
  <2>1. instr' \in Instruction \cup {NoInstr} /\ cycles' = 0 /\ stale' = FALSE /\ Flush
    BY <1>7 DEF Retire
  <2>2. FlagsOK' /\ mdu_ctr' = 0
    BY <2>1 DEF Flush, FlagsOK
  <2>3. s_rs1' = 0 /\ s_rs2' = 0 /\ mdu_state' = mdu_state
    BY <2>1 DEF Flush
  <2>4. DataOK'
    BY <1>1, <2>3, Powers DEF DataOK, Register, State
  <2> QED BY <1>2, <2>1, <2>2, <2>4, Widths
<1>8. CASE Interrupt
  <2>1. instr' = NoInstr /\ cycles' = 0 /\ stale' = TRUE /\ UnitClock
    BY <1>8 DEF Interrupt
  <2> QED BY <1>2, <1>3, <2>1
<1>9. CASE UNCHANGED vars
  <2>1. UNCHANGED unit /\ instr' = instr /\ cycles' = cycles /\ stale' = stale
    BY <1>9 DEF vars
  <2> QED BY <1>1, <1>4, <2>1 DEF FlagsOK
<1> QED BY <1>5, <1>6, <1>7, <1>8, <1>9 DEF Next

(* Reset establishes them.                                                 *)
LEMMA TypeInit ==
    ASSUME Init
    PROVE  TypeOK
<1>1. DataOK
  BY Powers DEF Init, DataOK, Register, State
<1>2. FlagsOK /\ instr = NoInstr /\ mdu_ctr = 0 /\ cycles = 0
  BY DEF Init, FlagsOK
<1> QED BY <1>1, <1>2, TypeParts, Widths

(* Every register of the unit keeps its width, for every width and every   *)
(* unrolling: no sum, shift or mask of core_pipe_exec_mdu.sv leaves a bit  *)
(* above its register, and the counter stays in its range                  *)
(* (core_pipe_exec_mdu.sv:191-245,267-304,306-420).                        *)
THEOREM MduTypeOK == Spec => []TypeOK
<1>1. Init => TypeOK
  BY TypeInit
<1>2. TypeOK /\ [Next]_vars => TypeOK'
  BY TypeNext
<1> QED BY <1>1, <1>2, PTL DEF Spec

-----------------------------------------------------------------------------
(* Numbers and their low bits.                                             *)
LEMMA LowSmall ==
    ASSUME NEW w \in 0..(MLEN + 1), NEW v \in 0..(2^w - 1)
    PROVE  Low(v, w) = v
<1> DEFINE d == 2^w
<1>1. d \in Nat /\ d > 0 /\ v \in 0..(d - 1)
  BY Pow
<1> HIDE DEF d
<1>2. v = d * 0 + v
  BY <1>1
<1>3. v % d = v
  BY <1>1, <1>2, DivUnique
<1> QED BY <1>3 DEF d, Low

(* Numbers that differ by a multiple of the power have the same low bits,  *)
(* ...                                                                     *)
LEMMA LowCongruent ==
    ASSUME NEW w \in 0..(MLEN + 1), NEW v \in Int, NEW k \in Int
    PROVE  Low(v + 2^w * k, w) = Low(v, w)
<1>1. 2^w \in Nat /\ 2^w > 0
  BY Pow
<1> QED BY <1>1, ModShift DEF Low

(* ... and a number differs from its low bits by such a multiple.          *)
LEMMA LowDiffers ==
    ASSUME NEW w \in 0..(MLEN + 1), NEW v \in Int
    PROVE  \E k \in Int : v = Low(v, w) + 2^w * k
<1> DEFINE d == 2^w
<1>1. d \in Nat /\ d > 0
  BY Pow
<1> HIDE DEF d
<1>2. v \div d \in Int /\ v % d \in Int /\ v = d * (v \div d) + (v % d)
  BY <1>1, DivMod
<1>3. v = (v % d) + d * (v \div d)
  BY <1>1, <1>2
<1> QED BY <1>2, <1>3 DEF d, Low

(* Low bits of low bits.                                                   *)
LEMMA LowLow ==
    ASSUME NEW w \in 0..(MLEN + 1), NEW u \in 0..w, NEW v \in Int
    PROVE  Low(Low(v, w), u) = Low(v, u)
<1>1. u \in Nat /\ w \in Nat /\ u <= w /\ w <= MLEN + 1
  BY Widths
<1>2. 2^u \in Nat /\ 2^u > 0 /\ 2^(w - u) \in Nat /\ 2^(w - u) > 0 /\ 2^w = 2^u * 2^(w - u)
  BY <1>1, PowOrder
<1>3. (v % (2^u * 2^(w - u))) % 2^u = v % 2^u
  BY <1>2, DivDiv
<1> QED BY <1>2, <1>3 DEF Low

(* One more bit.                                                           *)
LEMMA LowStep ==
    ASSUME NEW n \in 0..MLEN, NEW v \in Int
    PROVE  Low(v, n + 1) = Low(v, n) + 2^n * Bit(v, n)
<1> DEFINE d == 2^n
           m == v % (d * 2)
<1>1. d \in Nat /\ d > 0 /\ 2^(n + 1) = 2 * d
  BY Pow, Widths
<1> HIDE DEF d
<1>2. (v \div d) % 2 = m \div d /\ m % d = v % d
  BY <1>1, DivDiv
<1>3. m \in Int /\ d * 2 = 2 * d
  BY <1>1, DivMod
<1>4. m = d * (m \div d) + (m % d) /\ m % d \in Int /\ m \div d \in Int
  BY <1>1, <1>3, DivMod
<1> HIDE DEF m
<1>5. m = (v % d) + d * ((v \div d) % 2)
  BY <1>1, <1>2, <1>3, <1>4
<1>6. v % 2^(n + 1) = m
  BY <1>1, <1>3 DEF m
<1> QED BY <1>5, <1>6 DEF Low, Bit, d

(* A low bit of a number is one of its low bits.                           *)
LEMMA BitOfLow ==
    ASSUME NEW w \in 0..(MLEN + 1), NEW i \in 0..(w - 1), NEW v \in Int
    PROVE  Bit(Low(v, w), i) = Bit(v, i)
<1>1. i \in Nat /\ w - i \in Nat /\ (w - i) - 1 \in 0..MLEN /\ ((w - i) - 1) + 1 = w - i
      /\ i <= w /\ w \in Nat /\ w <= MLEN + 1
  BY Widths
<1> DEFINE d == 2^i
           e == 2^((w - i) - 1)
           q == v \div d
<1>2. d \in Nat /\ d > 0 /\ e \in Nat /\ e > 0 /\ 2^w = d * (2 * e)
  <2>1. 2^w = 2^i * 2^(w - i) /\ 2^i \in Nat /\ 2^i > 0
    BY <1>1, PowOrder
  <2>2. 2^(w - i) = 2 * 2^((w - i) - 1) /\ 2^((w - i) - 1) \in Nat /\ 2^((w - i) - 1) > 0
    BY <1>1, Pow, Widths
  <2> QED BY <2>1, <2>2
<1> HIDE DEF d, e
<1>3. 2 * e \in Nat /\ 2 * e > 0
  BY <1>2
<1>4. (v \div d) % (2 * e) = (v % (d * (2 * e))) \div d
  BY <1>2, <1>3, DivDiv
<1>5. q \in Int
  BY <1>2, DivMod
<1>6. (q % (2 * e)) % 2 = q % 2
  BY <1>2, <1>5, DivDiv
<1> QED BY <1>2, <1>4, <1>6 DEF Bit, Low, d

(* The top bit tells which half a number is in.                            *)
LEMMA TopBit ==
    ASSUME NEW w \in 1..(MLEN + 1), NEW v \in Int
    PROVE  Bit(v, w - 1) = 1 <=> Low(v, w) >= 2^(w - 1)
<1>1. w - 1 \in 0..MLEN /\ (w - 1) + 1 = w /\ w - 1 \in 0..(MLEN + 1)
  BY Widths
<1> DEFINE d == 2^(w - 1)
           l == Low(v, w - 1)
           b == Bit(v, w - 1)
<1>2. Low(v, w) = l + d * b
  BY <1>1, LowStep
<1>3. d \in Nat /\ l \in 0..(d - 1) /\ b \in {0, 1}
  BY <1>1, Pow, LowType, BitType
<1> HIDE DEF d, l, b
<1>4. b = 1 <=> l + d * b >= d
  BY <1>3
<1> QED BY <1>2, <1>4 DEF d, b

(* Sign extension depends on the low bits only.                            *)
LEMMA SextCongruent ==
    ASSUME NEW w \in 1..XLEN, NEW v \in Int, NEW u \in Int, Low(v, w) = Low(u, w)
    PROVE  Sext(v, w) = Sext(u, w)
<1>1. w \in 0..(MLEN + 1) /\ w - 1 \in 0..(w - 1)
  BY Widths
<1>2. Bit(v, w - 1) = Bit(u, w - 1)
  BY <1>1, BitOfLow
<1> QED BY <1>2 DEF Sext

(* A sign extension drops the bits above it, ...                           *)
LEMMA SextLow ==
    ASSUME NEW w \in 1..XLEN, NEW v \in Int
    PROVE  Sext(Low(v, w), w) = Sext(v, w)
<1>1. w \in 0..(MLEN + 1) /\ w \in 0..w
  BY Widths
<1>2. Low(v, w) \in Int /\ Low(Low(v, w), w) = Low(v, w)
  BY <1>1, LowType, LowLow
<1> QED BY <1>2, SextCongruent

(* ... and one of the whole register does nothing else.                    *)
LEMMA SextFull ==
    ASSUME NEW v \in Int
    PROVE  Sext(v, XLEN) = Low(v, XLEN)
<1>1. Low(v, XLEN) \in Int /\ 2^XLEN \in Int
  BY LowType, Powers, Widths
<1> QED BY <1>1 DEF Sext

(* The signed number that a register holds.                                *)
LEMMA SignedType ==
    ASSUME NEW w \in 1..XLEN, NEW v \in Int
    PROVE  /\ Signed(v, w) \in Int
           /\ -2^(w - 1) <= Signed(v, w) /\ Signed(v, w) < 2^(w - 1)
           /\ Low(Signed(v, w), w) = Low(v, w)
           /\ Signed(v, w) < 0 <=> Bit(v, w - 1) = 1
           /\ Signed(v, w) = IF Bit(v, w - 1) = 1 THEN Low(v, w) - 2^w ELSE Low(v, w)
<1>1. w - 1 \in 0..MLEN /\ (w - 1) + 1 = w /\ w - 1 \in 0..(MLEN + 1) /\ w \in 0..(MLEN + 1)
      /\ w \in 1..(MLEN + 1)
  BY Widths
<1> DEFINE d == 2^(w - 1)
           l == Low(v, w)
           b == Bit(v, w - 1)
<1>2. d \in Nat /\ d > 0 /\ 2^w = 2 * d /\ b \in {0, 1} /\ l \in 0..(2 * d - 1)
  BY <1>1, Pow, LowType, BitType
<1>3. b = 1 <=> l >= d
  BY <1>1, TopBit
<1>4. Signed(v, w) = IF b = 1 THEN l - 2 * d ELSE l
  BY <1>2 DEF Signed
<1>5. Low(l, w) = l /\ Low(l + 2^w * (-1), w) = Low(l, w)
  <2>1. l \in 0..(2^w - 1) /\ l \in Int /\ -1 \in Int
    <3>1. l \in 0..(2 * d - 1) /\ 2^w = 2 * d /\ d \in Nat
      BY <1>2, Zenon
    <3> HIDE DEF l, d
    <3> QED BY <3>1
  <2> HIDE DEF l
  <2>2. Low(l, w) = l
    BY <1>1, <2>1, LowSmall
  <2>3. Low(l + 2^w * (-1), w) = Low(l, w)
    BY <1>1, <2>1, LowCongruent
  <2> QED BY <2>2, <2>3
<1>6. l + 2^w * (-1) = l - 2 * d
  BY <1>2
<1> HIDE DEF d, l, b
<1>7. /\ Signed(v, w) \in Int /\ -d <= Signed(v, w) /\ Signed(v, w) < d
      /\ Signed(v, w) < 0 <=> b = 1
  BY <1>2, <1>3, <1>4
<1>8. Low(Signed(v, w), w) = l
  BY <1>4, <1>5, <1>6
<1> QED BY <1>7, <1>8 DEF d, l, b, Signed

-----------------------------------------------------------------------------
(* The operands of a multiplication as numbers: the multiplicand, the      *)
(* multiplier up to bit n, and the product so far, with its binary point   *)
(* XLEN - n bits up.                                                       *)
Multiplicand == IF lhs_signed THEN Signed(rs1, XLEN) ELSE rs1

Multiplier(n) == IF rhs_signed /\ n = XLEN THEN Signed(rs2, XLEN) ELSE Low(rs2, n)

Product(n) == Multiplicand * Multiplier(n) * 2^(XLEN - n)

(* What a bit of the multiplier adds.                                      *)
Weight(n) == IF Bit(rs2, n) = 0 THEN 0 ELSE IF rhs_signed /\ n = XLEN - 1 THEN -1 ELSE 1

(* Operands are register values.                                           *)
LEMMA OperandType ==
    ASSUME instr \in Instruction
    PROVE  /\ rs1 \in Register /\ rs1 \in Nat /\ rs1 \in Int /\ rs1 \in 0..(2^XLEN - 1)
           /\ rs2 \in Register /\ rs2 \in Nat /\ rs2 \in Int /\ rs2 \in 0..(2^XLEN - 1)
<1>1. rs1 \in Register /\ rs2 \in Register
  BY InstrType
<1>2. Register \subseteq Nat
  BY Powers
<1> QED BY <1>1, <1>2 DEF Register

(* The factors and the product are integers.                               *)
LEMMA MultiplierType ==
    ASSUME instr \in Instruction, NEW n \in 0..XLEN
    PROVE  Multiplicand \in Int /\ Multiplier(n) \in Int /\ Product(n) \in Int
<1>1. rs1 \in Nat /\ rs2 \in Nat /\ XLEN \in 1..XLEN /\ n \in 0..(MLEN + 1) /\ XLEN - n \in 0..(MLEN + 1)
  BY OperandType, Widths
<1>2. Multiplicand \in Int /\ Multiplier(n) \in Int
  <2>1. Signed(rs1, XLEN) \in Int /\ Signed(rs2, XLEN) \in Int /\ Low(rs2, n) \in Int
    BY <1>1, OperandType, SignedType, LowType
  <2> QED BY <2>1, OperandType DEF Multiplicand, Multiplier
<1>3. 2^(XLEN - n) \in Int
  BY <1>1, Pow
<1>4. ASSUME NEW a \in Int, NEW b \in Int, NEW c \in Int PROVE a * b * c \in Int
  OBVIOUS
<1> QED BY <1>2, <1>3, <1>4 DEF Product

(* A bit adds its weight to the multiplier.                                *)
LEMMA MultiplierStep ==
    ASSUME instr \in Instruction, NEW n \in 0..(XLEN - 1)
    PROVE  Multiplier(n + 1) = Multiplier(n) + 2^n * Weight(n)
<1>1. /\ rs2 \in Nat /\ XLEN \in 1..XLEN /\ n \in 0..MLEN /\ n # XLEN /\ n \in 0..(MLEN + 1)
      /\ (XLEN - 1) + 1 = XLEN /\ XLEN \in Nat /\ n \in Nat /\ (n + 1 = XLEN <=> n = XLEN - 1)
  BY OperandType, Widths
<1>2. Low(rs2, n + 1) = Low(rs2, n) + 2^n * Bit(rs2, n) /\ Bit(rs2, n) \in {0, 1}
      /\ Low(rs2, n) \in Int /\ 2^n \in Nat
  BY <1>1, LowStep, BitType, LowType, Pow
<1>3. Multiplier(n) = Low(rs2, n)
  BY <1>1 DEF Multiplier
<1>4. CASE rhs_signed /\ n = XLEN - 1
  <2>1. Multiplier(n + 1) = Signed(rs2, XLEN) /\ n + 1 = XLEN
    BY <1>1, <1>4 DEF Multiplier
  <2>2. Signed(rs2, XLEN) = IF Bit(rs2, n) = 1 THEN Low(rs2, n + 1) - 2^XLEN ELSE Low(rs2, n + 1)
    BY <1>1, <1>4, <2>1, SignedType
  <2>3. 2^XLEN = 2 * 2^n
    BY <1>4, Powers
  <2>4. Weight(n) = IF Bit(rs2, n) = 0 THEN 0 ELSE -1
    BY <1>4 DEF Weight
  <2> DEFINE d == 2^n
             b == Bit(rs2, n)
             l == Low(rs2, n)
  <2>5. Multiplier(n + 1) = (IF b = 1 THEN (l + d * b) - 2 * d ELSE l + d * b)
    BY <1>2, <2>1, <2>2, <2>3
  <2>6. Multiplier(n) = l /\ Weight(n) = (IF b = 0 THEN 0 ELSE -1) /\ b \in {0, 1} /\ l \in Int /\ d \in Nat
    BY <1>2, <1>3, <2>4
  <2> HIDE DEF d, b, l
  <2>7. Multiplier(n + 1) = Multiplier(n) + d * Weight(n)
    BY <2>5, <2>6
  <2> QED BY <2>7 DEF d
<1>5. CASE ~(rhs_signed /\ n = XLEN - 1)
  <2>1. Multiplier(n + 1) = Low(rs2, n + 1)
    BY <1>1, <1>5 DEF Multiplier
  <2>2. Weight(n) = Bit(rs2, n)
    BY <1>2, <1>5 DEF Weight
  <2> QED BY <1>2, <1>3, <2>1, <2>2
<1> QED BY <1>4, <1>5

(* So the product so far grows by the multiplicand and moves down.         *)
LEMMA ProductStep ==
    ASSUME instr \in Instruction, NEW n \in 0..(XLEN - 1)
    PROVE  /\ 2 * Product(n + 1) = Product(n) + (Weight(n) * Multiplicand) * 2^XLEN
           /\ Weight(n) \in {-1, 0, 1}
<1>1. /\ n \in 0..XLEN /\ n + 1 \in 0..XLEN /\ n \in 0..(MLEN + 1) /\ XLEN - (n + 1) \in 0..MLEN
      /\ (XLEN - (n + 1)) + 1 = XLEN - n /\ n \in Nat /\ XLEN - n \in Nat /\ n + (XLEN - n) = XLEN
      /\ n + (XLEN - n) <= MLEN + 1 /\ XLEN - (n + 1) \in 0..(MLEN + 1)
  BY Widths
<1>2. 2^(XLEN - n) = 2 * 2^(XLEN - (n + 1)) /\ 2^XLEN = 2^n * 2^(XLEN - n)
  <2>1. 2^((XLEN - (n + 1)) + 1) = 2 * 2^(XLEN - (n + 1))
    BY <1>1, Pow
  <2>2. 2^(n + (XLEN - n)) = 2^n * 2^(XLEN - n)
    BY <1>1, PowAdd
  <2> QED BY <1>1, <2>1, <2>2
<1>3. /\ Multiplicand \in Int /\ Multiplier(n) \in Int /\ Multiplier(n + 1) \in Int
      /\ Weight(n) \in {-1, 0, 1} /\ 2^n \in Int /\ 2^(XLEN - (n + 1)) \in Int
  BY <1>1, MultiplierType, Pow DEF Weight
<1> DEFINE x == Multiplicand
           l == Multiplier(n)
           w == Weight(n)
           d == 2^n
           e == 2^(XLEN - (n + 1))
<1>4. Multiplier(n + 1) = l + d * w
  BY MultiplierStep
<1>5. Product(n + 1) = x * (l + d * w) * e /\ Product(n) = x * l * (2 * e) /\ 2^XLEN = d * (2 * e)
  BY <1>2, <1>4 DEF Product
<1>6. x \in Int /\ l \in Int /\ w \in Int /\ d \in Int /\ e \in Int
  BY <1>3
<1> HIDE DEF x, l, w, d, e
<1>7. 2 * (x * (l + d * w) * e) = x * l * (2 * e) + (w * x) * (d * (2 * e))
  BY <1>6, SMT
<1> QED BY <1>3, <1>5, <1>7 DEF w, x

(* The product so far fits the accumulator.                                *)
LEMMA ProductBound ==
    ASSUME instr \in Instruction, NEW n \in 0..(XLEN - 1)
    PROVE  /\ lhs_signed => /\ -(2^(XLEN - 1) * 2^XLEN) <= Product(n)
                            /\ Product(n) < 2^(XLEN - 1) * 2^XLEN
           /\ ~lhs_signed => 0 <= Product(n) /\ Product(n) < 2^MLEN
<1>1. /\ n \in 0..XLEN /\ n \in Nat /\ n # XLEN /\ n <= XLEN /\ XLEN <= MLEN + 1 /\ XLEN \in Nat
      /\ n \in 0..(MLEN + 1) /\ XLEN \in 1..XLEN
  BY Widths
<1> DEFINE x == Multiplicand
           l == Multiplier(n)
           d == 2^n
           e == 2^(XLEN - n)
           h == 2^(XLEN - 1)
           p == 2^XLEN
<1>2. d \in Nat /\ d > 0 /\ e \in Nat /\ e > 0 /\ p = d * e
  BY <1>1, PowOrder
<1>3. l \in 0..(d - 1)
  <2>1. Low(rs2, n) \in 0..(2^n - 1)
    BY <1>1, OperandType, LowType
  <2>2. l = Low(rs2, n)
    BY <1>1 DEF Multiplier
  <2> QED BY <2>1, <2>2
<1>4. h \in Nat /\ h > 0 /\ p \in Nat /\ p > 0 /\ 2^MLEN = p * p
  BY Powers
<1>5. x \in Int /\ (lhs_signed => -h <= x /\ x <= h - 1) /\ (~lhs_signed => 0 <= x /\ x <= p - 1)
  <2>1. rs1 \in Register /\ rs1 \in Int
    BY OperandType
  <2>2. -h <= Signed(rs1, XLEN) /\ Signed(rs1, XLEN) < h /\ Signed(rs1, XLEN) \in Int
    BY <1>1, <2>1, SignedType
  <2>3. rs1 \in 0..(p - 1)
    BY <2>1 DEF Register
  <2>4. x = IF lhs_signed THEN Signed(rs1, XLEN) ELSE rs1
    BY DEF Multiplicand
  <2> HIDE DEF x, h, p
  <2> QED BY <1>4, <2>1, <2>2, <2>3, <2>4
<1>6. Product(n) = x * l * e
  BY DEF Product
<1> HIDE DEF x, l, d, e, h, p
<1> DEFINE y == l * e
<1>7. y \in Nat /\ y <= p - e
  <2>1. l * e <= (d - 1) * e /\ l * e \in Nat
    BY <1>2, <1>3, ProductOrder, ProductNat
  <2> QED BY <1>2, <1>3, <2>1
<1>8. Product(n) = x * y
  BY <1>2, <1>3, <1>5, <1>6
<1> HIDE DEF y
<1>9. ASSUME lhs_signed PROVE -(h * p) <= Product(n) /\ Product(n) < h * p
  <2>1. (-h) * y <= x * y /\ x * y <= (h - 1) * y
    BY <1>4, <1>5, <1>7, <1>9, ProductOrder
  <2>2. y * h <= (p - 1) * h
    BY <1>2, <1>4, <1>7, ProductOrder
  <2>3. (h - 1) * y <= h * y /\ (-h) * y = -(y * h) /\ h * y = y * h
    BY <1>4, <1>7
  <2>4. (p - 1) * h = h * p - h
    BY <1>4
  <2> DEFINE z == y * h
             t == x * y
             hp == h * p
             hy == (h - 1) * y
  <2>5. z \in Int /\ t \in Int /\ hp \in Int /\ hy \in Int
    BY <1>4, <1>5, <1>7
  <2>6. -z <= t /\ t <= hy /\ hy <= z /\ z <= hp - h
    BY <2>1, <2>2, <2>3, <2>4
  <2> HIDE DEF z, t, hp, hy
  <2>7. -hp <= t /\ t < hp
    BY <1>4, <2>5, <2>6
  <2> QED BY <1>8, <2>7 DEF t, hp
<1>10. ASSUME ~lhs_signed PROVE 0 <= Product(n) /\ Product(n) < p * p
  <2>1. x \in Nat /\ x * y \in Nat
    BY <1>5, <1>7, <1>10, ProductNat
  <2>2. x * y <= (p - 1) * y
    BY <1>4, <1>5, <1>7, <1>10, ProductOrder
  <2>3. y * p <= (p - 1) * p
    BY <1>2, <1>4, <1>7, ProductOrder
  <2>4. (p - 1) * y = y * p - y /\ (p - 1) * p = p * p - p
    BY <1>4, <1>7
  <2> DEFINE z == y * p
             t == x * y
             pp == p * p
  <2>5. z \in Int /\ t \in Nat /\ pp \in Int
    BY <1>4, <1>7, <2>1
  <2>6. t <= z - y /\ z <= pp - p
    BY <2>2, <2>3, <2>4
  <2> HIDE DEF z, t, pp
  <2>7. 0 <= t /\ t < pp
    BY <1>4, <1>7, <2>5, <2>6
  <2> QED BY <1>8, <2>7 DEF t, pp
<1> QED BY <1>4, <1>9, <1>10 DEF h, p

-----------------------------------------------------------------------------
(* A number of twice the width, in two's complement, and its high half.    *)
LEMMA HighHalf ==
    ASSUME NEW A \in Int, NEW a \in Nat, a = Low(A, MLEN),
           \/ 0 <= A /\ A < 2^MLEN
           \/ -(2^(XLEN - 1) * 2^XLEN) <= A /\ A < 2^(XLEN - 1) * 2^XLEN
    PROVE  /\ a \div 2^XLEN = (A \div 2^XLEN) + (IF A < 0 THEN 2^XLEN ELSE 0)
           /\ Low(a, XLEN) = A % 2^XLEN
           /\ -(2^(XLEN - 1) * 2^XLEN) <= A /\ A < 2^(XLEN - 1) * 2^XLEN
                => (Bit(a, MLEN - 1) = 1 <=> A < 0)
<1> DEFINE p == 2^XLEN
           h == 2^(XLEN - 1)
<1>1. p \in Nat /\ p > 0 /\ h \in Nat /\ h > 0 /\ p = 2 * h /\ 2^MLEN = p * p
  BY Powers
<1>2. 2^(MLEN - 1) = h * p
  <2>1. (XLEN - 1) \in Nat /\ XLEN \in Nat /\ (XLEN - 1) + XLEN = MLEN - 1 /\ (XLEN - 1) + XLEN <= MLEN + 1
    BY Widths
  <2> QED BY <2>1, PowAdd
<1>3. MLEN \in 1..(MLEN + 1) /\ MLEN \in 0..(MLEN + 1)
  BY Widths
<1>4. a = A % (p * p) /\ p * p \in Nat /\ p * p > 0
  BY <1>1, ProductNat DEF Low
<1>5. Low(a, XLEN) = A % p
  <2>1. (A % (p * p)) % p = A % p
    BY <1>1, DivDiv
  <2> QED BY <1>4, <2>1 DEF Low
<1>6. Bit(a, MLEN - 1) = 1 <=> a >= h * p
  <2>1. a \in 0..(2^MLEN - 1)
    BY <1>3, LowType
  <2>2. Low(a, MLEN) = a
    BY <1>3, <2>1, LowSmall
  <2> QED BY <1>2, <1>3, <2>2, TopBit
<1> HIDE DEF p, h
<1> DEFINE q == A \div p
           r == A % p
           hp == h * p
           pp == p * p
<1>7. q \in Int /\ r \in 0..(p - 1) /\ A = p * q + r
  BY <1>1, DivMod
<1>8. hp \in Nat /\ hp > 0 /\ pp \in Nat /\ pp = 2 * hp
  BY <1>1, ProductNat
<1>9. CASE A >= 0
  <2>1. A < pp
    <3>1. A < pp \/ A < hp
      BY <1>1 DEF p, h, hp, pp
    <3> HIDE DEF hp, pp
    <3> QED BY <1>8, <3>1
  <2>2. A = pp * 0 + A
    BY <1>8
  <2>3. a = A
    BY <1>4, <1>8, <1>9, <2>1, <2>2, DivUnique
  <2>4. a \div p = q + (IF A < 0 THEN p ELSE 0)
    BY <1>7, <1>9, <2>3
  <2>5. A < hp => ~(a >= hp)
    <3> HIDE DEF hp
    <3> QED BY <1>8, <2>3
  <2> QED BY <1>5, <1>6, <1>9, <2>4, <2>5 DEF p, h, q, hp
<1>10. CASE A < 0
  <2>1. -hp <= A
    BY <1>10 DEF p, h, hp
  <2>2. A + pp \in Int /\ A = pp * (-1) + (A + pp) /\ 0 <= A + pp /\ A + pp < pp
    <3> HIDE DEF hp, pp
    <3> QED BY <1>8, <1>10, <2>1
  <2>3. a = A + pp
    BY <1>4, <1>8, <2>2, DivUnique
  <2>4. a = p * (q + p) + r
    BY <1>1, <1>7, <2>3
  <2>5. q + p \in Int /\ r \in Int /\ 0 <= r /\ r < p
    BY <1>1, <1>7
  <2> HIDE DEF q, r
  <2>6. a \div p = q + p
    BY <1>1, <2>4, <2>5, DivUnique
  <2>7. a >= hp
    <3> HIDE DEF hp, pp
    <3> QED BY <1>8, <2>1, <2>3
  <2> QED BY <1>5, <1>6, <1>10, <2>6, <2>7 DEF p, h, q, hp
<1> QED BY <1>9, <1>10

(* One addition: the accumulator holds one bit more of the product.        *)
LEMMA MulBit ==
    ASSUME instr \in Instruction, s_rs1 = rs1,
           NEW n \in 0..(XLEN - 1), NEW i \in 0..(XLEN - 1), Bit(s_rs2, i) = Bit(rs2, n),
           sub_last(i) <=> rhs_signed /\ n = XLEN - 1 /\ Bit(rs2, n) = 1
    PROVE  mul_add(Low(Product(n), MLEN), i) = Low(Product(n + 1), MLEN)
<1> DEFINE A == Product(n)
           B == Product(n + 1)
           a == Low(A, MLEN)
           p == 2^XLEN
           h == 2^(XLEN - 1)
           x == Multiplicand
           e == Weight(n)
           T == A \div p
           l == A % p
           b == Bit(rs2, n)
           to_add    == IF Bit(s_rs2, i) = 1 THEN s_rs1 ELSE 0
           sign(s)   == IF lhs_signed /\ s THEN 2^XLEN ELSE 0
           mul_add_l == sign(Bit(a, MLEN - 1) = 1) + a \div 2^XLEN
           mul_add_r == sign(Bit(to_add, width - 1) = 1) + to_add
           mul_sum   == IF sub_last(i) THEN mul_add_l - mul_add_r
                                       ELSE mul_add_l + mul_add_r
<1>1. /\ n \in 0..XLEN /\ n + 1 \in 0..XLEN /\ MLEN \in 0..(MLEN + 1) /\ XLEN + 1 \in 0..(MLEN + 1)
      /\ n \in 0..(MLEN + 1) /\ XLEN \in 1..XLEN /\ XLEN - 1 \in 0..(MLEN + 1)
  BY Widths
<1>2. A \in Int /\ B \in Int /\ x \in Int
  BY <1>1, MultiplierType
<1>3. p \in Nat /\ p > 0 /\ h \in Nat /\ h > 0 /\ p = 2 * h /\ 2^MLEN = p * p /\ 2^(XLEN + 1) = 2 * p
  BY Powers
<1>4. 2 * B = A + (e * x) * p /\ e \in {-1, 0, 1}
  BY ProductStep
<1>5. a \in Nat
  BY <1>1, <1>2, LowType
<1>6. /\ lhs_signed => -(h * p) <= A /\ A < h * p
      /\ ~lhs_signed => 0 <= A /\ A < 2^MLEN
  BY ProductBound
<1>7. /\ a \div p = T + (IF A < 0 THEN p ELSE 0) /\ Low(a, XLEN) = l
      /\ lhs_signed => (Bit(a, MLEN - 1) = 1 <=> A < 0)
  BY <1>2, <1>5, <1>6, HighHalf
<1>8. mul_add(a, i) = Low(mul_sum, XLEN + 1) * h + Low(a, XLEN) \div 2
  BY DEF mul_add
<1>9. b \in {0, 1} /\ to_add = IF b = 1 THEN rs1 ELSE 0
  BY <1>1, OperandType, BitType
<1>10. e = IF b = 0 THEN 0 ELSE IF sub_last(i) THEN -1 ELSE 1
  BY <1>9 DEF Weight
<1>11. lhs_signed => width = XLEN
  BY DEF lhs_signed, width, op_word, op, Instruction, DivOps
<1>12. mul_add_l = T + (IF A < 0 THEN 2 * p ELSE 0)
  <2>1. CASE lhs_signed
    <3>1. mul_add_l = (IF A < 0 THEN p ELSE 0) + (T + (IF A < 0 THEN p ELSE 0))
      BY <1>7, <2>1
    <3>2. T \in Int
      BY <1>2, <1>3, DivMod
    <3> HIDE DEF mul_add_l, A, T, p
    <3> QED BY <1>3, <3>1, <3>2
  <2>2. CASE ~lhs_signed
    <3>1. mul_add_l = 0 + (T + (IF A < 0 THEN p ELSE 0))
      BY <1>7, <2>2
    <3>2. T \in Int /\ ~(A < 0)
      BY <1>2, <1>3, <1>6, <2>2, DivMod
    <3> HIDE DEF mul_add_l, A, T, p
    <3> QED BY <1>3, <3>1, <3>2
  <2> QED BY <2>1, <2>2
<1>13. \E j \in {0, 1} : mul_add_r = (IF b = 1 THEN x ELSE 0) + (2 * p) * j
  <2>0. Bit(0, width - 1) = 0
    <3>1. width - 1 \in 0..(MLEN + 1)
      BY InstrType, Widths
    <3> DEFINE d == 2^(width - 1)
    <3>2. d \in Nat /\ d > 0
      BY <3>1, Pow
    <3> HIDE DEF d
    <3>3. 0 = d * 0 + 0
      BY <3>2
    <3>4. 0 \div d = 0
      BY <3>2, <3>3, DivUnique
    <3> QED BY <3>4 DEF Bit, d
  <2>1. CASE b = 0
    <3>1. to_add = 0
      BY <1>9, <2>1
    <3>2. mul_add_r = 0
      BY <2>0, <3>1
    <3> HIDE DEF mul_add_r
    <3> QED BY <1>3, <2>1, <3>2
  <2>2. CASE b = 1 /\ ~lhs_signed
    <3>1. mul_add_r = rs1 /\ x = rs1
      BY <1>9, <2>2, OperandType DEF Multiplicand
    <3> HIDE DEF mul_add_r
    <3> QED BY <1>2, <1>3, <2>2, <3>1
  <2>3. CASE b = 1 /\ lhs_signed
    <3>1. mul_add_r = (IF Bit(rs1, XLEN - 1) = 1 THEN p ELSE 0) + rs1
      BY <1>9, <1>11, <2>3
    <3>2. x = IF Bit(rs1, XLEN - 1) = 1 THEN rs1 - p ELSE rs1
      <4>1. Low(rs1, XLEN) = rs1
        BY OperandType, LowSmall, Widths
      <4> QED BY <2>3, <4>1 DEF Multiplicand, Signed
    <3>3. rs1 \in Int
      BY OperandType
    <3> HIDE DEF mul_add_r, x, p
    <3>4. CASE Bit(rs1, XLEN - 1) = 1
      <4>1. mul_add_r = (IF b = 1 THEN x ELSE 0) + (2 * p) * 1
        BY <1>3, <2>3, <3>1, <3>2, <3>3, <3>4
      <4> QED BY <4>1
    <3>5. CASE Bit(rs1, XLEN - 1) # 1
      <4>1. mul_add_r = (IF b = 1 THEN x ELSE 0) + (2 * p) * 0
        BY <1>3, <2>3, <3>1, <3>2, <3>3, <3>5
      <4> QED BY <4>1
    <3> QED BY <3>4, <3>5
  <2> QED BY <1>9, <2>1, <2>2, <2>3
<1> DEFINE S == T + e * x
           q == S \div (2 * p)
           s == S % (2 * p)
           t == l \div 2
<1>14. T \in Int /\ l \in 0..(p - 1) /\ A = p * T + l
  BY <1>2, <1>3, DivMod
<1> HIDE DEF A, B, a, p, h, x, e, b, T, l
<1>15. S \in Int /\ 2 * p \in Nat /\ 2 * p > 0
  BY <1>2, <1>3, <1>4, <1>14
<1>16. \E k \in Int : mul_sum = S + (2 * p) * k
  <2>1. PICK j \in {0, 1} : mul_add_r = (IF b = 1 THEN x ELSE 0) + (2 * p) * j
    BY <1>13
  <2> DEFINE m == IF A < 0 THEN 1 ELSE 0
             L == mul_add_l
             R == mul_add_r
  <2>2. L = T + (2 * p) * m /\ R = (IF b = 1 THEN x ELSE 0) + (2 * p) * j /\ m \in {0, 1}
    BY <1>3, <1>12, <2>1
  <2>3. mul_sum = IF sub_last(i) THEN L - R ELSE L + R
    OBVIOUS
  <2> HIDE DEF mul_sum, L, R, m
  <2>4. CASE sub_last(i)
    <3>1. b = 1 /\ e = -1
      BY <1>9, <1>10, <2>4 DEF sub_last, b
    <3>2. mul_sum = S + (2 * p) * (m - j)
      BY <1>2, <1>3, <1>14, <2>2, <2>3, <2>4, <3>1
    <3> QED BY <2>2, <3>2
  <2>5. CASE ~sub_last(i)
    <3>1. e = IF b = 1 THEN 1 ELSE 0
      BY <1>9, <1>10, <2>5
    <3>2. mul_sum = S + (2 * p) * (m + j)
      BY <1>2, <1>3, <1>9, <1>14, <2>2, <2>3, <2>5, <3>1
    <3> QED BY <2>2, <3>2
  <2> QED BY <2>4, <2>5
<1> HIDE DEF mul_sum, S
<1>17. Low(mul_sum, XLEN + 1) = s
  <2>1. PICK k \in Int : mul_sum = S + (2 * p) * k
    BY <1>16
  <2>2. (S + (2 * p) * k) % (2 * p) = S % (2 * p)
    BY <1>15, ModShift
  <2> QED BY <1>3, <2>1, <2>2 DEF Low
<1>18. q \in Int /\ s \in 0..(2 * p - 1) /\ S = (2 * p) * q + s
  BY <1>15, DivMod
<1> HIDE DEF q, s
<1>19. 2 * B = p * S + l
  BY <1>2, <1>3, <1>4, <1>14 DEF S
<1>20. l = 2 * t /\ t \in 0..(h - 1)
  <2>1. l = 2 * (B - h * S)
    BY <1>2, <1>3, <1>14, <1>15, <1>19
  <2>2. B - h * S \in Int
    BY <1>2, <1>3, <1>15
  <2> DEFINE u == B - h * S
  <2> HIDE DEF u
  <2>3. l = 2 * u /\ u \in Int
    BY <2>1, <2>2 DEF u
  <2> QED BY <1>3, <1>14, <2>3
<1> HIDE DEF t
<1>21. B = (p * p) * q + (s * h + t)
  <2>1. 2 * B = (2 * h) * ((2 * (2 * h)) * q + s) + 2 * t
    BY <1>3, <1>18, <1>19, <1>20
  <2>2. B = h * ((2 * (2 * h)) * q + s) + t
    BY <1>2, <1>3, <1>18, <1>20, <2>1
  <2>3. h * ((2 * (2 * h)) * q + s) = ((2 * h) * (2 * h)) * q + s * h
    BY <1>3, <1>18, SMT
  <2> QED BY <1>2, <1>3, <1>18, <1>20, <2>2, <2>3
<1>22. s * h + t \in Int /\ 0 <= s * h + t /\ s * h + t < p * p
  <2>1. s * h <= (2 * p - 1) * h /\ s * h \in Nat
    BY <1>3, <1>18, ProductOrder, ProductNat
  <2>2. (2 * p - 1) * h = p * p - h
    BY <1>3
  <2> QED BY <1>3, <1>20, <2>1, <2>2
<1>23. p * p \in Nat /\ p * p > 0
  BY <1>3, ProductNat
<1>24. B % (p * p) = s * h + t
  BY <1>2, <1>18, <1>21, <1>22, <1>23, DivUnique
<1>25. mul_add(a, i) = s * h + t
  BY <1>7, <1>8, <1>17 DEF t
<1>26. Low(B, MLEN) = s * h + t
  BY <1>3, <1>24 DEF Low
<1> QED BY <1>25, <1>26 DEF a, A, B

-----------------------------------------------------------------------------
(* The counter of a running unit lies between its end and the width, and   *)
(* on its way by whole steps.                                              *)
LEMMA RunningCount ==
    ASSUME UnrollsFit, TimingInv, InStep, mdu_run
    PROVE  /\ instr \in Instruction /\ mdu_ctr \in Nat /\ mdu_ctr <= width /\ width <= XLEN
           /\ End(instr) <= mdu_ctr
           /\ mdu_ctr # End(instr) =>
                /\ mdu_ctr >= End(instr) + Unroll(instr)
                /\ (mdu_ctr - Unroll(instr)) % MLEN = mdu_ctr - Unroll(instr)
<1>1. /\ instr \in Instruction /\ cycles \in Nat /\ cycles < Latency(instr)
      /\ Lead(instr) <= cycles /\ mdu_ctr = CountAt(instr, cycles)
  <2>1. mdu_valid /\ cycles \in Nat /\ cycles < Latency(instr) /\ mdu_ctr = CountAt(instr, cycles)
    BY DEF TimingInv, InStep, mdu_valid
  <2>2. instr \in Instruction
    BY <2>1, Decoded DEF TimingInv
  <2>3. Lead(instr) <= cycles
    BY <2>1, <2>2, Decoded DEF InStep, Lead, any_mul, any_clmul, any_div, op
  <2> QED BY <2>1, <2>2, <2>3
<1> DEFINE u == Unroll(instr)
           e == End(instr)
           k == Left(instr, cycles)
           n == Left(instr, Lead(instr))
<1>2. /\ u \in Nat /\ u >= 1 /\ e \in Nat /\ n \in Nat /\ Width(instr) = e + u * n
      /\ Width(instr) < MLEN /\ Latency(instr) \in Nat
  BY <1>1, LatencyFacts DEF CountAt
<1>3. k \in Nat /\ k <= n /\ mdu_ctr = e + u * k
  BY <1>1, <1>2 DEF Left, Lead, CountAt
<1>4. width = Width(instr) /\ Width(instr) <= XLEN /\ MLEN \in Nat
  BY Widths DEF width, Width, op_word
<1> HIDE DEF u, e, k, n
<1>5. k * u <= n * u /\ u * k \in Nat
  BY <1>2, <1>3, ProductOrder, ProductNat
<1>6. k # 0 => 1 * u <= k * u
  BY <1>2, <1>3, ProductOrder
<1>7. mdu_ctr \in Nat /\ mdu_ctr <= Width(instr) /\ e <= mdu_ctr
  BY <1>2, <1>3, <1>5
<1>8. mdu_ctr # e => mdu_ctr >= e + u
  <2>1. k = 0 => mdu_ctr = e
    BY <1>2, <1>3
  <2> QED BY <1>2, <1>3, <1>6, <2>1
<1>9. mdu_ctr # e => (mdu_ctr - u) % MLEN = mdu_ctr - u
  <2>1. SUFFICES ASSUME mdu_ctr # e PROVE (mdu_ctr - u) % MLEN = mdu_ctr - u
    OBVIOUS
  <2>2. mdu_ctr - u \in 0..(MLEN - 1)
    BY <1>2, <1>4, <1>7, <1>8, <2>1
  <2> QED BY <1>4, <2>2
<1> QED BY <1>1, <1>4, <1>7, <1>8, <1>9 DEF u, e

(* A bit of a shifted number, ...                                          *)
LEMMA BitShift ==
    ASSUME NEW v \in Int, NEW n \in Nat, NEW i \in Nat, n + i <= MLEN + 1
    PROVE  Bit(v \div 2^n, i) = Bit(v, n + i)
<1>1. n \in 0..(MLEN + 1) /\ i \in 0..(MLEN + 1)
  BY Widths
<1>2. 2^n \in Nat /\ 2^n > 0 /\ 2^i \in Nat /\ 2^i > 0 /\ 2^(n + i) = 2^n * 2^i
  BY <1>1, Pow, PowAdd
<1>3. (v \div 2^n) \div 2^i = v \div (2^n * 2^i)
  BY <1>2, DivDiv
<1> QED BY <1>2, <1>3 DEF Bit

(* ... and a number shifted twice.                                         *)
LEMMA ShiftShift ==
    ASSUME NEW v \in Int, NEW n \in Nat, NEW i \in Nat, n + i <= MLEN + 1
    PROVE  (v \div 2^n) \div 2^i = v \div 2^(n + i)
<1>1. n \in 0..(MLEN + 1) /\ i \in 0..(MLEN + 1)
  BY Widths
<1>2. 2^n \in Nat /\ 2^n > 0 /\ 2^i \in Nat /\ 2^i > 0 /\ 2^(n + i) = 2^n * 2^i
  BY <1>1, Pow, PowAdd
<1>3. (v \div 2^n) \div 2^i = v \div (2^n * 2^i)
  BY <1>2, DivDiv
<1> QED BY <1>2, <1>3, Zenon

-----------------------------------------------------------------------------
(* The multiplier when n bits of the operand have been retired.            *)
MulAt(n) ==
    /\ mul_run => s_rs1 = rs1 /\ s_rs2 = rs2 \div 2^n
    /\ mdu_state = Low(Product(n), MLEN)

MulData ==
    any_mul =>
        \A n \in 0..XLEN :
            (mul_run /\ n = width - mdu_ctr) \/ (mul_done /\ n = width) => MulAt(n)

(* A cycle of the multiplier retires MUL_UNROLL bits.                      *)
LEMMA MulRound ==
    ASSUME DataOK, instr \in Instruction, mul_run, NEW n \in 0..XLEN, n = width - mdu_ctr,
           mdu_ctr \in Nat, mdu_ctr >= MUL_UNROLL, MulAt(n)
    PROVE  n_mul_state = Low(Product(n + MUL_UNROLL), MLEN)
<1>1. /\ s_rs1 \in Register /\ s_rs2 \in Register /\ mdu_state \in State /\ width \in 1..XLEN
      /\ width \in Nat /\ width <= XLEN /\ MUL_UNROLL \in Nat /\ XLEN \in Nat /\ n \in Nat
      /\ n + MUL_UNROLL <= width /\ s_rs1 = rs1 /\ s_rs2 = rs2 \div 2^n
  BY InstrType, Widths DEF DataOK, MulAt
<1>2. PICK a : MulUpto(a)
  BY <1>1, MulLoop
<1> DEFINE S == {i \in Nat : a[i] = Low(Product(n + i), MLEN)}
<1>3. 0 \in S
  <2>1. n + 0 = n
    BY <1>1
  <2> QED BY <1>2, <2>1 DEF MulUpto, MulAt
<1>4. \A i \in 0..(MUL_UNROLL - 1) : i \in S => i + 1 \in S
  <2> SUFFICES ASSUME NEW i \in 0..(MUL_UNROLL - 1), i \in S PROVE i + 1 \in S
    OBVIOUS
  <2>1. /\ i \in Nat /\ i + 1 \in 1..MUL_UNROLL /\ (i + 1) - 1 = i /\ i \in 0..(XLEN - 1)
        /\ n + i \in 0..(XLEN - 1) /\ n + i <= MLEN + 1 /\ (n + i) + 1 = n + (i + 1)
    BY <1>1, Widths
  <2>2. a[i + 1] = mul_add(a[i], i)
    BY <1>2, <2>1 DEF MulUpto
  <2>3. Bit(s_rs2, i) = Bit(rs2, n + i)
    BY <1>1, <2>1, BitShift, OperandType
  <2>4. rhs_signed => width = XLEN
    BY DEF rhs_signed, width, op_word, op, Instruction, DivOps
  <2>5. sub_last(i) <=> rhs_signed /\ n + i = XLEN - 1 /\ Bit(rs2, n + i) = 1
    <3>1. rhs_signed => (i = MUL_UNROLL - 1 /\ mdu_ctr = MUL_UNROLL <=> n + i = XLEN - 1)
      BY <1>1, <2>1, <2>4
    <3> QED BY <2>3, <3>1 DEF sub_last
  <2>6. mul_add(Low(Product(n + i), MLEN), i) = Low(Product((n + i) + 1), MLEN)
    BY <1>1, <2>1, <2>3, <2>5, MulBit
  <2> QED BY <2>1, <2>2, <2>6
<1> HIDE DEF S
<1>5. MUL_UNROLL \in S
  BY <1>1, <1>3, <1>4, BoundedInduction
<1> QED BY <1>2, <1>5 DEF MulUpto, S

(* Each cycle of a multiplication keeps its accumulator the product so     *)
(* far.                                                                    *)
LEMMA MulDataStep ==
    ASSUME UnrollsFit, TypeOK, TimingInv, InStep, any_mul, UnitClock, instr' = instr, MulData
    PROVE  MulData'
<1>1. instr \in Instruction /\ DataOK
  BY Decoded, TypeParts DEF TimingInv, mdu_valid
<1>2. ~any_clmul /\ ~any_div /\ ~div_start /\ ~div_run /\ ~clmul_run /\ ~n_div_start /\ ~clmul_start
  BY <1>1, Decoded DEF InStep, n_div_start, clmul_start
<1>3. /\ width \in 1..XLEN /\ width \in 0..XLEN /\ width \in Nat /\ XLEN \in Nat /\ width <= XLEN
      /\ MUL_UNROLL \in Nat /\ MUL_UNROLL >= 1
  BY <1>1, InstrType, Widths
<1>4. /\ any_mul' /\ rs1' = rs1 /\ rs2' = rs2 /\ width' = width
      /\ \A n \in 0..XLEN : Product(n)' = Product(n)
  BY DEF any_mul, rs1, rs2, width, op, op_word, Product, Multiplicand, Multiplier, lhs_signed, rhs_signed
<1>5. SUFFICES ASSUME NEW n \in 0..XLEN,
                      (mul_run' /\ n = width - mdu_ctr') \/ (mul_done' /\ n = width)
               PROVE  /\ mul_run' => s_rs1' = rs1 /\ s_rs2' = rs2 \div 2^n
                      /\ mdu_state' = Low(Product(n), MLEN)
  BY <1>4 DEF MulData, MulAt, Low
<1>6. Control /\ StorageClock
  BY DEF UnitClock, Control
<1>7. CASE ~mul_run /\ ~mul_done
  <2>1. mul_start /\ mdu_start
    BY <1>7 DEF mul_start, mdu_start
  <2>2. mul_run' /\ ~mul_done' /\ mdu_ctr' = width
    BY <1>6, <2>1, Zenon DEF Control, MulClock, CounterClock, n_mdu_ctr
  <2>3. s_rs1' = rs1 /\ s_rs2' = rs2 /\ mdu_state' = 0
    BY <1>2, <1>6, <2>1, Zenon DEF StorageClock
  <2>4. n = 0
    BY <1>3, <1>5, <2>2
  <2>5. rs2 \in Int /\ 2^0 = 1 /\ Low(rs2, 0) = 0 /\ rs2 \div 1 = rs2
    <3>1. rs2 \in Int /\ 2^0 = 1
      BY <1>1, OperandType, Pow
    <3>2. rs2 % 1 = 0 /\ rs2 \div 1 = rs2
      BY <3>1
    <3> QED BY <3>1, <3>2 DEF Low
  <2>6. Product(0) = 0
    <3>1. Multiplier(0) = 0
      BY <2>5, Widths DEF Multiplier
    <3>2. Multiplicand \in Int /\ 2^(XLEN - 0) \in Int
      BY <1>1, <1>3, MultiplierType, Powers
    <3> DEFINE x == Multiplicand
               y == 2^(XLEN - 0)
    <3> HIDE DEF x, y
    <3>3. x \in Int /\ y \in Int => x * 0 * y = 0
      OBVIOUS
    <3> QED BY <3>1, <3>2, <3>3 DEF Product, x, y
  <2>7. Low(0, MLEN) = 0
    BY LowSmall, Widths, Powers
  <2> QED BY <2>3, <2>4, <2>5, <2>6, <2>7
<1>8. CASE mul_run
  <2>1. mdu_run /\ ~mul_done
    BY <1>1, <1>8, LatencyBound DEF InStep, TimingInv
  <2>2. End(instr) = MUL_END /\ Unroll(instr) = MUL_UNROLL /\ mdu_step = MUL_UNROLL
        /\ (mdu_end <=> mdu_ctr = MUL_END) /\ MUL_END \in {0, 1} /\ (MUL_END = 1 <=> MUL_UNROLL = 1)
    <3>1. End(instr) = MUL_END /\ Unroll(instr) = MUL_UNROLL /\ mdu_step = MUL_UNROLL
          /\ (mdu_end <=> mdu_ctr = MUL_END)
      BY <1>2 DEF End, Unroll, mdu_step, mdu_end, any_mul, op
    <3>2. MUL_END \in {0, 1} /\ (MUL_END = 1 <=> MUL_UNROLL = 1)
      BY <1>3 DEF MUL_END, UnrollsFit
    <3> QED BY <3>1, <3>2
  <2>3. /\ mdu_ctr \in Nat /\ mdu_ctr <= width /\ MUL_END <= mdu_ctr
        /\ mdu_ctr # MUL_END => /\ mdu_ctr >= MUL_END + MUL_UNROLL
                                /\ (mdu_ctr - MUL_UNROLL) % MLEN = mdu_ctr - MUL_UNROLL
    BY <2>1, <2>2, RunningCount
  <2> DEFINE m == width - mdu_ctr
  <2>4. m \in 0..XLEN /\ m \in Nat
    BY <1>3, <2>3
  <2>5. MulAt(m)
    BY <1>8, <2>4 DEF MulData
  <2>6. ~mul_start /\ ~mdu_start
    BY <1>2, <1>8 DEF mul_start, mdu_start
  <2>7. /\ s_rs1' = s_rs1 /\ s_rs2' = s_rs2 \div 2^MUL_UNROLL
        /\ mdu_state' = IF n_mul_done /\ MUL_UNROLL # 1 THEN mdu_state ELSE n_mul_state
    BY <1>2, <1>6, <1>8, <2>6, Zenon DEF StorageClock
  <2>8. /\ mul_run' <=> mdu_ctr # MUL_END
        /\ mul_done' <=> mdu_ctr = MUL_END
        /\ n_mul_done <=> mdu_ctr = MUL_END
        /\ mdu_ctr # MUL_END => mdu_ctr' = (mdu_ctr - MUL_UNROLL) % MLEN
    BY <1>6, <1>8, <2>1, <2>2, <2>6 DEF Control, MulClock, CounterClock, n_mul_done, n_mdu_ctr
  <2> DEFINE k == m + MUL_UNROLL
  <2>9. ASSUME mdu_ctr >= MUL_UNROLL PROVE n_mul_state = Low(Product(m + MUL_UNROLL), MLEN)
    <3> HIDE DEF m
    <3>1. m = width - mdu_ctr
      BY DEF m
    <3> QED BY <1>1, <1>8, <2>3, <2>4, <2>5, <2>9, <3>1, MulRound
  <2>10. CASE mdu_ctr # MUL_END
    <3>1. n = m + MUL_UNROLL /\ mdu_ctr >= MUL_UNROLL
      BY <1>3, <1>5, <2>2, <2>3, <2>8, <2>10
    <3>2. mdu_state' = Low(Product(n), MLEN)
      BY <2>7, <2>8, <2>9, <2>10, <3>1
    <3>3. s_rs1 = rs1 /\ s_rs2 = rs2 \div 2^m
      BY <1>8, <2>5 DEF MulAt
    <3>4. (rs2 \div 2^m) \div 2^MUL_UNROLL = rs2 \div 2^(m + MUL_UNROLL)
      <4>1. m + MUL_UNROLL <= MLEN + 1 /\ rs2 \in Int
        BY <1>1, <1>3, <2>3, <3>1, OperandType, Widths
      <4> HIDE DEF m
      <4> QED BY <1>3, <2>4, <4>1, ShiftShift
    <3> QED BY <2>7, <3>1, <3>2, <3>3, <3>4
  <2>11. CASE mdu_ctr = MUL_END /\ MUL_UNROLL # 1
    <3>1. n = width /\ m = width /\ ~mul_run'
      BY <1>3, <1>5, <2>2, <2>3, <2>8, <2>11
    <3>2. mdu_state' = mdu_state
      BY <2>7, <2>8, <2>11
    <3> QED BY <2>5, <3>1, <3>2 DEF MulAt
  <2>12. CASE mdu_ctr = MUL_END /\ MUL_UNROLL = 1
    <3>1. n = width /\ m + MUL_UNROLL = width /\ ~mul_run' /\ mdu_ctr >= MUL_UNROLL
      BY <1>3, <1>5, <2>2, <2>3, <2>8, <2>12
    <3>2. mdu_state' = n_mul_state
      BY <2>7, <2>12
    <3> QED BY <2>9, <3>1, <3>2
  <2> QED BY <2>10, <2>11, <2>12
<1>9. CASE ~mul_run /\ mul_done
  <2>1. ~mul_start
    BY <1>9 DEF mul_start
  <2>2. mdu_state' = mdu_state /\ ~mul_run'
    BY <1>2, <1>6, <1>9, <2>1 DEF StorageClock, Control, MulClock
  <2>3. n = width /\ MulAt(n)
    BY <1>3, <1>5, <1>9, <2>2 DEF MulData
  <2> QED BY <2>2, <2>3 DEF MulAt
<1> QED BY <1>7, <1>8, <1>9

-----------------------------------------------------------------------------
(* A result is determined by the number it stands for.                     *)
LEMMA MeaningIs ==
    ASSUME instr \in Instruction, Exact(instr) \in Int
    PROVE  Meaning(instr) = Sext(Exact(instr), width)
<1>1. Meaning(instr) = Sext(Low(Exact(instr), width), width)
  BY DEF Meaning, width, op_word
<1>2. width \in 1..XLEN
  BY InstrType
<1> QED BY <1>1, <1>2, SextLow

(* The whole product, cut to the half that the operation returns, is its   *)
(* result.                                                                 *)
LEMMA MulResult ==
    ASSUME instr \in Instruction, any_mul, mdu_state = Low(Product(width), MLEN)
    PROVE  result_mul = Meaning(instr)
<1>1. /\ rs1 \in 0..(2^XLEN - 1) /\ rs2 \in 0..(2^XLEN - 1) /\ rs1 \in Int /\ rs2 \in Int
      /\ rs1 \in Nat /\ rs2 \in Nat
  BY OperandType
<1>2. /\ XLEN \in 0..(MLEN + 1) /\ XLEN \in 1..XLEN /\ WLEN \in 1..XLEN /\ WLEN \in 0..(MLEN + 1)
      /\ XLEN \in 0..XLEN /\ WLEN \in 0..XLEN /\ WLEN # XLEN /\ XLEN - WLEN = WLEN /\ XLEN - XLEN = 0
      /\ MLEN \in 0..(MLEN + 1) /\ XLEN \in 0..MLEN
  BY Widths
<1>3. Low(rs1, XLEN) = rs1 /\ Low(rs2, XLEN) = rs2
  BY <1>1, <1>2, LowSmall
<1> DEFINE p == 2^XLEN
           d == 2^WLEN
<1>4. p \in Nat /\ p > 0 /\ d \in Nat /\ d > 0 /\ p = d * d /\ 2^MLEN = p * p /\ 2^0 = 1
  BY Powers, Pow
<1>5. CASE op_word
  <2>1. op = "mul" /\ width = WLEN
    BY <1>5 DEF op, op_word, Instruction, any_mul, MulOps, DivOps, width
  <2> DEFINE u1 == Low(rs1, WLEN)
             u2 == Low(rs2, WLEN)
  <2>2. u1 \in Nat /\ u2 \in 0..(d - 1)
    BY <1>1, <1>2, LowType
  <2>3. Product(WLEN) = rs1 * u2 * d
    BY <1>2, <2>1 DEF Product, Multiplicand, Multiplier, lhs_signed
  <2>4. PICK k \in Int : rs1 = u1 + d * k
    BY <1>1, <1>2, LowDiffers
  <2> DEFINE z == rs1 * u2
  <2>5. rs1 \in 0..(p - 1)
    BY <1>1
  <2>6. Exact(instr) = u1 * u2
    BY <2>1, <1>5 DEF Exact, op, op_word, rs1, rs2
  <2> HIDE DEF p, d, u1, u2
  <2>7. z \in Nat /\ z * d \in 0..(p * p - 1)
    <3>1. z \in Nat /\ z <= (p - 1) * u2
      BY <1>4, <2>2, <2>5, ProductOrder, ProductNat
    <3>2. u2 * (p - 1) <= (d - 1) * (p - 1)
      BY <1>4, <2>2, <2>5, ProductOrder
    <3>3. z <= (d - 1) * (p - 1)
      BY <1>4, <2>2, <3>1, <3>2
    <3> HIDE DEF z
    <3>4. z * d <= ((d - 1) * (p - 1)) * d /\ z * d \in Nat
      <4>1. (d - 1) * (p - 1) \in Int
        BY <1>4
      <4> QED BY <1>4, <3>1, <3>3, <4>1, ProductOrder, ProductNat
    <3>5. ((d - 1) * (p - 1)) * d = p * (d * d) - d * d - d * p + d
      BY <1>4
    <3>6. d * p >= d /\ d * d > 0
      <4>1. 1 * d <= p * d
        BY <1>4, ProductOrder
      <4> QED BY <1>4, <4>1, ProductNat
    <3> DEFINE zd == z * d
               pp == p * p
               dp == d * p
               dd == d * d
    <3>7. zd \in Nat /\ zd <= pp - dd - dp + d /\ dp >= d /\ dd > 0 /\ pp \in Int /\ dp \in Int /\ dd \in Int
      BY <1>4, <3>4, <3>5, <3>6
    <3> HIDE DEF zd, pp, dp, dd
    <3>8. zd \in 0..(pp - 1)
      BY <1>4, <3>7
    <3> QED BY <3>1, <3>8 DEF zd, pp
  <2>8. mdu_state = z * d
    <3>1. z * d \in 0..(2^MLEN - 1)
      BY <1>4, <2>7 DEF p
    <3>2. mdu_state = Low(z * d, MLEN)
      BY <2>1, <2>3
    <3> HIDE DEF z
    <3> QED BY <1>2, <3>1, <3>2, LowSmall
  <2> HIDE DEF z
  <2>9. mdu_state \div d = z
    <3>1. z * d = d * z + 0
      BY <1>4, <2>7
    <3> QED BY <1>4, <2>7, <2>8, <3>1, DivUnique
  <2>10. z = u1 * u2 + d * (k * u2)
    BY <1>4, <2>2, <2>4 DEF z
  <2>11. Low(z, WLEN) = Low(u1 * u2, WLEN) /\ u1 * u2 \in Int
    <3>1. u1 * u2 \in Int /\ k * u2 \in Int
      BY <2>2
    <3> QED BY <1>2, <2>10, <3>1, LowCongruent DEF d
  <2>12. Sext(z, WLEN) = Sext(u1 * u2, WLEN)
    <3>1. z \in Int
      BY <2>7
    <3> QED BY <1>2, <2>11, <3>1, SextCongruent
  <2>13. Meaning(instr) = Sext(u1 * u2, WLEN)
    BY <2>1, <2>6, <2>11, MeaningIs
  <2> QED BY <1>5, <2>9, <2>12, <2>13 DEF result_mul, d
<1>6. CASE ~op_word
  <2>1. width = XLEN
    BY <1>6 DEF width
  <2> DEFINE A == Product(XLEN)
             x == Multiplicand
             y == Multiplier(XLEN)
  <2>2. A \in Int /\ x \in Int /\ y \in Int
    BY <1>2, MultiplierType
  <2>3. A = x * y
    <3>1. A = x * y * 1
      BY <1>2, <1>4 DEF Product
    <3> HIDE DEF A, x, y
    <3> QED BY <2>2, <3>1
  <2>4. y = IF rhs_signed THEN Signed(rs2, XLEN) ELSE rs2
    BY <1>3 DEF Multiplier
  <2>5. x = IF lhs_signed THEN Signed(rs1, XLEN) ELSE rs1
    BY DEF Multiplicand
  <2>6. Exact(instr) = IF op = "mul" THEN x * y ELSE (x * y) \div p
    <3>1. CASE op = "mul"
      BY <1>3, <1>6, <2>4, <2>5, <3>1 DEF Exact, op, op_word, rs1, rs2, lhs_signed, rhs_signed
    <3>2. CASE op = "mulh"
      BY <1>3, <1>6, <2>4, <2>5, <3>2 DEF Exact, op, op_word, rs1, rs2, lhs_signed, rhs_signed
    <3>3. CASE op = "mulhu"
      BY <1>3, <1>6, <2>4, <2>5, <3>3 DEF Exact, op, op_word, rs1, rs2, lhs_signed, rhs_signed
    <3>4. CASE op = "mulhsu"
      BY <1>3, <1>6, <2>4, <2>5, <3>4 DEF Exact, op, op_word, rs1, rs2, lhs_signed, rhs_signed
    <3> QED BY <3>1, <3>2, <3>3, <3>4 DEF any_mul, MulOps
  <2>7. Exact(instr) = IF op = "mul" THEN A ELSE A \div p
    BY <2>3, <2>6
  <2> HIDE DEF A
  <2>8. A \div p \in Int
    BY <1>4, <2>2, DivMod
  <2>9. Meaning(instr) = IF op = "mul" THEN Low(A, XLEN) ELSE Low(A \div p, XLEN)
    BY <2>1, <2>2, <2>7, <2>8, MeaningIs, SextFull
  <2>10. mdu_state = A % (p * p)
    BY <1>4, <2>1 DEF Low, A
  <2>11. (A % (p * p)) % p = A % p /\ (A % (p * p)) \div p = (A \div p) % p
    BY <1>4, <2>2, DivDiv
  <2>12. Low(mdu_state, XLEN) = Low(A, XLEN) /\ mdu_state \div p = Low(A \div p, XLEN)
    BY <2>10, <2>11 DEF Low
  <2> QED BY <1>6, <2>9, <2>12 DEF result_mul
<1> QED BY <1>5, <1>6

-----------------------------------------------------------------------------
(* The operands of a division as numbers, and their magnitudes.            *)
Numerator   == IF div_signed THEN Signed(rs1, width) ELSE Low(rs1, width)
Denominator == IF div_signed THEN Signed(rs2, width) ELSE Low(rs2, width)
Dividend    == IF div_sign_lhs THEN 2^width - Low(rs1, width) ELSE Low(rs1, width)
Divisor     == IF div_sign_rhs THEN 2^width - Low(rs2, width) ELSE Low(rs2, width)

(* The width of an operation and its powers.                               *)
LEMMA WidthFacts ==
    ASSUME instr \in Instruction
    PROVE  /\ width \in 1..XLEN /\ width \in Nat /\ width <= XLEN /\ width \in 0..(MLEN + 1)
           /\ width \in 1..(MLEN + 1) /\ width - 1 \in 0..(MLEN + 1)
           /\ 2^width \in Nat /\ 2^width > 0 /\ 2^(width - 1) \in Nat /\ 2^(width - 1) > 0
           /\ 2^width = 2 * 2^(width - 1) /\ 2^width <= 2^XLEN
           /\ 2^(width - 1) <= 2^XLEN
<1>1. /\ width \in 1..XLEN /\ width \in Nat /\ width <= XLEN /\ width \in 0..(MLEN + 1)
      /\ width - 1 \in 0..MLEN /\ (width - 1) + 1 = width /\ width - 1 \in 0..(MLEN + 1)
      /\ width - 1 \in Nat /\ width - 1 <= XLEN /\ XLEN \in Nat /\ XLEN <= MLEN + 1
      /\ width \in 1..(MLEN + 1)
  BY InstrType, Widths
<1>2. 2^width \in Nat /\ 2^width > 0 /\ 2^(width - 1) \in Nat /\ 2^(width - 1) > 0
      /\ 2^width = 2 * 2^(width - 1)
  BY <1>1, Pow
<1>3. 2^width <= 2^XLEN /\ 2^(width - 1) <= 2^XLEN
  BY <1>1, PowOrder
<1> QED BY <1>1, <1>2, <1>3

(* A magnitude, and the number that it is the magnitude of.                *)
LEMMA Magnitude ==
    ASSUME instr \in Instruction, NEW v \in Nat, NEW s \in BOOLEAN, NEW g,
           g <=> s /\ Bit(v, width - 1) = 1
    PROVE  LET m == IF g THEN 2^width - Low(v, width) ELSE Low(v, width)
               a == IF s THEN Signed(v, width) ELSE Low(v, width)
           IN  /\ m \in 0..(2^width - 1) /\ a \in Int
               /\ a = IF g THEN -m ELSE m
               /\ a < 0 <=> g
               /\ m = 0 <=> Low(v, width) = 0
<1>1. /\ width \in 1..XLEN /\ width \in 0..(MLEN + 1) /\ width \in 1..(MLEN + 1)
      /\ 2^width \in Nat /\ 2^width > 0 /\ 2^(width - 1) \in Nat /\ 2^(width - 1) > 0
  BY WidthFacts
<1> DEFINE W == 2^width
           h == 2^(width - 1)
           l == Low(v, width)
           b == Bit(v, width - 1)
<1>2. W \in Nat /\ W > 0 /\ h \in Nat /\ h > 0 /\ l \in 0..(W - 1) /\ (b = 1 <=> l >= h)
  BY <1>1, LowType, TopBit
<1>3. Signed(v, width) = IF b = 1 THEN l - W ELSE l
  BY DEF Signed
<1> HIDE DEF W, h, l, b
<1>4. CASE g
  <2>1. s /\ b = 1
    BY <1>4 DEF b
  <2> QED BY <1>2, <1>3, <1>4, <2>1 DEF W, l
<1>5. CASE ~g
  <2>1. ~s \/ b # 1
    BY <1>5 DEF b
  <2> QED BY <1>2, <1>3, <1>5, <2>1 DEF W, l
<1> QED BY <1>4, <1>5

(* The operands of a division are their magnitudes with their signs.       *)
LEMMA DivOperands ==
    ASSUME instr \in Instruction
    PROVE  /\ Dividend \in 0..(2^width - 1) /\ Divisor \in 0..(2^width - 1)
           /\ Numerator \in Int /\ Denominator \in Int
           /\ Numerator = IF div_sign_lhs THEN -Dividend ELSE Dividend
           /\ Denominator = IF div_sign_rhs THEN -Divisor ELSE Divisor
           /\ Numerator < 0 <=> div_sign_lhs
           /\ Denominator < 0 <=> div_sign_rhs
           /\ Divisor = 0 <=> Low(rs2, width) = 0
<1>1. rs1 \in Nat /\ rs2 \in Nat /\ div_signed \in BOOLEAN
  BY OperandType DEF div_signed
<1>2. div_sign_lhs <=> div_signed /\ Bit(rs1, width - 1) = 1
  BY DEF div_sign_lhs
<1>3. div_sign_rhs <=> div_signed /\ Bit(rs2, width - 1) = 1
  BY DEF div_sign_rhs
<1>4. /\ Dividend \in 0..(2^width - 1) /\ Numerator \in Int
      /\ Numerator = IF div_sign_lhs THEN -Dividend ELSE Dividend
      /\ Numerator < 0 <=> div_sign_lhs
  BY <1>1, <1>2, Magnitude DEF Dividend, Numerator
<1>5. /\ Divisor \in 0..(2^width - 1) /\ Denominator \in Int
      /\ Denominator = IF div_sign_rhs THEN -Divisor ELSE Divisor
      /\ Denominator < 0 <=> div_sign_rhs
      /\ Divisor = 0 <=> Low(rs2, width) = 0
  BY <1>1, <1>3, Magnitude DEF Divisor, Denominator
<1> QED BY <1>4, <1>5

(* The negation of a sign extended negative operand is its magnitude.      *)
LEMMA NegSext ==
    ASSUME instr \in Instruction, NEW v \in Nat, Bit(v, width - 1) = 1
    PROVE  Neg(Sext(v, width), XLEN) = 2^width - Low(v, width)
<1>1. /\ width \in 0..(MLEN + 1) /\ width \in 1..(MLEN + 1) /\ XLEN \in 0..(MLEN + 1)
  BY WidthFacts, Widths
<1> DEFINE W == 2^width
           h == 2^(width - 1)
           l == Low(v, width)
           p == 2^XLEN
<1>2. W \in Nat /\ W > 0 /\ h \in Nat /\ h > 0 /\ W <= p /\ p \in Nat
  BY WidthFacts, Powers
<1>3. l \in 0..(W - 1) /\ l >= h
  BY <1>1, LowType, TopBit
<1>4. Sext(v, width) = l + (p - W)
  BY DEF Sext
<1>5. Neg(Sext(v, width), XLEN) = Low(p - Sext(v, width), XLEN)
  BY DEF Neg, Low
<1> HIDE DEF W, h, l, p
<1>6. p - Sext(v, width) = W - l /\ W - l \in 0..(p - 1)
  BY <1>2, <1>3, <1>4
<1>7. Low(W - l, XLEN) = W - l
  BY <1>1, <1>6, LowSmall DEF p
<1> QED BY <1>5, <1>6, <1>7 DEF W, l

(* The divisor that is loaded is the magnitude of the operand, shifted to  *)
(* the top, and fits the accumulator.                                      *)
LEMMA DivisorLoaded ==
    ASSUME instr \in Instruction, s_rs2 = rs2
    PROVE  /\ div_magnitude = Divisor
           /\ Low(div_magnitude * 2^(width - 1), MLEN) = Divisor * 2^(width - 1)
<1>1. rs2 \in Nat /\ rs2 \in Int /\ rs2 \in 0..(2^XLEN - 1) /\ WLEN \in 0..(MLEN + 1) /\ XLEN \in 0..(MLEN + 1)
  BY OperandType, Widths
<1>2. div_magnitude = Divisor
  <2>1. CASE ~div_sign_rhs
    BY <2>1 DEF div_magnitude, Divisor
  <2>2. CASE div_sign_rhs /\ ~op_word
    <3>1. width = XLEN
      BY <2>2 DEF width
    <3>2. Low(rs2, XLEN) = rs2
      BY <1>1, LowSmall
    <3> QED BY <2>2, <3>1, <3>2 DEF div_magnitude, Divisor
  <2>3. CASE div_sign_rhs /\ op_word
    <3>1. width = WLEN
      BY <2>3 DEF width
    <3>2. Bit(rs2, width - 1) = 1
      BY <2>3 DEF div_sign_rhs
    <3> DEFINE x == Neg(Sext(s_rs2, width), XLEN)
    <3>3. x = Divisor /\ x \in 0..(2^WLEN - 1)
      BY <1>1, <2>3, <3>1, <3>2, NegSext, DivOperands DEF Divisor
    <3>4. div_magnitude = Low(x, WLEN) + Bit(x, WLEN) * (2^MLEN - 2^WLEN)
      BY <2>3 DEF div_magnitude
    <3> HIDE DEF x
    <3>5. Low(x, WLEN) = x
      BY <1>1, <3>3, LowSmall
    <3>6. Bit(x, WLEN) = 0
      <4> DEFINE d == 2^WLEN
      <4>1. d \in Nat /\ d > 0 /\ x \in 0..(d - 1)
        BY <3>3, Powers
      <4> HIDE DEF d
      <4>2. x = d * 0 + x
        BY <4>1
      <4>3. x \div d = 0
        BY <4>1, <4>2, DivUnique
      <4> QED BY <4>3 DEF Bit, d
    <3> DEFINE y == 2^MLEN - 2^WLEN
    <3>7. y \in Int
      BY Powers
    <3> HIDE DEF y
    <3>8. x + 0 * y = x
      <4>1. x \in Int
        BY <3>3, Powers
      <4> QED BY <3>7, <4>1
    <3> QED BY <3>3, <3>4, <3>5, <3>6, <3>8 DEF y
  <2> QED BY <2>1, <2>2, <2>3
<1> DEFINE W == 2^width
           h == 2^(width - 1)
           p == 2^XLEN
           V == Divisor
<1>3. /\ W \in Nat /\ W > 0 /\ h \in Nat /\ h > 0 /\ W <= p /\ h <= p /\ p \in Nat /\ 2^MLEN = p * p
      /\ V \in 0..(W - 1)
  BY WidthFacts, Powers, DivOperands
<1> HIDE DEF W, h, p, V
<1>4. V * h \in 0..(p * p - 1)
  <2>1. V * h <= (W - 1) * h /\ V * h \in Nat
    BY <1>3, ProductOrder, ProductNat
  <2>2. W * h <= p * h /\ h * p <= p * p
    BY <1>3, ProductOrder
  <2>3. (W - 1) * h = W * h - h /\ p * h = h * p
    BY <1>3
  <2> DEFINE a == V * h
             b == W * h
             c == h * p
             e == p * p
  <2>4. a \in Nat /\ a <= b - h /\ b <= c /\ c <= e /\ b \in Int /\ c \in Int /\ e \in Int
    BY <1>3, <2>1, <2>2, <2>3
  <2> HIDE DEF a, b, c, e
  <2>5. a \in 0..(e - 1)
    BY <1>3, <2>4
  <2> QED BY <2>5 DEF a, e
<1>5. Low(V * h, MLEN) = V * h
  <2>1. V * h \in 0..(2^MLEN - 1) /\ MLEN \in 0..(MLEN + 1)
    BY <1>3, <1>4, Widths
  <2> QED BY <2>1, LowSmall
<1> QED BY <1>2, <1>5 DEF V, h

-----------------------------------------------------------------------------
(* The dividend split when c bits of the quotient are to come: q is the    *)
(* quotient so far, r what is left.  A divisor of zero is always taken     *)
(* off, and leaves ones.                                                   *)
Split(c, q, r) ==
    /\ r \in Nat /\ Dividend = q * Divisor + r
    /\ \E t \in Nat : q = 2^c * t
    /\ Divisor # 0 => r < Divisor * 2^c
    /\ Divisor = 0 => q = 2^width - 2^c

(* Nothing has been taken off yet.                                         *)
LEMMA SplitStart ==
    ASSUME instr \in Instruction
    PROVE  Split(width, 0, Dividend)
<1> DEFINE W == 2^width
           V == Divisor
           D == Dividend
<1>1. W \in Nat /\ W > 0 /\ V \in 0..(W - 1) /\ D \in 0..(W - 1)
  BY WidthFacts, DivOperands
<1> HIDE DEF W, V, D
<1>2. D \in Nat /\ D = 0 * V + D /\ 0 = W * 0 /\ 0 = W - W
  BY <1>1
<1>3. V # 0 => D < V * W
  <2>1. V # 0 => 1 * W <= V * W
    BY <1>1, ProductOrder
  <2> QED BY <1>1, <2>1
<1> QED BY <1>2, <1>3 DEF Split, W, V, D

(* A step of the restoring division.                                       *)
LEMMA SplitStep ==
    ASSUME instr \in Instruction, NEW c \in 1..width, NEW q \in Register, NEW r \in Register,
           Split(c, q, r)
    PROVE  LET d == Divisor * 2^(c - 1)
           IN  /\ d <= r => /\ Split(c - 1, WithBit(q, Low(2^(c - 1), XLEN)), Low(r - d, XLEN))
               /\ ~(d <= r) => Split(c - 1, q, r)
               /\ d \div 2 = IF c = 1 THEN d \div 2 ELSE Divisor * 2^(c - 2)
<1>1. /\ c - 1 \in 0..MLEN /\ (c - 1) + 1 = c /\ c \in Nat /\ c \in 1..(MLEN - 1) /\ c - 1 < XLEN
      /\ c - 1 \in 0..(MLEN + 1) /\ width \in Nat /\ width <= XLEN /\ XLEN \in Nat
  BY WidthFacts, Widths
<1> DEFINE e == 2^(c - 1)
           V == Divisor
           D == Dividend
           W == 2^width
           d == V * e
           p == 2^XLEN
<1>2. e \in Nat /\ e > 0 /\ 2^c = 2 * e /\ W \in Nat /\ V \in Nat /\ D \in Nat /\ p \in Nat
      /\ q \in 0..(p - 1) /\ r \in 0..(p - 1)
  BY <1>1, Pow, WidthFacts, DivOperands, Powers DEF Register
<1>3. Low(e, XLEN) = e
  BY <1>1, MaskType
<1>4. PICK t \in Nat : q = (2 * e) * t
  BY <1>2 DEF Split
<1>5. D = q * V + r /\ (V # 0 => r < V * (2 * e)) /\ (V = 0 => q = W - 2 * e)
  BY <1>2 DEF Split
<1>6. d \div 2 = IF c = 1 THEN d \div 2 ELSE V * 2^(c - 2)
  <2>1. SUFFICES ASSUME c # 1 PROVE d \div 2 = V * 2^(c - 2)
    OBVIOUS
  <2>2. c - 2 \in 0..MLEN /\ (c - 2) + 1 = c - 1 /\ c - 2 \in 0..(MLEN + 1)
    BY <1>1, <2>1, Widths
  <2> DEFINE f == 2^(c - 2)
  <2>3. f \in Nat /\ e = 2 * f
    BY <2>2, Pow
  <2> HIDE DEF e, V, f
  <2>4. V * e = 2 * (V * f) /\ V * f \in Nat
    BY <1>2, <2>3, ProductNat
  <2>5. (V * e) \div 2 = V * f
    BY <2>4
  <2> QED BY <2>5 DEF f
<1> HIDE DEF e, V, D, W, p
<1>7. d \in Nat
  BY <1>2, ProductNat
<1>8. ASSUME d <= r
      PROVE  Split(c - 1, WithBit(q, Low(e, XLEN)), Low(r - d, XLEN))
  <2>1. Low(r - d, XLEN) = r - d
    <3>1. r - d \in 0..(p - 1) /\ XLEN \in 0..(MLEN + 1)
      BY <1>2, <1>7, <1>8, Widths
    <3> QED BY <3>1, LowSmall DEF p
  <2>2. WithBit(q, e) = q + e
    <3>1. q = e * (2 * t) + 0 /\ 2 * t \in Int
      BY <1>2, <1>4
    <3>2. q \div e = 2 * t
      BY <1>2, <3>1, DivUnique
    <3>3. (2 * t) % 2 = 0
      BY <1>4
    <3> QED BY <1>2, <3>2, <3>3 DEF WithBit
  <2>3. r - d \in Nat /\ D = (q + e) * V + (r - d)
    BY <1>2, <1>5, <1>7, <1>8
  <2>4. q + e = e * (2 * t + 1) /\ 2 * t + 1 \in Nat
    BY <1>2, <1>4
  <2>5. V # 0 => r - d < V * e
    BY <1>2, <1>5, <1>7
  <2>6. V = 0 => q + e = W - e
    BY <1>2, <1>5
  <2> QED BY <1>3, <2>1, <2>2, <2>3, <2>4, <2>5, <2>6 DEF Split, e, V, D, W
<1>9. ASSUME ~(d <= r)
      PROVE  Split(c - 1, q, r)
  <2>1. V # 0
    BY <1>2, <1>9
  <2>2. r \in Nat /\ r < V * e
    BY <1>2, <1>7, <1>9
  <2>3. q = e * (2 * t) /\ 2 * t \in Nat
    BY <1>2, <1>4
  <2> QED BY <1>5, <2>1, <2>2, <2>3 DEF Split, e, V, D, W
<1> QED BY <1>6, <1>8, <1>9 DEF e, V

-----------------------------------------------------------------------------
(* The divider: the operands as they are loaded, the dividend split, with  *)
(* the divisor shifted to the next bit of the quotient, and at the end.    *)
DivAt(c) == Split(c, s_rs2, s_rs1)

DivData ==
    any_div =>
        /\ div_start => s_rs1 = rs1 /\ s_rs2 = rs2
        /\ \A c \in 0..XLEN : div_run /\ c = mdu_ctr =>
                DivAt(c) /\ (c # 0 => mdu_state = Divisor * 2^(c - 1))
        /\ div_done => DivAt(0)

(* What a division divides depends on the instruction only.                *)
LEMMA SameOperands ==
    ASSUME instr' = instr
    PROVE  /\ Dividend' = Dividend /\ Divisor' = Divisor /\ width' = width
           /\ rs1' = rs1 /\ rs2' = rs2 /\ (any_div' <=> any_div)
           /\ \A c, q, r : Split(c, q, r)' <=> Split(c, q, r)
<1>1. width' = width /\ rs1' = rs1 /\ rs2' = rs2 /\ (any_div' <=> any_div)
  BY DEF width, op_word, rs1, rs2, any_div, op
<1>2. (div_sign_lhs' <=> div_sign_lhs) /\ (div_sign_rhs' <=> div_sign_rhs)
  BY DEF div_sign_lhs, div_sign_rhs, div_signed, Bit, width, op_word, rs1, rs2, op
<1>3. Dividend' = Dividend
  BY <1>1, <1>2 DEF Dividend, Low
<1>4. Divisor' = Divisor
  BY <1>1, <1>2 DEF Divisor, Low
<1>5. \A c, q, r : Split(c, q, r)' <=> Split(c, q, r)
  BY <1>1, <1>3, <1>4 DEF Split
<1> QED BY <1>1, <1>3, <1>4, <1>5

(* Each cycle of a division keeps the dividend split into quotient and     *)
(* remainder.                                                              *)
LEMMA DivDataStep ==
    ASSUME UnrollsFit, TypeOK, TimingInv, InStep, any_div, UnitClock, instr' = instr, DivData
    PROVE  DivData'
<1>1. instr \in Instruction /\ DataOK
  BY Decoded, TypeParts DEF TimingInv, mdu_valid
<1>2. /\ ~any_clmul /\ ~any_mul /\ ~clmul_run /\ ~mul_run /\ ~mul_start /\ ~clmul_start
      /\ (mdu_start <=> div_start)
  BY <1>1, Decoded DEF InStep, mul_start, clmul_start, mdu_start
<1>3. /\ width \in 1..XLEN /\ width \in 0..XLEN /\ width \in Nat /\ XLEN \in Nat /\ width <= XLEN
      /\ s_rs1 \in Register /\ s_rs2 \in Register
  BY <1>1, InstrType, Widths DEF DataOK
<1>4. SUFFICES /\ div_start' => s_rs1' = rs1 /\ s_rs2' = rs2
               /\ \A c \in 0..XLEN : div_run' /\ c = mdu_ctr' =>
                    Split(c, s_rs2', s_rs1') /\ (c # 0 => mdu_state' = Divisor * 2^(c - 1))
               /\ div_done' => Split(0, s_rs2', s_rs1')
  BY SameOperands DEF DivData, DivAt, Split
<1>5. Control /\ StorageClock
  BY DEF UnitClock, Control
<1>6. CASE ~div_start /\ ~div_run /\ ~div_done
  <2>1. n_div_start
    BY <1>6 DEF n_div_start
  <2>2. div_start' /\ ~div_run' /\ ~div_done'
    BY <1>5, <1>6, <2>1 DEF Control, DivClock, n_div_done
  <2>3. s_rs1' = rs1 /\ s_rs2' = rs2
    BY <1>5, <2>1, Zenon DEF StorageClock, n_dividend, n_quotient
  <2> QED BY <2>2, <2>3
<1>7. CASE div_start
  <2>1. ~n_div_start /\ ~div_run /\ ~div_done
    <3>1. cycles = 1 /\ Latency(instr) \in Nat /\ Latency(instr) >= 3
      BY <1>1, <1>2, <1>7, LatencyFacts DEF InStep, Left, Lead, any_div, op
    <3> QED BY <1>7, <3>1 DEF InStep, n_div_start
  <2>2. ~div_start' /\ div_run' /\ ~div_done' /\ mdu_ctr' = width
    BY <1>2, <1>5, <1>7, <2>1, Zenon DEF Control, DivClock, CounterClock, n_mdu_ctr, n_div_done
  <2>3. s_rs1' = n_dividend /\ s_rs2' = n_quotient /\ mdu_state' = n_divisor
    BY <1>5, <1>7, Zenon DEF StorageClock
  <2>4. s_rs1 = rs1 /\ s_rs2 = rs2
    BY <1>7 DEF DivData
  <2>5. n_dividend = Dividend
    <3>1. n_dividend = IF div_sign_lhs THEN Neg(Sext(rs1, width), XLEN) ELSE Low(rs1, width)
      BY <1>7, <2>1, <2>4 DEF n_dividend
    <3>2. div_sign_lhs => Neg(Sext(rs1, width), XLEN) = 2^width - Low(rs1, width)
      BY <1>1, OperandType, NegSext DEF div_sign_lhs
    <3> QED BY <3>1, <3>2 DEF Dividend
  <2>6. n_quotient = 0
    BY <1>7, <2>1 DEF n_quotient
  <2>7. n_divisor = Divisor * 2^(width - 1)
    <3>1. n_divisor = Low(div_magnitude * 2^(width - 1), MLEN)
      BY <1>7, <2>1 DEF n_divisor
    <3> QED BY <1>1, <2>4, <3>1, DivisorLoaded
  <2>8. Split(width, 0, Dividend)
    BY <1>1, SplitStart
  <2> QED BY <2>2, <2>3, <2>5, <2>6, <2>7, <2>8
<1>8. CASE ~div_start /\ div_run
  <2>1. mdu_run /\ ~div_done /\ ~n_div_start /\ ~mdu_start
    BY <1>1, <1>2, <1>8, LatencyBound DEF InStep, TimingInv, n_div_start
  <2>2. End(instr) = 0 /\ Unroll(instr) = 1 /\ mdu_step = 1 /\ (mdu_end <=> mdu_ctr = 0)
    BY <1>2 DEF End, Unroll, mdu_step, mdu_end, any_mul, any_clmul, op
  <2>3. /\ mdu_ctr \in Nat /\ mdu_ctr <= width
        /\ mdu_ctr # 0 => (mdu_ctr - 1) % MLEN = mdu_ctr - 1
    BY <2>1, <2>2, RunningCount
  <2>4. /\ ~div_start'
        /\ div_run' <=> mdu_ctr # 0
        /\ div_done' <=> mdu_ctr = 0
        /\ n_div_done <=> mdu_ctr = 0
        /\ mdu_ctr # 0 => mdu_ctr' = mdu_ctr - 1
    <3>1. ~div_start'
      BY <1>5, <2>1, Zenon DEF Control, DivClock
    <3> QED BY <1>5, <1>8, <2>1, <2>2, <2>3, <3>1 DEF Control, DivClock, CounterClock, n_div_done, n_mdu_ctr
  <2>5. s_rs1' = n_dividend /\ s_rs2' = n_quotient /\ mdu_state' = n_divisor
    BY <1>5, <1>8, Zenon DEF StorageClock
  <2>6. /\ n_dividend = IF div_less /\ ~n_div_done THEN Low(s_rs1 - mdu_state, XLEN) ELSE s_rs1
        /\ n_quotient = IF div_less /\ ~n_div_done THEN WithBit(s_rs2, qmask) ELSE s_rs2
        /\ n_divisor = mdu_state \div 2
    BY <1>8, <2>1 DEF n_dividend, n_quotient, n_divisor
  <2> DEFINE c == mdu_ctr
  <2>7. c \in 0..XLEN /\ Split(c, s_rs2, s_rs1) /\ (c # 0 => mdu_state = Divisor * 2^(c - 1))
    BY <1>3, <1>8, <2>3 DEF DivData, DivAt
  <2>8. CASE mdu_ctr = 0
    <3>1. s_rs1' = s_rs1 /\ s_rs2' = s_rs2
      BY <2>4, <2>5, <2>6, <2>8
    <3> QED BY <2>4, <2>7, <2>8, <3>1
  <2>9. CASE mdu_ctr # 0
    <3>1. c \in 1..width /\ qmask = Low(2^(c - 1), XLEN) /\ c - 1 - 1 = c - 2
      BY <1>3, <2>3, <2>9 DEF qmask
    <3>2. div_less <=> Divisor * 2^(c - 1) <= s_rs1
      BY <2>7, <2>9 DEF div_less
    <3>3. /\ s_rs1' = IF div_less THEN Low(s_rs1 - Divisor * 2^(c - 1), XLEN) ELSE s_rs1
          /\ s_rs2' = IF div_less THEN WithBit(s_rs2, Low(2^(c - 1), XLEN)) ELSE s_rs2
          /\ mdu_state' = (Divisor * 2^(c - 1)) \div 2
      BY <2>4, <2>5, <2>6, <2>7, <2>9, <3>1
    <3> HIDE DEF c
    <3>4. Split(c - 1, s_rs2', s_rs1')
      BY <1>1, <1>3, <2>7, <3>1, <3>2, <3>3, SplitStep
    <3>5. c # 1 => mdu_state' = Divisor * 2^(c - 2)
      BY <1>1, <1>3, <2>7, <3>1, <3>3, SplitStep
    <3>6. div_run' /\ ~div_done' /\ ~div_start' /\ mdu_ctr' = c - 1 /\ c - 1 \in 0..XLEN
      BY <1>3, <2>4, <2>9, <3>1 DEF c
    <3>7. (c - 1) - 1 = c - 2 /\ (c - 1 # 0 => c # 1)
      BY <3>1
    <3> QED BY <3>4, <3>5, <3>6, <3>7
  <2> QED BY <2>8, <2>9
<1>9. CASE ~div_start /\ ~div_run /\ div_done
  <2>1. ~n_div_start
    BY <1>9 DEF n_div_start
  <2>2. s_rs1' = s_rs1 /\ s_rs2' = s_rs2 /\ ~div_start' /\ ~div_run'
    BY <1>2, <1>5, <1>9, <2>1 DEF StorageClock, Control, DivClock
  <2> QED BY <1>9, <2>2 DEF DivData, DivAt
<1> QED BY <1>6, <1>7, <1>8, <1>9

-----------------------------------------------------------------------------
(* The low bits of a negation.                                             *)
LEMMA NegLow ==
    ASSUME NEW v \in Int, NEW w \in 1..XLEN
    PROVE  Low(Neg(v, XLEN), w) = Low(-v, w)
<1>1. w \in 0..(MLEN + 1) /\ XLEN \in 0..(MLEN + 1) /\ w \in 0..XLEN /\ w \in Nat /\ XLEN \in Nat
      /\ w <= XLEN /\ XLEN <= MLEN + 1
  BY Widths
<1> DEFINE W == 2^w
           k == 2^(XLEN - w)
           p == 2^XLEN
<1>2. W \in Nat /\ k \in Nat /\ p = W * k /\ p \in Nat
  BY <1>1, PowOrder
<1>3. Neg(v, XLEN) = Low(p - v, XLEN)
  BY DEF Neg, Low
<1> HIDE DEF k, p
<1>4. p - v \in Int /\ p - v = (-v) + W * k /\ -v \in Int /\ k \in Int
  <2> HIDE DEF W
  <2> QED BY <1>2
<1>5. Low(Low(p - v, XLEN), w) = Low(p - v, w)
  BY <1>1, <1>4, LowLow
<1>6. Low((-v) + W * k, w) = Low(-v, w)
  BY <1>1, <1>4, LowCongruent
<1> QED BY <1>3, <1>4, <1>5, <1>6

(* Numbers a and b, their magnitudes D and V, and the quotient q and the   *)
(* remainder r of the magnitudes.                                          *)
Divided(a, b, D, V, q, r) ==
    /\ a \in Int /\ b \in Int /\ {D, V, q, r} \subseteq Nat
    /\ V > 0 /\ D = q * V + r /\ r < V
    /\ a = IF a < 0 THEN -D ELSE D
    /\ b = V \/ b = -V

(* With their signs, q and r are the quotient of a and b that rounds       *)
(* towards zero, and its remainder.                                        *)
LEMMA SignedDivision ==
    ASSUME NEW a, NEW b, NEW D, NEW V, NEW q, NEW r, Divided(a, b, D, V, q, r)
    PROVE  /\ Quotient(a, b) = IF (a < 0) # (b < 0) THEN -q ELSE q
           /\ a - b * Quotient(a, b) = IF a < 0 THEN -r ELSE r
<1> DEFINE abs(x) == IF x < 0 THEN -x ELSE x
<1>0. /\ a \in Int /\ b \in Int /\ D \in Nat /\ V \in Nat /\ q \in Nat /\ r \in Nat
      /\ V > 0 /\ D = q * V + r /\ r < V
      /\ a = (IF a < 0 THEN -D ELSE D) /\ (b = V \/ b = -V)
  BY DEF Divided
<1>1. abs(a) = D /\ abs(b) = V
  BY <1>0
<1>2. D = V * q + r
  BY <1>0
<1>3. D \div V = q
  BY <1>0, <1>2, DivUnique
<1>4. Quotient(a, b) = IF (a < 0) # (b < 0) THEN -q ELSE q
  BY <1>1, <1>3 DEF Quotient
<1>5. CASE a < 0 /\ b < 0
  BY <1>0, <1>4, <1>5
<1>6. CASE a < 0 /\ ~(b < 0)
  BY <1>0, <1>4, <1>6
<1>7. CASE ~(a < 0) /\ b < 0
  BY <1>0, <1>4, <1>7
<1>8. CASE ~(a < 0) /\ ~(b < 0)
  BY <1>0, <1>4, <1>8
<1> QED BY <1>4, <1>5, <1>6, <1>7, <1>8

(* The value of a division, in the numbers that it divides.                *)
LEMMA DivValue ==
    ASSUME instr \in Instruction, any_div
    PROVE  Exact(instr) = IF div_div THEN Divide(Numerator, Denominator)
                                       ELSE Remainder(Numerator, Denominator)
<1>1. /\ Numerator = IF div_signed THEN Signed(instr.rs1, IF instr.word THEN WLEN ELSE XLEN)
                     ELSE Low(instr.rs1, IF instr.word THEN WLEN ELSE XLEN)
      /\ Denominator = IF div_signed THEN Signed(instr.rs2, IF instr.word THEN WLEN ELSE XLEN)
                       ELSE Low(instr.rs2, IF instr.word THEN WLEN ELSE XLEN)
  BY DEF Numerator, Denominator, rs1, rs2, width, op_word
<1>2. CASE op = "div"
  BY <1>1, <1>2 DEF Exact, op, div_div, div_signed
<1>3. CASE op = "divu"
  BY <1>1, <1>3 DEF Exact, op, div_div, div_signed
<1>4. CASE op = "rem"
  BY <1>1, <1>4 DEF Exact, op, div_div, div_signed
<1>5. CASE op = "remu"
  BY <1>1, <1>5 DEF Exact, op, div_div, div_signed
<1> QED BY <1>2, <1>3, <1>4, <1>5 DEF any_div, DivOps

(* The quotient or remainder, with its sign, is the result, division by    *)
(* zero and overflow included.                                             *)
LEMMA DivResult ==
    ASSUME instr \in Instruction, any_div, DataOK, Split(0, s_rs2, s_rs1)
    PROVE  result_div = Meaning(instr)
<1> DEFINE a == Numerator
           b == Denominator
           D == Dividend
           V == Divisor
           q == s_rs2
           r == s_rs1
           W == 2^width
           out == IF div_div THEN q ELSE r
           y == IF div_outsign THEN -out ELSE out
           z == Exact(instr)
<1>1. /\ D \in Nat /\ V \in Nat /\ a \in Int /\ b \in Int /\ W \in Nat /\ W > 0
      /\ a = IF div_sign_lhs THEN -D ELSE D
      /\ b = IF div_sign_rhs THEN -V ELSE V
      /\ a < 0 <=> div_sign_lhs
      /\ b < 0 <=> div_sign_rhs
      /\ V = 0 <=> Low(rs2, width) = 0
  BY DivOperands, WidthFacts
<1>2. r \in Nat /\ q \in Nat /\ D = q * V + r /\ (V # 0 => r < V) /\ (V = 0 => q = W - 1)
  <2>1. r \in Nat /\ q \in Nat
    BY Powers DEF DataOK
  <2>2. 2^0 = 1 /\ V * 1 = V
    BY <1>1, Pow
  <2> QED BY <2>1, <2>2 DEF Split
<1>3. z = IF div_div THEN Divide(a, b) ELSE Remainder(a, b)
  BY DivValue
<1>4. div_outsign <=> IF div_div THEN ~(div_sign_lhs <=> div_sign_rhs) /\ V # 0 ELSE div_sign_lhs
  <2>1. div_sign_lhs \in BOOLEAN /\ div_sign_rhs \in BOOLEAN
    BY DEF div_sign_lhs, div_sign_rhs, div_signed
  <2> QED BY <1>1, <2>1 DEF div_outsign
<1> HIDE DEF a, b, D, V, W, q, r
<1>5. z \in Int /\ Low(y, width) = Low(z, width)
  <2>1. CASE V = 0
    <3>1. b = 0
      BY <1>1, <2>1
    <3>2. CASE div_div
      <4>1. z = -1 /\ y = W - 1 /\ W - 1 = (-1) + W * 1
        BY <1>1, <1>2, <1>3, <1>4, <2>1, <3>1, <3>2 DEF Divide
      <4>2. Low((-1) + W * 1, width) = Low(-1, width)
        <5>1. -1 \in Int /\ 1 \in Int /\ width \in 0..(MLEN + 1)
          BY WidthFacts
        <5> QED BY <5>1, LowCongruent DEF W
      <4> HIDE DEF y, z
      <4> QED BY <4>1, <4>2
    <3>3. CASE ~div_div
      <4>1. r = D
        BY <1>1, <1>2, <2>1
      <4>2. z = a /\ y = IF div_sign_lhs THEN -D ELSE D
        BY <1>3, <1>4, <3>1, <3>3, <4>1 DEF Remainder
      <4> QED BY <1>1, <4>2
    <3> QED BY <3>2, <3>3
  <2>2. CASE V # 0
    <3>1. b # 0 /\ V > 0
      BY <1>1, <2>2
    <3>2. /\ Quotient(a, b) = IF (a < 0) # (b < 0) THEN -q ELSE q
          /\ a - b * Quotient(a, b) = IF a < 0 THEN -r ELSE r
      <4>1. Divided(a, b, D, V, q, r)
        BY <1>1, <1>2, <2>2, <3>1 DEF Divided
      <4> QED BY <4>1, SignedDivision
    <3>3. y = z
      <4>1. CASE div_div
        <5>1. z = Quotient(a, b)
          BY <1>3, <3>1, <4>1 DEF Divide
        <5> QED BY <1>1, <1>4, <2>2, <3>2, <4>1, <5>1
      <4>2. CASE ~div_div
        <5>1. z = a - b * Quotient(a, b)
          BY <1>3, <3>1, <4>2 DEF Remainder
        <5> QED BY <1>1, <1>4, <3>2, <4>2, <5>1
      <4> QED BY <4>1, <4>2
    <3>4. y \in Int
      BY <1>2
    <3> QED BY <3>3, <3>4
  <2> QED BY <2>1, <2>2
<1>6. Meaning(instr) = Sext(z, width)
  BY <1>5, MeaningIs
<1> DEFINE n == IF div_outsign THEN Neg(out, XLEN) ELSE out
<1>7. n \in Int /\ Low(n, width) = Low(y, width)
  <2>1. out \in Int
    BY <1>2
  <2>2. width \in 1..XLEN /\ XLEN \in 0..(MLEN + 1)
    BY WidthFacts, Widths
  <2> HIDE DEF out
  <2>3. Neg(out, XLEN) \in Int /\ Low(Neg(out, XLEN), width) = Low(-out, width)
    BY <2>1, <2>2, NegLow, NegType
  <2> QED BY <2>1, <2>3
<1>8. result_div = Sext(n, width)
  BY DEF result_div, q, r
<1> HIDE DEF n, y, z
<1>9. Sext(n, width) = Sext(z, width)
  BY <1>5, <1>7, WidthFacts, SextCongruent
<1> QED BY <1>6, <1>8, <1>9

-----------------------------------------------------------------------------
(* Numbers as sets of bits.                                                *)
LEMMA BitZero ==
    ASSUME NEW i \in 0..(MLEN + 1)
    PROVE  Bit(0, i) = 0
<1> DEFINE d == 2^i
<1>1. d \in Nat /\ d > 0
  BY Pow
<1> HIDE DEF d
<1>2. 0 = d * 0 + 0
  BY <1>1
<1>3. 0 \div d = 0
  BY <1>1, <1>2, DivUnique
<1>4. 0 % 2 = 0
  OBVIOUS
<1> QED BY <1>3, <1>4 DEF Bit, d

(* A bit on top leaves the others as they are.                             *)
LEMMA BitOnTop ==
    ASSUME NEW n \in 0..MLEN, NEW v \in 0..(2^n - 1), NEW c \in Int
    PROVE  /\ \A j \in 0..(n - 1) : Bit(v + 2^n * c, j) = Bit(v, j)
           /\ (v + 2^n * c) \div 2^n = c
<1>1. n \in 0..(MLEN + 1) /\ v \in Int /\ 2^n \in Nat /\ 2^n > 0 /\ v \in 0..(2^n - 1)
  BY Pow, Widths
<1>2. Low(v + 2^n * c, n) = Low(v, n)
  BY <1>1, LowCongruent
<1>3. v + 2^n * c \in Int
  BY <1>1
<1>4. \A j \in 0..(n - 1) : Bit(v + 2^n * c, j) = Bit(v, j)
  <2> TAKE j \in 0..(n - 1)
  <2>1. Bit(Low(v + 2^n * c, n), j) = Bit(v + 2^n * c, j)
    BY <1>1, <1>3, BitOfLow
  <2>2. Bit(Low(v, n), j) = Bit(v, j)
    BY <1>1, BitOfLow
  <2> QED BY <1>2, <2>1, <2>2
<1>5. (v + 2^n * c) \div 2^n = c
  <2> DEFINE d == 2^n
  <2>1. d \in Nat /\ d > 0 /\ v \in 0..(d - 1)
    BY <1>1
  <2> HIDE DEF d
  <2>2. v + d * c = d * c + v /\ v + d * c \in Int /\ v \in Int /\ 0 <= v /\ v < d
    BY <2>1
  <2>3. (v + d * c) \div d = c
    BY <2>1, <2>2, DivUnique
  <2> QED BY <2>3 DEF d
<1> QED BY <1>4, <1>5

(* The value of a set has the bits of the set.                             *)
LEMMA ValueBit ==
    ASSUME NEW bits, NEW j \in 0..(MLEN - 1)
    PROVE  Bit(Value(bits), j) = IF j \in bits THEN 1 ELSE 0
<1>1. PICK v : ValueUpto(bits, v)
  BY ValueLoop
<1> DEFINE S == {k \in Nat : /\ v[k] \in 0..(2^k - 1)
                             /\ \A i \in 0..(k - 1) : Bit(v[k], i) = IF i \in bits THEN 1 ELSE 0}
<1>2. 0 \in S
  <2>1. v[0] = 0 /\ 2^0 = 1 /\ 0..(0 - 1) = {}
    BY <1>1, Pow DEF ValueUpto
  <2> QED BY <2>1
<1>3. \A k \in 0..(MLEN - 1) : k \in S => k + 1 \in S
  <2> SUFFICES ASSUME NEW k \in 0..(MLEN - 1), k \in S PROVE k + 1 \in S
    OBVIOUS
  <2>1. k \in Nat /\ k + 1 \in 1..MLEN /\ (k + 1) - 1 = k /\ k \in 0..MLEN /\ k \in 0..(MLEN + 1)
        /\ 0..((k + 1) - 1) = (0..(k - 1)) \cup {k} /\ k + 1 \in Nat
    BY Widths
  <2> DEFINE c == IF k \in bits THEN 1 ELSE 0
             x == 2^k
             a == v[k]
  <2>2. x \in Nat /\ x > 0 /\ 2^(k + 1) = 2 * x /\ a \in 0..(x - 1)
    BY <2>1, Pow
  <2>3. v[k + 1] = a + (IF k \in bits THEN x ELSE 0)
    BY <1>1, <2>1 DEF ValueUpto
  <2>4. v[k + 1] = a + x * c /\ c \in Int
    <3> HIDE DEF a, x
    <3> QED BY <2>2, <2>3
  <2>5. v[k + 1] \in 0..(2^(k + 1) - 1)
    <3> HIDE DEF a, x
    <3> QED BY <2>2, <2>3
  <2>6. /\ \A i \in 0..(k - 1) : Bit(a + x * c, i) = Bit(a, i)
        /\ (a + x * c) \div x = c
    <3> HIDE DEF a, c
    <3> QED BY <2>1, <2>2, <2>4, BitOnTop
  <2>7. Bit(v[k + 1], k) = c
    <3>1. Bit(v[k + 1], k) = c % 2
      BY <2>4, <2>6 DEF Bit
    <3>2. c % 2 = c
      OBVIOUS
    <3> QED BY <3>1, <3>2
  <2>8. \A i \in 0..(k - 1) : Bit(v[k + 1], i) = IF i \in bits THEN 1 ELSE 0
    BY <2>4, <2>6
  <2> HIDE DEF x, a
  <2> QED BY <2>1, <2>5, <2>7, <2>8
<1> HIDE DEF S
<1>4. MLEN \in S
  BY <1>2, <1>3, BoundedInduction, Widths
<1> QED BY <1>1, <1>4 DEF S, ValueUpto

(* Numbers with the same bits are the same.                                *)
LEMMA SameBits ==
    ASSUME NEW x \in State, NEW y \in State, \A j \in 0..(MLEN - 1) : Bit(x, j) = Bit(y, j)
    PROVE  x = y
<1>1. x \in Int /\ y \in Int /\ MLEN \in Nat /\ MLEN \in 0..(MLEN + 1) /\ MLEN \in 0..MLEN
  BY Powers, Widths
<1> DEFINE S == {n \in Nat : Low(x, n) = Low(y, n)}
<1>2. 0 \in S
  <2>1. x % 1 = 0 /\ y % 1 = 0
    BY <1>1
  <2> QED BY <2>1, Pow DEF Low
<1>3. \A n \in 0..(MLEN - 1) : n \in S => n + 1 \in S
  <2> SUFFICES ASSUME NEW n \in 0..(MLEN - 1), n \in S PROVE n + 1 \in S
    OBVIOUS
  <2>1. n \in 0..MLEN /\ n + 1 \in Nat
    BY Widths
  <2>2. Low(x, n + 1) = Low(x, n) + 2^n * Bit(x, n) /\ Low(y, n + 1) = Low(y, n) + 2^n * Bit(y, n)
    BY <1>1, <2>1, LowStep
  <2> QED BY <2>1, <2>2
<1> HIDE DEF S
<1>4. MLEN \in S
  BY <1>1, <1>2, <1>3, BoundedInduction
<1>5. Low(x, MLEN) = x /\ Low(y, MLEN) = y
  BY <1>1, LowSmall DEF State
<1> QED BY <1>4, <1>5 DEF S

-----------------------------------------------------------------------------
(* The pairs of bits of a and of the low n bits of b whose positions add   *)
(* up to k, and a bit of the carry-less product so far.                    *)
Pairs(a, b, n, k) == {i \in 0..k : Bit(a, i) = 1 /\ k - i < n /\ Bit(b, k - i) = 1}

Parity(a, b, n, k) == Cardinality(Pairs(a, b, n, k)) % 2

(* There are finitely many pairs, ...                                      *)
LEMMA PairsFinite ==
    ASSUME NEW a, NEW b, NEW n \in Int, NEW k \in Int
    PROVE  IsFiniteSet(Pairs(a, b, n, k)) /\ Cardinality(Pairs(a, b, n, k)) \in Nat
<1>1. IsFiniteSet(0..k)
  BY FS_Interval
<1>2. Pairs(a, b, n, k) \in SUBSET (0..k)
  BY DEF Pairs
<1>3. IsFiniteSet(Pairs(a, b, n, k))
  BY <1>1, <1>2, FS_Subset
<1> QED BY <1>3, FS_CardinalityType

(* ... and none before the first bit of b.                                 *)
LEMMA ParityStart ==
    ASSUME NEW a, NEW b, NEW k \in Int
    PROVE  Parity(a, b, 0, k) = 0
<1>1. Pairs(a, b, 0, k) = {}
  BY DEF Pairs
<1>2. Cardinality(Pairs(a, b, 0, k)) = 0
  BY <1>1, FS_EmptySet
<1> QED BY <1>2 DEF Parity

(* The next bit of b makes one more pair, or none.                         *)
LEMMA ParityStep ==
    ASSUME NEW a, NEW b, NEW n \in Nat, NEW k \in Int
    PROVE  Parity(a, b, n + 1, k) =
             IF n <= k /\ Bit(a, k - n) = 1 /\ Bit(b, n) = 1
             THEN 1 - Parity(a, b, n, k) ELSE Parity(a, b, n, k)
<1> DEFINE P == Pairs(a, b, n, k)
           N == Pairs(a, b, n + 1, k)
           c == Cardinality(P)
<1>1. IsFiniteSet(P) /\ c \in Nat
  BY PairsFinite
<1>2. CASE n <= k /\ Bit(a, k - n) = 1 /\ Bit(b, n) = 1
  <2>1. N = P \cup {k - n}
    <3>1. k - n \in 0..k /\ k - (k - n) = n /\ n < n + 1 /\ ~(n < n)
      BY <1>2
    <3>2. \A i \in 0..k : k - i < n + 1 <=> k - i < n \/ i = k - n
      BY <1>2
    <3> QED BY <1>2, <3>1, <3>2 DEF Pairs
  <2>2. k - n \notin P
    <3>1. ~(k - (k - n) < n)
      BY <1>2
    <3> QED BY <3>1 DEF Pairs
  <2>3. Cardinality(N) = c + 1
    BY <1>1, <2>1, <2>2, FS_AddElement
  <2> HIDE DEF c, N, P
  <2>4. (c + 1) % 2 = 1 - (c % 2)
    BY <1>1
  <2> QED BY <1>2, <2>3, <2>4 DEF Parity, c, N, P
<1>3. CASE ~(n <= k /\ Bit(a, k - n) = 1 /\ Bit(b, n) = 1)
  <2>1. N = P
    <3>1. \A i \in 0..k : k - i < n + 1 <=> k - i < n \/ i = k - n
      OBVIOUS
    <3>2. \A i \in 0..k : i = k - n => k - i = n /\ n <= k
      OBVIOUS
    <3> QED BY <1>3, <3>1, <3>2 DEF Pairs
  <2> QED BY <1>3, <2>1 DEF Parity
<1> QED BY <1>2, <1>3

(* A register has no bit above it.                                         *)
LEMMA NoBitAbove ==
    ASSUME NEW v \in Register, NEW i \in Nat, i >= XLEN, i <= MLEN
    PROVE  Bit(v, i) = 0
<1>1. XLEN \in Nat /\ i <= MLEN + 1 /\ i \in 0..(MLEN + 1)
  BY Widths
<1> DEFINE d == 2^i
           p == 2^XLEN
<1>2. p \in Nat /\ d \in Nat /\ p <= d /\ v \in 0..(p - 1)
  BY <1>1, PowOrder DEF Register
<1> HIDE DEF d, p
<1>3. v \in Int /\ v = d * 0 + v /\ 0 <= v /\ v < d /\ d > 0
  BY <1>2
<1>4. v \div d = 0
  BY <1>2, <1>3, DivUnique
<1>5. 0 % 2 = 0
  OBVIOUS
<1> QED BY <1>4, <1>5 DEF Bit, d

(* Beyond the top bits there is no pair.                                   *)
LEMMA ParityTop ==
    ASSUME NEW a \in Register, NEW b, NEW n \in 0..XLEN, NEW k \in Int, k >= XLEN + n - 1, k < MLEN, n > 0
    PROVE  Parity(a, b, n, k) = 0
<1>1. XLEN \in Nat
  BY Widths
<1>2. \A i \in 0..k : ~(Bit(a, i) = 1 /\ k - i < n)
  <2> SUFFICES ASSUME NEW i \in 0..k, k - i < n PROVE Bit(a, i) # 1
    OBVIOUS
  <2>1. i \in Nat /\ i >= XLEN /\ i <= MLEN
    BY <1>1, Widths
  <2>2. Bit(a, i) = 0
    BY <2>1, NoBitAbove
  <2> QED BY <2>2
<1>3. Pairs(a, b, n, k) = {}
  BY <1>2 DEF Pairs
<1>4. Cardinality(Pairs(a, b, n, k)) = 0
  BY <1>3, FS_EmptySet
<1> QED BY <1>4 DEF Parity

-----------------------------------------------------------------------------
(* The carry-less product by its bits.                                     *)
LEMMA CarrylessBits ==
    ASSUME NEW a \in Register, NEW b \in Register
    PROVE  /\ CarrylessProduct(a, b) \in State
           /\ \A k \in 0..(MLEN - 1) : Bit(CarrylessProduct(a, b), k) = Parity(a, b, XLEN, k)
<1> DEFINE pairs(k) == {i \in 0..k : Bit(a, i) = 1 /\ Bit(b, k - i) = 1}
           B == {k \in 0..(MLEN - 1) : Cardinality(pairs(k)) % 2 = 1}
<1>1. CarrylessProduct(a, b) = Value(B)
  BY DEF CarrylessProduct
<1>2. Value(B) \in State
  <2>1. B \subseteq 0..(MLEN - 1) /\ MLEN \in 0..MLEN
    BY Widths
  <2> QED BY <2>1, ValueBound DEF State
<1>3. ASSUME NEW k \in 0..(MLEN - 1) PROVE Bit(Value(B), k) = Parity(a, b, XLEN, k)
  <2>1. pairs(k) = Pairs(a, b, XLEN, k)
    <3>1. \A i \in 0..k : Bit(b, k - i) = 1 => k - i < XLEN
      <4> SUFFICES ASSUME NEW i \in 0..k, ~(k - i < XLEN) PROVE Bit(b, k - i) # 1
        OBVIOUS
      <4>1. k - i \in Nat /\ k - i >= XLEN /\ k - i <= MLEN
        BY Widths
      <4>2. Bit(b, k - i) = 0
        BY <4>1, NoBitAbove
      <4> QED BY <4>2
    <3> QED BY <3>1 DEF Pairs
  <2>2. Bit(Value(B), k) = IF k \in B THEN 1 ELSE 0
    BY ValueBit
  <2>3. k \in B <=> Parity(a, b, XLEN, k) = 1
    BY <2>1 DEF Parity
  <2>4. Parity(a, b, XLEN, k) \in {0, 1}
    <3>1. Cardinality(Pairs(a, b, XLEN, k)) \in Nat
      BY PairsFinite, Widths
    <3> QED BY <3>1 DEF Parity
  <2> QED BY <2>2, <2>3, <2>4
<1> QED BY <1>1, <1>2, <1>3

(* What a step of the carry-less multiplier does to each bit.              *)
LEMMA ClmulBit ==
    ASSUME s_rs1 \in Register, NEW acc \in State, NEW i \in 0..(XLEN - 1), NEW j \in 0..(MLEN - 1)
    PROVE  Bit(clmul_add(acc, i), j) =
             IF j = MLEN - 1 THEN 0
             ELSE IF j >= XLEN - 1 /\ Bit(s_rs1, j + 1 - XLEN) = 1 /\ Bit(s_rs2, i) = 1
             THEN 1 - Bit(acc, j + 1) ELSE Bit(acc, j + 1)
<1>0. /\ XLEN \in Nat /\ XLEN >= 1 /\ MLEN = 2 * XLEN /\ XLEN - 1 \in 0..MLEN /\ XLEN - 1 \in Nat
      /\ XLEN - 1 \in 0..(MLEN + 1) /\ XLEN \in 0..(MLEN + 1) /\ XLEN \in 0..MLEN
      /\ acc \in Int /\ acc \in Nat /\ s_rs1 \in Int
  BY Widths, Powers
<1> DEFINE rhs == IF Bit(s_rs2, i) = 1 THEN s_rs1 ELSE 0
           B == SymDiff(Bits(acc \div 2^XLEN), Bits(rhs))
           sum == Value(B)
           h == 2^(XLEN - 1)
           t == Low(acc, XLEN) \div 2
           new == t + h * sum
<1>1. B \subseteq 0..(XLEN - 1)
  BY DEF Bits, SymDiff
<1>2. sum \in Nat /\ sum \in Int
  <2>1. sum \in 0..(2^XLEN - 1)
    BY <1>0, <1>1, ValueBound
  <2> QED BY <2>1
<1>3. h \in Nat /\ h > 0 /\ t \in 0..(h - 1) /\ t \in Int
  <2> DEFINE l == Low(acc, XLEN)
  <2>1. h \in Nat /\ h > 0 /\ 2^XLEN = 2 * h /\ l \in 0..(2 * h - 1)
    BY <1>0, Powers, LowType
  <2> HIDE DEF h, l
  <2>2. l \div 2 \in 0..(h - 1)
    BY <2>1
  <2> QED BY <2>1, <2>2 DEF l
<1>4. clmul_add(acc, i) = new
  <2>1. clmul_add(acc, i) = sum * h + t
    BY DEF clmul_add
  <2> HIDE DEF sum, h, t
  <2> QED BY <1>2, <1>3, <2>1
<1>5. /\ \A m \in 0..((XLEN - 1) - 1) : Bit(new, m) = Bit(t, m)
      /\ new \div h = sum
  <2> HIDE DEF sum, t
  <2> QED BY <1>0, <1>2, <1>3, BitOnTop
<1>6. new \in Int
  <2> HIDE DEF sum, t, h
  <2> QED BY <1>2, <1>3
<1>7. CASE j < XLEN - 1
  <2>1. Bit(new, j) = Bit(t, j)
    BY <1>0, <1>5, <1>7
  <2>2. 2^1 = 2
    <3>1. 0 \in 0..MLEN /\ 0 + 1 = 1
      BY Widths
    <3> QED BY <3>1, Pow
  <2>3. Bit(t, j) = Bit(Low(acc, XLEN), 1 + j)
    <3>1. Low(acc, XLEN) \in Int /\ j \in Nat /\ 1 + j <= MLEN + 1
      BY <1>0, <1>7, LowType
    <3> QED BY <2>2, <3>1, BitShift
  <2>4. Bit(Low(acc, XLEN), 1 + j) = Bit(acc, 1 + j)
    BY <1>0, <1>7, BitOfLow
  <2>5. 1 + j = j + 1 /\ ~(j >= XLEN - 1) /\ j # MLEN - 1
    BY <1>0, <1>7
  <2> QED BY <1>4, <2>1, <2>3, <2>4, <2>5
<1>8. CASE j >= XLEN - 1
  <2> DEFINE m == j - (XLEN - 1)
  <2>1. m \in Nat /\ m \in 0..XLEN /\ m \in 0..(MLEN + 1) /\ (XLEN - 1) + m = j /\ j <= MLEN + 1
        /\ m = j + 1 - XLEN /\ (m = XLEN <=> j = MLEN - 1)
    BY <1>0, <1>8
  <2> HIDE DEF m
  <2>2. Bit(new, j) = Bit(new \div h, m)
    <3> HIDE DEF new
    <3> QED BY <1>0, <1>6, <2>1, BitShift
  <2>3. Bit(new, j) = Bit(sum, m)
    BY <1>5, <2>2
  <2>4. Bit(sum, m) = IF m \in B THEN 1 ELSE 0
    <3>1. CASE m \in 0..(MLEN - 1)
      BY <3>1, ValueBit
    <3>2. CASE m \notin 0..(MLEN - 1)
      BY <1>0, <2>1, <3>2
    <3> QED BY <3>1, <3>2
  <2>5. CASE m = XLEN
    BY <1>0, <1>1, <1>4, <2>1, <2>3, <2>4, <2>5
  <2>6. CASE m # XLEN
    <3>1. m \in 0..(XLEN - 1) /\ XLEN + m = j + 1 /\ XLEN + m <= MLEN + 1 /\ j # MLEN - 1
          /\ XLEN + m \in 0..(MLEN + 1)
      BY <1>0, <2>1, <2>6
    <3>2. Bit(acc \div 2^XLEN, m) = Bit(acc, j + 1) /\ Bit(acc, j + 1) \in {0, 1}
      BY <1>0, <2>1, <3>1, BitShift, BitType
    <3>3. m \in Bits(acc \div 2^XLEN) <=> Bit(acc, j + 1) = 1
      BY <3>1, <3>2 DEF Bits
    <3>4. m \in Bits(rhs) <=> Bit(s_rs1, m) = 1 /\ Bit(s_rs2, i) = 1
      BY <2>1, <3>1, BitZero DEF Bits
    <3>5. m \in B <=> ~(m \in Bits(acc \div 2^XLEN) <=> m \in Bits(rhs))
      BY DEF SymDiff
    <3> HIDE DEF B, rhs, new, sum
    <3> QED BY <1>4, <1>8, <2>1, <2>3, <2>4, <3>1, <3>2, <3>3, <3>4, <3>5
  <2> QED BY <2>5, <2>6
<1> QED BY <1>0, <1>7, <1>8

-----------------------------------------------------------------------------
(* A number that holds the carry-less product of rs1 and n bits of rs2,    *)
(* XLEN - n bits up.                                                       *)
Partial(v, n) ==
    \A j \in 0..(MLEN - 1) : Bit(v, j) = Parity(rs1, rs2, n, j - (XLEN - n))

(* The carry-less multiplier when n bits of the operand have been retired. *)
ClmulAt(n) ==
    /\ clmul_run => s_rs1 = rs1 /\ s_rs2 = rs2 \div 2^n
    /\ Partial(mdu_state, n)

ClmulData ==
    any_clmul =>
        \A n \in 0..XLEN :
            (clmul_run /\ n = XLEN - mdu_ctr) \/ (clmul_done /\ n = XLEN) => ClmulAt(n)

(* A step of the source adds the pairs of one more bit.                    *)
LEMMA PartialStep ==
    ASSUME instr \in Instruction, s_rs1 = rs1, NEW acc \in State, NEW n \in 0..(XLEN - 1),
           NEW i \in 0..(XLEN - 1), Bit(s_rs2, i) = Bit(rs2, n), Partial(acc, n)
    PROVE  Partial(clmul_add(acc, i), n + 1)
<1>1. rs1 \in Register /\ rs2 \in Register /\ XLEN \in Nat /\ MLEN = 2 * XLEN /\ n \in Nat
  BY OperandType, Widths
<1> SUFFICES ASSUME NEW j \in 0..(MLEN - 1)
             PROVE  Bit(clmul_add(acc, i), j) = Parity(rs1, rs2, n + 1, j - (XLEN - (n + 1)))
  BY DEF Partial
<1> DEFINE k == j - (XLEN - (n + 1))
<1>2. Bit(clmul_add(acc, i), j) =
             IF j = MLEN - 1 THEN 0
             ELSE IF j >= XLEN - 1 /\ Bit(rs1, j + 1 - XLEN) = 1 /\ Bit(rs2, n) = 1
             THEN 1 - Bit(acc, j + 1) ELSE Bit(acc, j + 1)
  BY <1>1, ClmulBit
<1>3. CASE j = MLEN - 1
  <2>1. k \in Int /\ k >= XLEN + (n + 1) - 1 /\ k < MLEN /\ n + 1 > 0 /\ n + 1 \in 0..XLEN
    BY <1>1, <1>3
  <2>2. Parity(rs1, rs2, n + 1, k) = 0
    BY <1>1, <2>1, ParityTop
  <2> QED BY <1>2, <1>3, <2>2
<1>4. CASE j # MLEN - 1
  <2>1. /\ j + 1 \in 0..(MLEN - 1) /\ (j + 1) - (XLEN - n) = k /\ k \in Int
        /\ k - n = j + 1 - XLEN /\ (n <= k <=> j >= XLEN - 1)
    BY <1>1, <1>4
  <2>2. Bit(acc, j + 1) = Parity(rs1, rs2, n, k)
    BY <2>1 DEF Partial
  <2>3. Parity(rs1, rs2, n + 1, k) =
             IF n <= k /\ Bit(rs1, k - n) = 1 /\ Bit(rs2, n) = 1
             THEN 1 - Parity(rs1, rs2, n, k) ELSE Parity(rs1, rs2, n, k)
    BY <1>1, <2>1, ParityStep
  <2> HIDE DEF k
  <2>4. Bit(clmul_add(acc, i), j) = Parity(rs1, rs2, n + 1, k)
    BY <1>2, <1>4, <2>1, <2>2, <2>3
  <2> QED BY <2>4 DEF k
<1> QED BY <1>3, <1>4

(* A cycle retires CLMUL_UNROLL bits.                                      *)
LEMMA ClmulRound ==
    ASSUME DataOK, instr \in Instruction, NEW n \in 0..XLEN, n + CLMUL_UNROLL <= XLEN,
           s_rs1 = rs1, s_rs2 = rs2 \div 2^n, Partial(mdu_state, n)
    PROVE  Partial(n_clmul_state, n + CLMUL_UNROLL)
<1>1. /\ s_rs1 \in Register /\ s_rs2 \in Register /\ mdu_state \in State /\ width \in 1..XLEN
      /\ CLMUL_UNROLL \in Nat /\ XLEN \in Nat /\ n \in Nat
  BY InstrType, Widths DEF DataOK
<1>2. PICK a : ClmulUpto(a)
  BY <1>1, ClmulLoop
<1> DEFINE S == {i \in Nat : Partial(a[i], n + i)}
<1>3. 0 \in S
  <2>1. n + 0 = n
    BY <1>1
  <2> QED BY <1>2, <2>1 DEF ClmulUpto
<1>4. \A i \in 0..(CLMUL_UNROLL - 1) : i \in S => i + 1 \in S
  <2> SUFFICES ASSUME NEW i \in 0..(CLMUL_UNROLL - 1), i \in S PROVE i + 1 \in S
    OBVIOUS
  <2>1. /\ i \in Nat /\ i + 1 \in 1..CLMUL_UNROLL /\ (i + 1) - 1 = i /\ i \in 0..(XLEN - 1)
        /\ i \in 0..CLMUL_UNROLL
        /\ n + i \in 0..(XLEN - 1) /\ n + i <= MLEN + 1 /\ (n + i) + 1 = n + (i + 1)
    BY <1>1, Widths
  <2>2. a[i + 1] = clmul_add(a[i], i) /\ a[i] \in State
    BY <1>2, <2>1 DEF ClmulUpto
  <2>3. Bit(s_rs2, i) = Bit(rs2, n + i)
    BY <1>1, <2>1, BitShift, OperandType
  <2>4. Partial(a[i], n + i)
    OBVIOUS
  <2>5. Partial(clmul_add(a[i], i), (n + i) + 1)
    BY <2>1, <2>2, <2>3, <2>4, PartialStep
  <2> QED BY <2>1, <2>2, <2>5
<1> HIDE DEF S
<1>5. CLMUL_UNROLL \in S
  BY <1>1, <1>3, <1>4, BoundedInduction
<1> QED BY <1>2, <1>5 DEF ClmulUpto, S

(* An accumulator of zero holds the product with no bit.                   *)
LEMMA PartialStart ==
    Partial(0, 0)
<1> SUFFICES ASSUME NEW j \in 0..(MLEN - 1)
             PROVE  Bit(0, j) = Parity(rs1, rs2, 0, j - (XLEN - 0))
  BY DEF Partial
<1>1. j \in 0..(MLEN + 1) /\ j - (XLEN - 0) \in Int
  BY Widths
<1> QED BY <1>1, BitZero, ParityStart

(* Each cycle of a carry-less multiplication keeps its accumulator the     *)
(* product so far.                                                         *)
LEMMA ClmulDataStep ==
    ASSUME UnrollsFit, CLMUL_UNROLL # 1, TypeOK, TimingInv, InStep, any_clmul, UnitClock,
           instr' = instr, ClmulData
    PROVE  ClmulData'
<1>1. instr \in Instruction /\ DataOK
  BY Decoded, TypeParts DEF TimingInv, mdu_valid
<1>2. /\ ~any_mul /\ ~any_div /\ ~div_start /\ ~div_run /\ ~mul_run /\ ~n_div_start /\ ~mul_start
  BY <1>1, Decoded DEF InStep, n_div_start, mul_start
<1>3. /\ width = XLEN /\ XLEN \in Nat /\ XLEN \in 0..XLEN
      /\ CLMUL_UNROLL \in Nat /\ CLMUL_UNROLL >= 1
  <2>1. ~op_word
    BY <1>1 DEF any_clmul, ClmulOps, op, op_word, Instruction, DivOps
  <2> QED BY <2>1, Widths DEF width
<1>4. /\ any_clmul' /\ rs1' = rs1 /\ rs2' = rs2
      /\ \A n \in 0..XLEN : Partial(mdu_state, n)' <=>
            \A j \in 0..(MLEN - 1) : Bit(mdu_state', j) = Parity(rs1, rs2, n, j - (XLEN - n))
  BY DEF any_clmul, rs1, rs2, op, Partial, Bit, Parity, Pairs
<1>5. SUFFICES ASSUME NEW n \in 0..XLEN,
                      (clmul_run' /\ n = XLEN - mdu_ctr') \/ (clmul_done' /\ n = XLEN),
                      NEW v, v = mdu_state'
               PROVE  /\ clmul_run' => s_rs1' = rs1 /\ s_rs2' = rs2 \div 2^n
                      /\ Partial(v, n)
  BY <1>4 DEF ClmulData, ClmulAt, Partial
<1>6. Control /\ StorageClock
  BY DEF UnitClock, Control
<1>7. CASE ~clmul_run /\ ~clmul_done
  <2>1. clmul_start /\ mdu_start
    BY <1>7 DEF clmul_start, mdu_start
  <2>2. clmul_run' /\ ~clmul_done' /\ mdu_ctr' = XLEN
    BY <1>3, <1>6, <2>1, Zenon DEF Control, ClmulClock, CounterClock, n_mdu_ctr
  <2>3. s_rs1' = rs1 /\ s_rs2' = rs2 /\ v = 0
    BY <1>2, <1>5, <1>6, <2>1, Zenon DEF StorageClock
  <2>4. n = 0
    BY <1>3, <1>5, <2>2
  <2>5. rs2 \div 2^0 = rs2
    <3>1. rs2 \in Int /\ 2^0 = 1
      BY <1>1, OperandType, Pow
    <3>2. rs2 \div 1 = rs2
      BY <3>1
    <3> QED BY <3>1, <3>2
  <2> QED BY <2>3, <2>4, <2>5, PartialStart
<1>8. CASE clmul_run
  <2>1. mdu_run /\ ~clmul_done
    BY <1>1, <1>8, LatencyBound DEF InStep, TimingInv
  <2>2. End(instr) = 0 /\ Unroll(instr) = CLMUL_UNROLL /\ mdu_step = CLMUL_UNROLL
        /\ (mdu_end <=> mdu_ctr = 0)
    BY <1>2 DEF End, Unroll, mdu_step, mdu_end, any_mul, any_clmul, op, CLMUL_END
  <2>3. /\ mdu_ctr \in Nat /\ mdu_ctr <= XLEN
        /\ mdu_ctr # 0 => /\ mdu_ctr >= CLMUL_UNROLL
                          /\ (mdu_ctr - CLMUL_UNROLL) % MLEN = mdu_ctr - CLMUL_UNROLL
    BY <1>3, <2>1, <2>2, RunningCount
  <2> DEFINE m == XLEN - mdu_ctr
  <2>4. m \in 0..XLEN /\ m \in Nat
    BY <1>3, <2>3
  <2>5. s_rs1 = rs1 /\ s_rs2 = rs2 \div 2^m /\ Partial(mdu_state, m)
    BY <1>8, <2>4 DEF ClmulData, ClmulAt
  <2>6. ~clmul_start /\ ~mdu_start
    BY <1>2, <1>8 DEF clmul_start, mdu_start
  <2>7. /\ s_rs1' = s_rs1 /\ s_rs2' = s_rs2 \div 2^CLMUL_UNROLL
        /\ v = IF n_clmul_done /\ CLMUL_UNROLL # 1 THEN mdu_state ELSE n_clmul_state
    BY <1>2, <1>5, <1>6, <1>8, <2>6, Zenon DEF StorageClock
  <2>8. /\ clmul_run' <=> mdu_ctr # 0
        /\ clmul_done' <=> mdu_ctr = 0
        /\ n_clmul_done <=> mdu_ctr = 0
        /\ mdu_ctr # 0 => mdu_ctr' = (mdu_ctr - CLMUL_UNROLL) % MLEN
    BY <1>6, <1>8, <2>1, <2>2, <2>6 DEF Control, ClmulClock, CounterClock, n_clmul_done, n_mdu_ctr, CLMUL_END
  <2>9. CASE mdu_ctr # 0
    <3>1. n = m + CLMUL_UNROLL /\ m + CLMUL_UNROLL <= XLEN
      BY <1>3, <1>5, <2>2, <2>3, <2>8, <2>9
    <3> HIDE DEF m
    <3>2. Partial(v, n)
      BY <1>1, <2>4, <2>5, <2>7, <2>8, <2>9, <3>1, ClmulRound
    <3>3. (rs2 \div 2^m) \div 2^CLMUL_UNROLL = rs2 \div 2^(m + CLMUL_UNROLL)
      <4>1. m + CLMUL_UNROLL <= MLEN + 1 /\ rs2 \in Int
        BY <1>1, <1>3, <2>4, <3>1, OperandType, Widths
      <4> QED BY <1>3, <2>4, <4>1, ShiftShift
    <3> QED BY <2>5, <2>7, <3>1, <3>2, <3>3
  <2>10. CASE mdu_ctr = 0
    <3>1. n = XLEN /\ m = XLEN /\ ~clmul_run'
      BY <1>3, <1>5, <2>3, <2>8, <2>10
    <3>2. v = mdu_state
      BY <2>7, <2>8, <2>10
    <3> QED BY <2>5, <3>1, <3>2
  <2> QED BY <2>9, <2>10
<1>9. CASE ~clmul_run /\ clmul_done
  <2>1. ~clmul_start
    BY <1>9 DEF clmul_start
  <2>2. v = mdu_state /\ ~clmul_run'
    BY <1>2, <1>5, <1>6, <1>9, <2>1 DEF StorageClock, Control, ClmulClock
  <2>3. n = XLEN /\ Partial(mdu_state, n)
    BY <1>3, <1>5, <1>9, <2>2 DEF ClmulData, ClmulAt
  <2> QED BY <2>2, <2>3
<1> QED BY <1>7, <1>8, <1>9

(* The whole carry-less product, cut to its half, is the result.           *)
LEMMA ClmulResult ==
    ASSUME instr \in Instruction, any_clmul, DataOK, Partial(mdu_state, XLEN)
    PROVE  result_clmul = Meaning(instr)
<1>1. /\ rs1 \in Register /\ rs2 \in Register /\ rs1 \in 0..(2^XLEN - 1) /\ rs2 \in 0..(2^XLEN - 1)
      /\ XLEN \in 0..(MLEN + 1) /\ XLEN \in Nat /\ mdu_state \in State /\ mdu_state \in Int
  BY OperandType, Widths, Powers DEF DataOK
<1>2. ~op_word /\ width = XLEN
  BY DEF any_clmul, ClmulOps, op, op_word, Instruction, DivOps, width
<1>3. mdu_state = CarrylessProduct(rs1, rs2)
  <2>1. \A j \in 0..(MLEN - 1) : Bit(mdu_state, j) = Bit(CarrylessProduct(rs1, rs2), j)
    <3> TAKE j \in 0..(MLEN - 1)
    <3>1. j - (XLEN - XLEN) = j
      BY <1>1, Widths
    <3>2. Bit(mdu_state, j) = Parity(rs1, rs2, XLEN, j)
      BY <3>1 DEF Partial
    <3> QED BY <1>1, <3>2, CarrylessBits
  <2>2. CarrylessProduct(rs1, rs2) \in State
    BY <1>1, CarrylessBits
  <2> QED BY <1>1, <2>1, <2>2, SameBits
<1>4. Low(rs1, XLEN) = rs1 /\ Low(rs2, XLEN) = rs2
  BY <1>1, LowSmall
<1>5. Exact(instr) = IF op = "clmul" THEN mdu_state ELSE mdu_state \div 2^XLEN
  <2>1. CASE op = "clmul"
    BY <1>2, <1>3, <1>4, <2>1 DEF Exact, op, op_word, rs1, rs2
  <2>2. CASE op = "clmulh"
    BY <1>2, <1>3, <1>4, <2>2 DEF Exact, op, op_word, rs1, rs2
  <2> QED BY <2>1, <2>2 DEF any_clmul, ClmulOps
<1> DEFINE p == 2^XLEN
           u == mdu_state \div 2^XLEN
<1>6. u \in 0..(p - 1) /\ u \in Int
  <2>1. p \in Nat /\ p > 0 /\ mdu_state \in Nat /\ mdu_state < p * p
    BY <1>1, Powers DEF State
  <2> HIDE DEF p
  <2>2. mdu_state \div p \in 0..(p - 1)
    BY <2>1, DivBound
  <2>3. mdu_state \div p \in Int
    BY <2>1, <2>2
  <2> QED BY <2>2, <2>3 DEF p
<1>7. Low(u, XLEN) = u
  BY <1>1, <1>6, LowSmall
<1>8. Meaning(instr) = IF op = "clmul" THEN Low(mdu_state, XLEN) ELSE u
  BY <1>1, <1>2, <1>5, <1>6, <1>7, MeaningIs, SextFull
<1> QED BY <1>8 DEF result_clmul, any_clmul, ClmulOps

-----------------------------------------------------------------------------
(* The inductive invariant of the results.                                 *)
Holds == MulData /\ ClmulData /\ DivData

DataInv ==
    /\ TypeOK /\ TimingInv
    /\ ~stale => Holds

(* Nothing runs and nothing is done for an instruction that has arrived.   *)
LEMMA ArrivedHolds ==
    UnrollsFit /\ TimingInv /\ InStep /\ cycles = 0 => Holds
<1> SUFFICES ASSUME UnrollsFit, TimingInv, InStep, cycles = 0 PROVE Holds
  OBVIOUS
<1>1. CASE ~mdu_valid
  BY <1>1 DEF Holds, MulData, ClmulData, DivData, mdu_valid
<1>2. CASE mdu_valid
  <2>1. instr \in Instruction
    BY <1>2, Decoded DEF TimingInv
  <2>2. Latency(instr) \in Nat /\ Latency(instr) > 0
    BY <2>1, LatencyFacts DEF Left, Lead
  <2>3. ~mul_run /\ ~mul_done /\ ~clmul_run /\ ~clmul_done /\ ~div_start /\ ~div_run /\ ~div_done
    BY <2>2 DEF InStep
  <2> QED BY <2>3 DEF Holds, MulData, ClmulData, DivData
<1> QED BY <1>1, <1>2

(* Every step keeps the data of the operation in execute.                  *)
LEMMA HoldsNext ==
    ASSUME UnrollsFit, CLMUL_UNROLL # 1, DataInv, [Next]_vars, ~stale'
    PROVE  Holds'
<1>1. TimingInv'
  BY TimingNext DEF DataInv
<1>2. InStep' /\ (cycles' = 0 => Holds')
  <2>1. InStep'
    BY <1>1 DEF TimingInv
  <2>2. (UnrollsFit /\ TimingInv /\ InStep /\ cycles = 0 => Holds)'
    BY ArrivedHolds, PTL
  <2>3. UnrollsFit'
    BY DEF UnrollsFit, WLEN
  <2> QED BY <1>1, <2>1, <2>2, <2>3
<1>3. CASE Idle
  BY <1>2, <1>3 DEF Idle
<1>4. CASE Wait
  <2>1. UnitClock /\ instr' = instr /\ ~stale /\ mdu_valid
    BY <1>4 DEF Wait
  <2>2. TypeOK /\ TimingInv /\ InStep /\ MulData /\ ClmulData /\ DivData
    BY <2>1 DEF DataInv, TimingInv, Holds
  <2>3. (any_mul' <=> any_mul) /\ (any_clmul' <=> any_clmul) /\ (any_div' <=> any_div)
    BY <2>1 DEF any_mul, any_clmul, any_div, op
  <2>4. MulData' /\ ClmulData' /\ DivData'
    <3>1. MulData'
      <4>1. CASE any_mul
        BY <2>1, <2>2, <4>1, MulDataStep
      <4>2. CASE ~any_mul
        BY <2>3, <4>2 DEF MulData
      <4> QED BY <4>1, <4>2
    <3>2. ClmulData'
      <4>1. CASE any_clmul
        BY <2>1, <2>2, <4>1, ClmulDataStep
      <4>2. CASE ~any_clmul
        BY <2>3, <4>2 DEF ClmulData
      <4> QED BY <4>1, <4>2
    <3>3. DivData'
      <4>1. CASE any_div
        BY <2>1, <2>2, <4>1, DivDataStep
      <4>2. CASE ~any_div
        BY <2>3, <4>2 DEF DivData
      <4> QED BY <4>1, <4>2
    <3> QED BY <3>1, <3>2, <3>3
  <2> QED BY <2>4 DEF Holds
<1>5. CASE Retire
  BY <1>2, <1>5 DEF Retire
<1>6. CASE Interrupt
  BY <1>6 DEF Interrupt
<1>7. CASE UNCHANGED vars
  <2>1. /\ instr' = instr /\ s_rs1' = s_rs1 /\ s_rs2' = s_rs2 /\ mdu_state' = mdu_state
        /\ mdu_ctr' = mdu_ctr /\ mul_run' = mul_run /\ mul_done' = mul_done
        /\ clmul_run' = clmul_run /\ clmul_done' = clmul_done /\ div_start' = div_start
        /\ div_run' = div_run /\ div_done' = div_done /\ stale' = stale
    BY <1>7 DEF vars, unit
  <2>2. MulData /\ ClmulData /\ DivData
    BY <2>1 DEF DataInv, Holds
  <2>3. MulData'
    BY <2>1, <2>2 DEF MulData, MulAt, any_mul, rs1, rs2, width, op, op_word, Product, Multiplicand,
        Multiplier, lhs_signed, rhs_signed
  <2>4. ClmulData'
    BY <2>1, <2>2 DEF ClmulData, ClmulAt, any_clmul, rs1, rs2, op, Partial
  <2>5. DivData'
    BY <2>1, <2>2, SameOperands DEF DivData, DivAt, Split
  <2> QED BY <2>3, <2>4, <2>5 DEF Holds
<1> QED BY <1>3, <1>4, <1>5, <1>6, <1>7 DEF Next

(* The registers of the unit hold the product, the carry-less product or   *)
(* the quotient and remainder of the operands so far, in every cycle of    *)
(* every operation (core_pipe_exec_mdu.sv:142-174,191-245,306-420).        *)
THEOREM MduDataInvariant ==
    ASSUME UnrollsFit, CLMUL_UNROLL # 1
    PROVE  Spec => []DataInv
<1>1. Init => DataInv
  <2> SUFFICES ASSUME Init PROVE DataInv
    OBVIOUS
  <2>1. TypeOK /\ TimingInv
    BY TypeInit, TimingInit
  <2>2. InStep /\ cycles = 0
    BY <2>1 DEF Init, TimingInv
  <2> QED BY <2>1, <2>2, ArrivedHolds DEF DataInv
<1>2. DataInv /\ [Next]_vars => DataInv'
  BY TypeNext, TimingNext, HoldsNext DEF DataInv
<1> QED BY <1>1, <1>2, PTL DEF Spec

(* Every result is what the instruction means: products of each sign,      *)
(* carry-less products, quotients and remainders with division by zero and *)
(* overflow, of words and of registers of every width, for every operand,  *)
(* and whatever was computed before (core_pipe_exec_mdu.sv:68-107).  The   *)
(* carry-less multiplier must retire more than one bit in a cycle; the     *)
(* source has 8.                                                           *)
THEOREM MduResultIsMeaning ==
    ASSUME UnrollsFit, CLMUL_UNROLL # 1
    PROVE  Spec => []ResultIsMeaning
<1>1. DataInv => ResultIsMeaning
  <2> SUFFICES ASSUME DataInv, mdu_valid, mdu_ready, ~stale PROVE rd = Meaning(instr)
    BY DEF ResultIsMeaning
  <2>1. instr \in Instruction /\ DataOK /\ MulData /\ ClmulData /\ DivData
    BY Decoded, TypeParts DEF DataInv, TimingInv, Holds
  <2>2. width \in 0..XLEN /\ XLEN \in 0..XLEN
    BY <2>1, WidthFacts, Widths
  <2>3. CASE any_mul
    <3>1. mul_done
      BY <2>1, <2>3, Decoded DEF mdu_ready
    <3>2. mdu_state = Low(Product(width), MLEN)
      BY <2>1, <2>2, <2>3, <3>1 DEF MulData, MulAt
    <3> QED BY <2>1, <2>3, <3>2, MulResult DEF rd
  <2>4. CASE any_clmul
    <3>1. clmul_done /\ ~any_mul
      BY <2>1, <2>4, Decoded DEF mdu_ready
    <3>2. Partial(mdu_state, XLEN)
      BY <2>1, <2>2, <2>4, <3>1 DEF ClmulData, ClmulAt
    <3> QED BY <2>1, <2>4, <3>1, <3>2, ClmulResult DEF rd
  <2>5. CASE any_div
    <3>1. div_done /\ ~any_mul /\ ~any_clmul
      BY <2>1, <2>5, Decoded DEF mdu_ready
    <3>2. Split(0, s_rs2, s_rs1)
      BY <2>1, <2>5, <3>1 DEF DivData, DivAt
    <3> QED BY <2>1, <2>5, <3>1, <3>2, DivResult DEF rd
  <2> QED BY <2>3, <2>4, <2>5 DEF mdu_valid
<1>2. Spec => []DataInv
  BY MduDataInvariant
<1> QED BY <1>1, <1>2, PTL

=============================================================================
