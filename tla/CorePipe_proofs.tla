-------------------------- MODULE CorePipe_proofs --------------------------
(***************************************************************************)
(* Proofs about CorePipe, for every program, every number of program       *)
(* counter values and every behaviour of the memories, of fetch and of the *)
(* interrupt line.                                                         *)
(***************************************************************************)
EXTENDS CorePipe, TLAPS

(* Every step is a clock cycle. *)
LEMMA NextIsClock ==
    ASSUME Next PROVE \E x \in Inputs : Clock(x)
BY DEF Next, Interrupt, Exception, Return, Branch, Run

(* A branch names a program counter value. *)
LEMMA BranchType ==
    ASSUME TypeOK, In(s2, {"branch"}) PROVE s2.to \in Pc
<1>1. s2 \in Instruction /\ s2.unit = "branch"
  BY PipeAssumption DEF TypeOK, In
<1> QED BY <1>1 DEF Instruction

(* Whatever writes mepc leaves a program counter value in it. *)
LEMMA MepcType ==
    ASSUME TypeOK, NEW x PROVE csr_mepc(x) \in Pc
<1>1. ASSUME csr_op, s3.reg = "mepc" PROVE s3.to \in Pc
  <2>1. s3 \in Instruction /\ s3.unit = "csr"
    BY <1>1, PipeAssumption DEF TypeOK, csr_op, In
  <2> QED BY <1>1, <2>1 DEF Instruction
<1> QED BY <1>1 DEF TypeOK, csr_mepc, trap_pc

(* Control goes to program counter values. *)
LEMMA TargetType ==
    ASSUME TypeOK, NEW x, cf_valid(x) PROVE cf_target(x) \in Pc
<1>1. csr_mepc(x) \in Pc
  BY MepcType
<1>2. s3_cf_target(x) \in Pc
  BY <1>1, PipeAssumption DEF s3_cf_target
<1>3. s2_cf_valid => s2.to \in Pc
  BY BranchType DEF s2_cf_valid, branch_taken
<1> QED BY <1>2, <1>3 DEF cf_target, cf_valid

(* The registers of core_pipe_exec.sv, core_pipe_wb.sv and core_csrs.sv    *)
(* keep their types for every program.                                     *)
THEOREM PipeTypeOK == Spec => []TypeOK
<1>1. Init => TypeOK
  <2> SUFFICES ASSUME Init PROVE TypeOK
    OBVIOUS
  <2>1. 0 \in Pc
    BY PipeAssumption DEF Pc
  <2>2. s2_pc \in Pc /\ s3_pc \in Pc /\ mepc \in Pc
    BY <2>1 DEF Init
  <2>3. s2 \in Instrs \cup {None} /\ s3 \in Instrs \cup {None}
    BY DEF Init
  <2>4. events \subseteq Events
    BY DEF Init
  <2> QED BY <2>2, <2>3, <2>4, Zenon DEF Init, TypeOK
<1>2. TypeOK /\ [Next]_vars => TypeOK'
  <2> SUFFICES ASSUME TypeOK, [Next]_vars PROVE TypeOK'
    OBVIOUS
  <2>1. CASE Next
    <3>1. PICK x \in Inputs : Clock(x)
      BY <2>1, NextIsClock
    <3>2. s2' \in Instrs \cup {None}
      BY <3>1 DEF Clock, FetchClock, TypeOK
    <3>3. s2_pc' \in Pc
      <4>1. s2_npc \in Pc
        BY PipeAssumption DEF s2_npc, TypeOK, Pc
      <4> QED BY <3>1, <4>1, TargetType DEF Clock, FetchClock, TypeOK, e_cf_change
    <3>4. s3' \in Instrs \cup {None} /\ s3_pc' \in Pc
      BY <3>1, PipeAssumption DEF Clock, PipelineClock, TypeOK, Pc
    <3>5. mepc' \in Pc
      BY <3>1, MepcType DEF Clock, MepcClock
    <3>6. finished' \in BOOLEAN /\ cf_change_done' \in BOOLEAN
      BY <3>1 DEF Clock, LsuClock, CfuClock
    <3>7. mdu_run' \in BOOLEAN /\ mdu_done' \in BOOLEAN /\ mdu_stale' \in BOOLEAN
      BY <3>1 DEF Clock, MduClock
    <3>8. s3_trap' \in BOOLEAN
      BY <3>1 DEF Clock, PipelineClock, n_s3_trap, TypeOK
    <3>9. /\ csr_op_done' \in BOOLEAN /\ csr_op_error' \in BOOLEAN
          /\ p_lsu_req' \in BOOLEAN /\ cf_done' \in BOOLEAN
          /\ wfi_woken' \in BOOLEAN /\ r_trapped' \in BOOLEAN
          /\ delay_int_request' \in BOOLEAN
      BY <3>1 DEF Clock, WritebackClock, CsrOpClock, TrapClock,
              DmemClock, req_sent
    <3>10. mie' \in BOOLEAN /\ mpie' \in BOOLEAN /\ meie' \in BOOLEAN
      <4>1. \A old \in BOOLEAN : \A bit : csr_bit(old, bit) \in BOOLEAN
        BY DEF csr_bit
      <4> QED BY <3>1, <4>1 DEF Clock, MstatusClock, MieClock, TypeOK
    <3>11. int_ext' \in BOOLEAN /\ events' \subseteq Events
      BY <3>1 DEF Clock, Happened
    <3> QED BY <3>2, <3>3, <3>4, <3>5, <3>6, <3>7, <3>8, <3>9, <3>10, <3>11
            DEF TypeOK
  <2>2. CASE UNCHANGED vars
    BY <2>2 DEF vars, execVars, wbVars, csrVars, TypeOK
  <2> QED BY <2>1, <2>2
<1> QED BY <1>1, <1>2, PTL DEF Spec

----------------------------------------------------------------------------
(* An access that is granted moves on to writeback in the same cycle, and  *)
(* nothing flushes it.                                                     *)
LEMMA GrantedMovesOn ==
    ASSUME NEW x, req_sent(x)
    PROVE  /\ n_s3_full(x) /\ e_new_instr(x)
           /\ In(s2, {"load", "store"}) /\ s2.aligned
<1>1. /\ In(s2, {"load", "store"}) /\ s2.aligned
      /\ ~s3_cf_valid(x) /\ ~wfi_sleep /\ lsu_valid(x)
  BY DEF req_sent, dmem_req, lsu_valid, s2_cancel
<1>2. s2 # None /\ ~cfu_op_any /\ ~mdu_valid
  BY <1>1 DEF In, cfu_op_any, mdu_valid
<1>3. s3_valid(x)
  BY <1>1, <1>2 DEF s3_valid, s2_done, lsu_ready
<1>4. s3_ready(x) /\ ~s2_flush(x)
  BY <1>1 DEF s3_ready, cfu_wait, s2_flush
<1> QED BY <1>1, <1>3, <1>4 DEF n_s3_full, e_new_instr

(* A branch whose control flow change is accepted moves on too. *)
LEMMA BranchMovesOn ==
    ASSUME NEW x, s2_cf_valid, x.cf_ack
    PROVE  e_new_instr(x)
<1>1. In(s2, {"branch"}) /\ ~wfi_sleep
  BY DEF s2_cf_valid, branch_taken, cfu_valid
<1>2. s2 # None /\ ~lsu_valid(x) /\ ~mdu_valid
  BY <1>1 DEF In, lsu_valid, mdu_valid
<1>3. s3_valid(x)
  BY <1>2 DEF s3_valid, s2_done, cfu_finished
<1>4. s3_ready(x)
  BY <1>1 DEF s3_ready, cfu_wait
<1> QED BY <1>3, <1>4 DEF e_new_instr

(* An access that is not granted stays where it is, and so does the        *)
(* instruction in front of it.                                             *)
LEMMA StalledStays ==
    ASSUME NEW x, dmem_req(x), ~x.dmem_gnt
    PROVE  ~e_new_instr(x) /\ ~e_cf_change(x) /\ ~s2_flush(x)
<1>1. /\ In(s2, {"load", "store"}) /\ s2.aligned
      /\ ~s3_cf_valid(x) /\ lsu_valid(x)
  BY DEF dmem_req, lsu_valid, s2_cancel
<1>2. ~lsu_ready(x)
  BY <1>1 DEF lsu_ready, req_sent, trap_addr
<1>3. ~s2_cf_valid
  BY <1>1 DEF s2_cf_valid, branch_taken, In
<1> QED BY <1>1, <1>2, <1>3 DEF e_new_instr, s3_valid, s2_done, e_cf_change,
                                cf_valid, s2_flush

----------------------------------------------------------------------------
(* core_pipe_exec_lsu.sv:45, core_pipe_exec_cfu.sv:153: for every program, *)
(* an instruction never stays in execute after its data access or its      *)
(* control flow change has happened.                                       *)
THEOREM PipeNoHalfDone == Spec => []NoHalfDoneInstruction
<1>1. Init => NoHalfDoneInstruction
  BY DEF Init, NoHalfDoneInstruction
<1>2. NoHalfDoneInstruction /\ [Next]_vars => NoHalfDoneInstruction'
  <2> SUFFICES ASSUME NoHalfDoneInstruction, [Next]_vars
               PROVE  NoHalfDoneInstruction'
    OBVIOUS
  <2>1. CASE Next
    <3>1. PICK x \in Inputs : Clock(x)
      BY <2>1, NextIsClock
    <3>2. ~finished'
      BY <3>1, GrantedMovesOn DEF Clock, LsuClock, NoHalfDoneInstruction
    <3>3. ~cf_change_done'
      BY <3>1, BranchMovesOn DEF Clock, CfuClock, NoHalfDoneInstruction
    <3> QED BY <3>2, <3>3 DEF NoHalfDoneInstruction
  <2>2. CASE UNCHANGED vars
    BY <2>2 DEF vars, execVars, NoHalfDoneInstruction
  <2> QED BY <2>1, <2>2
<1> QED BY <1>1, <1>2, PTL DEF Spec

(* core_pipe_wb.sv:241-252: for every program, a granted data request is   *)
(* the one of the load or store that has just entered writeback.           *)
THEOREM PipeGranted == Spec => []GrantedAccessCompletes
<1>1. Init => GrantedAccessCompletes
  BY DEF Init, GrantedAccessCompletes
<1>2. GrantedAccessCompletes /\ [Next]_vars => GrantedAccessCompletes'
  <2> SUFFICES ASSUME GrantedAccessCompletes, [Next]_vars
               PROVE  GrantedAccessCompletes'
    OBVIOUS
  <2>1. CASE Next
    <3>1. PICK x \in Inputs : Clock(x)
      BY <2>1, NextIsClock
    <3> SUFFICES ASSUME p_lsu_req'
                 PROVE  /\ "enter" \in events'
                        /\ In(s3', {"load", "store"}) /\ s3'.aligned
      BY DEF GrantedAccessCompletes, In
    <3>2. req_sent(x)
      BY <3>1 DEF Clock, WritebackClock, DmemClock
    <3>3. n_s3_full(x) /\ In(s2, {"load", "store"}) /\ s2.aligned
      BY <3>2, GrantedMovesOn
    <3>4. s3' = s2
      BY <3>1, <3>3 DEF Clock, PipelineClock
    <3>5. "enter" \in events'
      BY <3>1, <3>3 DEF Clock, Happened, Events
    <3> QED BY <3>3, <3>4, <3>5 DEF In
  <2>2. CASE UNCHANGED vars
    BY <2>2 DEF vars, wbVars, GrantedAccessCompletes, In
  <2> QED BY <2>1, <2>2
<1> QED BY <1>1, <1>2, PTL DEF Spec

----------------------------------------------------------------------------
(* A cycle with a stalled request leaves nothing in writeback that could   *)
(* cancel the request in the next cycle: no exception, no interrupt, no    *)
(* MRET and no sleeping WFI.                                               *)
LEMMA StalledNotCancelled ==
    ASSUME NEW x, NEW y, Clock(x), dmem_req(x), ~x.dmem_gnt
    PROVE  ~s3_cf_valid(y)' /\ ~wfi_sleep' /\ ~s3_trap'
<1>1. ~e_new_instr(x) /\ ~e_cf_change(x) /\ ~s2_flush(x)
  BY StalledStays
<1>2. ~s3_cf_valid(x) /\ ~wfi_sleep /\ ~s3_trap
  BY DEF dmem_req, lsu_valid, s2_cancel
<1>3. s3' = s3 /\ ~s3_trap'
  BY <1>1, <1>2 DEF Clock, PipelineClock, n_s3_full
<1>4. ~p_lsu_req' /\ delay_int_request'
  BY DEF Clock, WritebackClock, DmemClock, req_sent
<1>5. ~raise_int'
  BY <1>4 DEF raise_int
<1>6. ~wfi_sleep'
  BY <1>1, <1>2, <1>3 DEF Clock, WritebackClock, TrapClock, wfi_sleep
<1>7. CASE cf_done
  <2>1. cf_done'
    BY <1>1, <1>7 DEF Clock, WritebackClock, TrapClock
  <2> QED BY <2>1, <1>3, <1>6 DEF s3_cf_valid
<1>8. CASE ~cf_done
  <2>1. ~r_trapped /\ ~trap_cpu(x) /\ ~raise_int /\ ~cfu_mret
    BY <1>2, <1>8 DEF s3_cf_valid
  <2>2. ~r_trapped' /\ ~cfu_mret'
    BY <1>3, <2>1 DEF Clock, WritebackClock, TrapClock, trapped, cfu_mret, In
  <2>3. s3 # None => ~trap_csr
    BY <2>1 DEF trap_cpu, exception
  <2>4. s3 # None => ~trap_csr'
    <3>1. csr_op' <=> csr_op
      BY <1>2, <1>3 DEF csr_op, In
    <3>2. /\ csr_op_done'  <=> (csr_op_done \/ csr_en)
          /\ csr_op_error' <=> (IF csr_en THEN csr_error ELSE csr_op_error)
      BY <1>1 DEF Clock, WritebackClock, CsrOpClock
    <3>3. ~csr_en'
      BY <3>1, <3>2 DEF csr_en
    <3>4. s3 # None => ~(csr_op_done' /\ csr_op_error')
      BY <2>3, <3>2 DEF trap_csr
    <3> QED BY <3>3, <3>4 DEF trap_csr
  <2>5. ~trap_cpu(y)'
    BY <1>3, <1>4, <2>4 DEF trap_cpu, exception, trap_lsu
  <2> QED BY <1>3, <1>5, <1>6, <2>2, <2>5 DEF s3_cf_valid
<1> QED BY <1>7, <1>8

(* What makes DmemRequestHeld inductive: the request does not depend on    *)
(* the inputs of the next cycle at all.                                    *)
HeldInv == delay_int_request => \A y : dmem_req(y)

(* docs/memory-interface.md:35: for every program, a data request that was *)
(* not granted is made again in the next cycle, whatever the memories and  *)
(* the interrupt line do.                                                  *)
THEOREM PipeDmemRequestHeld == Spec => []DmemRequestHeld
<1>1. Init => HeldInv
  BY DEF Init, HeldInv
<1>2. HeldInv /\ [Next]_vars => HeldInv'
  <2> SUFFICES ASSUME HeldInv, [Next]_vars, delay_int_request', NEW y
               PROVE  dmem_req(y)'
    BY DEF HeldInv
  <2>1. CASE Next
    <3>1. PICK x \in Inputs : Clock(x)
      BY <2>1, NextIsClock
    <3>2. dmem_req(x) /\ ~x.dmem_gnt
      BY <3>1 DEF Clock, WritebackClock, DmemClock
    <3>3. ~e_new_instr(x) /\ ~e_cf_change(x)
      BY <3>2, StalledStays
    <3>4. s2' = s2 /\ In(s2, {"load", "store"}) /\ s2.aligned
      BY <3>1, <3>2, <3>3 DEF Clock, FetchClock, dmem_req, lsu_valid, In
    <3>5. ~finished'
      BY <3>1, <3>2 DEF Clock, LsuClock, req_sent, dmem_req
    <3>6. ~s3_cf_valid(y)' /\ ~wfi_sleep' /\ ~s3_trap'
      BY <3>1, <3>2, StalledNotCancelled
    <3> QED BY <3>4, <3>5, <3>6 DEF dmem_req, lsu_valid, s2_cancel, In
  <2>2. CASE UNCHANGED vars
    <3>1. dmem_req(y)
      BY <2>2 DEF HeldInv, vars, wbVars
    <3>2. /\ UNCHANGED <<s2, finished, s3, s3_trap, csr_op_done, csr_op_error>>
          /\ UNCHANGED <<p_lsu_req, cf_done, wfi_woken, r_trapped>>
          /\ UNCHANGED <<delay_int_request, mie, meie, int_ext>>
      BY <2>2 DEF vars, execVars, wbVars, csrVars
    <3> QED BY <3>1, <3>2 DEF
        dmem_req, lsu_valid, s2_cancel, s3_cf_valid, trap_cpu, exception,
        trap_csr, trap_lsu, raise_int, int_request, cfu_mret, wfi_sleep,
        csr_op, csr_en, csr_error, In
  <2> QED BY <2>1, <2>2
<1>3. HeldInv => DmemRequestHeld
  BY DEF HeldInv, DmemRequestHeld
<1> QED BY <1>1, <1>2, <1>3, PTL DEF Spec

----------------------------------------------------------------------------
(* While an instruction that has not trapped is in writeback, execute is   *)
(* at the instruction that follows it: what makes InterruptResumes         *)
(* inductive.                                                              *)
ExecuteFollows == s3 # None /\ ~s3_trap => s2_pc = Successor

(* Execute goes on following writeback over a clock edge.                  *)
LEMMA NextFollows ==
    ASSUME NoHalfDoneInstruction, ExecuteFollows, NEW x, Clock(x)
    PROVE  ExecuteFollows'
<1> SUFFICES ASSUME s3' # None, ~s3_trap' PROVE s2_pc' = Successor'
  BY DEF ExecuteFollows
<1>1. CASE n_s3_full(x)
  <2>1. /\ s3' = s2 /\ s3_pc' = s2_pc /\ ~n_s3_trap(x)
        /\ e_new_instr(x) /\ ~s2_flush(x) /\ s2_done(x)
    BY <1>1 DEF Clock, PipelineClock, n_s3_full, e_new_instr, s3_valid
  <2>2. CASE In(s2, {"branch"})
    <3>1. s2_cf_valid /\ x.cf_ack
      BY <2>1, <2>2 DEF n_s3_trap, s2_done, cfu_op_any, cfu_finished, In,
                        NoHalfDoneInstruction
    <3>2. ~s3_cf_valid(x)
      BY <2>1, <3>1 DEF s2_flush
    <3>3. s2_pc' = s2.to
      BY <3>1, <3>2 DEF Clock, FetchClock, e_cf_change, cf_valid, cf_target
    <3> QED BY <2>1, <2>2, <3>3 DEF Successor, In
  <2>3. CASE ~In(s2, {"branch"})
    <3>1. ~e_cf_change(x)
      BY <2>1, <2>3 DEF e_cf_change, cf_valid, s2_cf_valid, branch_taken, s2_flush
    <3>2. s2_pc' = (s2_pc + 1) % PCs
      BY <2>1, <3>1 DEF Clock, FetchClock, s2_npc
    <3> QED BY <2>1, <2>3, <3>2 DEF Successor, In
  <2> QED BY <2>2, <2>3
<1>2. CASE ~n_s3_full(x)
  <2>1. ~s2_flush(x) /\ s3' = s3 /\ s3_pc' = s3_pc /\ s3 # None /\ ~s3_trap
    BY <1>2 DEF Clock, PipelineClock
  <2>2. ~e_new_instr(x)
    BY <1>2, <2>1 DEF n_s3_full
  <2>3. ~e_cf_change(x)
    BY <2>1, <2>2, BranchMovesOn DEF e_cf_change, cf_valid, s2_flush
  <2>4. s2_pc' = s2_pc
    BY <2>2, <2>3 DEF Clock, FetchClock
  <2> QED BY <2>1, <2>4 DEF ExecuteFollows, Successor, In
<1> QED BY <1>1, <1>2

(* core_pipe_wb.sv:364: for every program, an interrupt resumes at the     *)
(* instruction that follows the one in writeback.                          *)
THEOREM PipeInterruptResumes == Spec => InterruptResumes
<1> DEFINE A == /\ "interrupt" \in events' /\ "fault" \notin events'
                /\ s3 # None /\ ~In(s3, {"mret"})
                => mepc' = Successor
<1>1. Init => ExecuteFollows
  BY DEF Init, ExecuteFollows
<1>2. NoHalfDoneInstruction /\ ExecuteFollows /\ [Next]_vars => ExecuteFollows'
  <2> SUFFICES ASSUME NoHalfDoneInstruction, ExecuteFollows, [Next]_vars
               PROVE  ExecuteFollows'
    OBVIOUS
  <2>1. CASE Next
    BY <2>1, NextIsClock, NextFollows
  <2>2. CASE UNCHANGED vars
    BY <2>2 DEF vars, execVars, wbVars, ExecuteFollows, Successor, In
  <2> QED BY <2>1, <2>2
<1>3. ExecuteFollows /\ [Next]_vars => [A]_vars
  <2> SUFFICES ASSUME ExecuteFollows, Next,
                      "interrupt" \in events', "fault" \notin events', s3 # None
               PROVE  mepc' = Successor
    OBVIOUS
  <2>1. PICK x \in Inputs : Clock(x)
    BY NextIsClock
  <2>2. trap_int(x) /\ ~exception(x)
    BY <2>1 DEF Clock, Happened, Events
  <2>3. mepc' = s2_pc
    BY <2>1, <2>2 DEF Clock, MepcClock, csr_mepc, trap_pc
  <2>4. ~s3_trap
    BY <2>2 DEF exception
  <2> QED BY <2>3, <2>4 DEF ExecuteFollows
<1> QED BY <1>1, <1>2, <1>3, PipeNoHalfDone, PTL DEF Spec, InterruptResumes

=============================================================================
