------------------------------ MODULE CorePipe ------------------------------
(***************************************************************************)
(* Execute and writeback, the second and third stage of the core, with the *)
(* units that hold an instruction back or change the control flow:         *)
(* core_pipe_exec.sv, its load/store unit (core_pipe_exec_lsu.sv), its     *)
(* control flow unit (core_pipe_exec_cfu.sv), the handshake of its         *)
(* multiplier (core_pipe_exec_mdu.sv), core_pipe_wb.sv, the interrupt      *)
(* enable stack of core_csrs.sv, core_interrupts.sv and the wiring of      *)
(* core_top.sv.                                                            *)
(*                                                                         *)
(* One step is one clock cycle.  Registers are variables, wires are        *)
(* operators of the registers and of the inputs x of the cycle:            *)
(*    cf_ack             fetch accepts a control flow change               *)
(*    dmem_gnt, dmem_err the data memory's grant, and error of a response  *)
(*    mdu_last           the multiplier is in its last iteration           *)
(* An instruction is a record: the unit that executes it and what that     *)
(* unit needs to know.  Every instruction is one program counter long.     *)
(*                                                                         *)
(* The core is in machine mode throughout: mstatus.mpp is M at reset and   *)
(* no instruction can change it (core_csrs.sv:261).                        *)
(***************************************************************************)
EXTENDS Naturals

CONSTANTS
    PCs,            \* the number of program counter values
    Instrs,         \* the instructions that are fetched
    MTVEC,          \* mtvec_base: where exceptions go
    INT_TVEC,       \* int_tvec: where the interrupt goes
    None

Pc == 0..(PCs - 1)

(* trap says that decode found the opcode illegal or the fetch failed, or  *)
(* that it is an ecall or ebreak: all of them go on as an alu instruction  *)
(* does, except that what a failed fetch delivers may look like any other. *)
(* The load/store unit then does not see it (core_pipe_decode.sv:500-509)  *)
(* and writeback not as a csr instruction; the other units act on it.      *)
(*                                                                         *)
(* A branch is a branch whose condition holds; exists says that its target *)
(* lies in the physical address space, always that it is a jump.  A csr    *)
(* instruction writes the bits val of reg; or it leaves to in mepc; or it  *)
(* writes to mtvec what mtvec does not take (other writes of mtvec are     *)
(* left out); or it names a register that does not exist.                  *)
Instruction ==
    [unit : {"alu", "mdu", "mret", "wfi"}, trap : BOOLEAN]
        \cup [unit : {"load", "store"}, trap : {FALSE}, aligned : BOOLEAN]
        \cup [unit : {"branch"}, trap : BOOLEAN,
              to : Pc, exists : BOOLEAN, always : BOOLEAN]
        \cup [unit : {"csr"}, trap : {FALSE}, reg : {"mstatus", "mie"},
              how : {"wr", "set", "clr"}, val : SUBSET {"mie", "mpie", "meie"}]
        \cup [unit : {"csr"}, trap : {FALSE}, reg : {"mepc"}, to : Pc]
        \cup [unit : {"csr"}, trap : {FALSE}, reg : {"mtvec", "unknown"}]

ASSUME PipeAssumption ==
    /\ PCs \in Nat \ {0}
    /\ MTVEC \in Pc /\ INT_TVEC \in Pc
    /\ Instrs \subseteq Instruction
    /\ None \notin Instruction

VARIABLES
    s2, s2_pc,          \* the instruction in decode/execute, or None
    finished,           \* LSU: its request was granted
    cf_change_done,     \* CFU: its control flow change was accepted
    mdu_run, mdu_done,  \* MDU: iterating, has a result
    mdu_stale,          \* history: an operation of the MDU was flushed, and
                        \* none has left execute since
    s3, s3_pc,          \* the instruction in writeback (None: s3_full = 0)
    s3_trap,            \* it raised an exception in execute
    csr_op_done, csr_op_error,
    p_lsu_req,          \* a data request was granted in the last cycle
    cf_done,            \* writeback has had its control flow change
    wfi_woken,          \* the interrupt a WFI waits for was seen
    r_trapped,          \* writeback trapped in an earlier cycle
    delay_int_request,  \* a data request was stalled in the last cycle
    mie, mpie, meie,    \* mstatus.mie, mstatus.mpie, mie.meie
    mepc,
    int_ext,            \* external: the level of the interrupt line
    events              \* history: what happened in the last cycle

execVars == <<s2, s2_pc, finished, cf_change_done, mdu_run, mdu_done,
              mdu_stale>>
wbVars   == <<s3, s3_pc, s3_trap, csr_op_done, csr_op_error, p_lsu_req, cf_done,
              wfi_woken, r_trapped, delay_int_request>>
csrVars  == <<mie, mpie, meie, mepc>>
vars     == <<execVars, wbVars, csrVars, int_ext, events>>

In(stage, units) == stage # None /\ stage.unit \in units

----------------------------------------------------------------------------
(* core_interrupts, core_pipe_wb: interrupts and exceptions. *)

int_request == mie /\ meie /\ int_ext

(* Mutant: an interrupt does not wait for a stalled data request. *)
raise_int_now == int_request
raise_int     == int_request /\ ~delay_int_request

csr_op    == In(s3, {"csr"}) /\ ~s3_trap
csr_en    == csr_op /\ ~csr_op_done
csr_error == csr_op /\ s3.reg \in {"mtvec", "unknown"}

trap_csr    == (csr_en /\ csr_error) \/ (csr_op_done /\ csr_op_error)
trap_lsu(x) == In(s3, {"load", "store"}) /\ x.dmem_err /\ p_lsu_req

(* The instruction in writeback raises an exception in this cycle. *)
exception(x) == s3 # None /\ (s3_trap \/ trap_csr \/ trap_lsu(x))

trap_cpu(x) == exception(x) /\ ~raise_int
trapped(x)  == trap_cpu(x) \/ r_trapped

cfu_mret == In(s3, {"mret"})

(* Mutant: WFI wakes only while the interrupt is there. *)
wfi_sleep_level == In(s3, {"wfi"}) /\ ~int_ext
wfi_sleep       == In(s3, {"wfi"}) /\ ~int_ext /\ ~wfi_woken

s3_cf_valid(x) ==
    ~cf_done /\ (r_trapped \/ trap_cpu(x) \/ raise_int \/ cfu_mret)

(* core_top: writeback's change takes the bus and flushes execute. *)
s2_cancel(x) == s3_cf_valid(x)
s2_flush(x)  == s3_cf_valid(x) /\ x.cf_ack

trap_int(x) == raise_int /\ s2_flush(x)

cfu_wait(x) == (s3_cf_valid(x) /\ ~x.cf_ack) \/ wfi_sleep
s3_ready(x) == s3 = None \/ ~cfu_wait(x)

----------------------------------------------------------------------------
(* core_pipe_exec_lsu. *)

(* Mutant: the access of an instruction about to be flushed goes ahead. *)
lsu_valid_uncancelled(x) ==
    In(s2, {"load", "store"}) /\ ~s3_trap /\ ~wfi_sleep

lsu_valid(x) ==
    /\ In(s2, {"load", "store"})
    /\ ~s3_trap /\ ~s2_cancel(x) /\ ~wfi_sleep

dmem_req(x)  == lsu_valid(x) /\ s2.aligned /\ ~finished
req_sent(x)  == dmem_req(x) /\ x.dmem_gnt
trap_addr(x) == lsu_valid(x) /\ ~s2.aligned
lsu_ready(x) == req_sent(x) \/ trap_addr(x)

----------------------------------------------------------------------------
(* core_pipe_exec_cfu. *)

cfu_op_any   == In(s2, {"branch", "mret", "wfi"})
trap_raise   == In(s2, {"branch"}) /\ ~s2.exists
branch_taken == In(s2, {"branch"}) /\ (s2.always => s2.exists)

(* Mutant: a branch goes ahead behind a sleeping WFI. *)
cfu_valid_asleep == cfu_op_any
cfu_valid        == cfu_op_any /\ ~wfi_sleep

s2_cf_valid == branch_taken /\ ~cf_change_done /\ cfu_valid

cfu_finished(x) ==
    \/ s2_cf_valid /\ x.cf_ack
    \/ cf_change_done
    \/ trap_raise
    \/ In(s2, {"mret", "wfi"})

----------------------------------------------------------------------------
(* core_pipe_exec_mdu. *)

mdu_valid == In(s2, {"mdu"})
mdu_start == mdu_valid /\ ~mdu_run /\ ~mdu_done

----------------------------------------------------------------------------
(* core_pipe_exec: the pipeline registers. *)

s2_done(x) ==
    /\ cfu_op_any => cfu_finished(x)
    /\ lsu_valid(x) => lsu_ready(x)
    /\ mdu_valid => mdu_done

s3_valid(x)    == s2 # None /\ s2_done(x)
e_new_instr(x) == s3_valid(x) /\ s3_ready(x)
n_s3_full(x)   == e_new_instr(x) /\ ~s2_flush(x)
n_s3_trap(x)   == s2.trap \/ trap_addr(x) \/ trap_raise

(* An instruction in writeback retires when another takes its place, or    *)
(* when its exception has been taken.                                      *)
e_instr_ret(x) == /\ s3 # None
                  /\ e_new_instr(x) \/ (trapped(x) /\ s2_flush(x))

exec_mret(x) == cfu_mret /\ e_instr_ret(x)

----------------------------------------------------------------------------
(* core_top: the control flow change bus; core_csrs: the return address.   *)

(* Mutant: an interrupt resumes at the instruction in writeback. *)
trap_pc_s3(x) == s3_pc
trap_pc(x)    == IF trap_int(x) THEN s2_pc ELSE s3_pc

(* mepc is forwarded to the bus in the cycle in which it is written. *)
csr_mepc(x) == IF trap_int(x) \/ trap_cpu(x) THEN trap_pc(x)
               ELSE IF csr_op /\ s3.reg = "mepc" THEN s3.to
               ELSE mepc

s3_cf_target(x) == IF cfu_mret THEN csr_mepc(x)
                   ELSE IF raise_int THEN INT_TVEC ELSE MTVEC

cf_valid(x)  == s2_cf_valid \/ s3_cf_valid(x)
cf_target(x) == IF s3_cf_valid(x) THEN s3_cf_target(x) ELSE s2.to
e_cf_change(x) == cf_valid(x) /\ x.cf_ack

----------------------------------------------------------------------------
(* What the registers hold after the cycle. *)

(* Mutant: the program counter is not cut to the address width. *)
s2_npc_wide == s2_pc + 1
s2_npc      == (s2_pc + 1) % PCs

(* Fetch delivers any instruction, or none yet (None). *)
FetchClock(x) ==
    /\ s2_pc' = IF e_cf_change(x) THEN cf_target(x)
                ELSE IF e_new_instr(x) THEN s2_npc
                ELSE s2_pc
    /\ s2' \in IF e_cf_change(x) THEN {None}
               ELSE IF e_new_instr(x) \/ s2 = None THEN Instrs \cup {None}
               ELSE {s2}

LsuClock(x) ==
    finished' = (~e_new_instr(x) /\ (req_sent(x) \/ finished))

CfuClock(x) ==
    cf_change_done' =
        (~e_new_instr(x) /\ (cf_change_done \/ (s2_cf_valid /\ x.cf_ack)))

(* The MDU is stopped when its instruction leaves, and only then: what a   *)
(* flush abandons goes on.  (An operation of another kind may then start   *)
(* over it, with a counter that never ends: see CoreMdu and AllFair.)      *)
MduClock(x) ==
    IF e_new_instr(x) /\ mdu_valid
    THEN /\ mdu_run' = FALSE /\ mdu_done' = FALSE /\ mdu_stale' = FALSE
    ELSE /\ mdu_run'  = (mdu_start \/ (mdu_run /\ ~x.mdu_last))
         /\ mdu_done' = (mdu_done \/ (mdu_run /\ x.mdu_last))
         /\ mdu_stale' = (mdu_stale \/ (mdu_valid /\ s2_flush(x)))

(* The registers of an empty stage keep their old contents in the code;    *)
(* nothing looks at them while s3_full is 0.                               *)
PipelineClock(x) ==
    /\ s3'      = IF n_s3_full(x) THEN s2 ELSE IF s2_flush(x) THEN None ELSE s3
    /\ s3_pc'   = IF n_s3_full(x) THEN s2_pc ELSE IF s2_flush(x) THEN 0 ELSE s3_pc
    /\ s3_trap' = IF n_s3_full(x) THEN n_s3_trap(x) ELSE s3_trap /\ ~s2_flush(x)

(* What writeback remembers of the instruction it holds. *)
CsrOpClock(x) ==
    /\ csr_op_done'  = (~e_new_instr(x) /\ (csr_op_done \/ csr_en))
    /\ csr_op_error' = (~e_new_instr(x) /\ IF csr_en THEN csr_error ELSE csr_op_error)

TrapClock(x) ==
    /\ cf_done'   = (~e_new_instr(x) /\ (cf_done \/ s2_flush(x)))
    /\ wfi_woken' = (~e_new_instr(x) /\ (wfi_woken \/ (In(s3, {"wfi"}) /\ int_ext)))
    /\ r_trapped' = (~e_new_instr(x) /\ trapped(x))

DmemClock(x) ==
    /\ p_lsu_req' = req_sent(x)
    /\ delay_int_request' = (dmem_req(x) /\ ~x.dmem_gnt)

WritebackClock(x) == CsrOpClock(x) /\ TrapClock(x) /\ DmemClock(x)

(* The bit of a register after a csr instruction: old is the bit that set  *)
(* and clear start from.                                                   *)
csr_bit(old, bit) == IF bit \in s3.val THEN s3.how # "clr"
                                       ELSE s3.how # "wr" /\ old

(* A csr write is repeated in every cycle the instruction waits, except    *)
(* for mie, whose enable is csr_en.  Setting and clearing mpie starts from *)
(* mie (core_csrs.sv:240).                                                 *)
MstatusClock(x) ==
    LET trap == trap_int(x) \/ trap_cpu(x)
        wen_mstatus == csr_op /\ s3.reg = "mstatus"
    IN  /\ mie'  = IF trap THEN FALSE
                   ELSE IF exec_mret(x) THEN mpie
                   ELSE IF wen_mstatus THEN csr_bit(mie, "mie") ELSE mie
        /\ mpie' = IF trap THEN mie
                   ELSE IF exec_mret(x) THEN FALSE
                   ELSE IF wen_mstatus THEN csr_bit(mie, "mpie") ELSE mpie

MieClock == meie' = IF csr_en /\ s3.reg = "mie" THEN csr_bit(meie, "meie") ELSE meie

MepcClock(x) == mepc' = csr_mepc(x)

(* An instruction entered writeback; an interrupt was taken; the one in    *)
(* writeback raised an exception; the control flow change of an MRET was   *)
(* accepted; fetch did not accept a control flow change.                   *)
Events == {"enter", "interrupt", "fault", "mret", "refused"}

Happened(x) ==
    {e \in Events : \/ e = "enter" /\ n_s3_full(x)
                    \/ e = "interrupt" /\ trap_int(x)
                    \/ e = "fault" /\ exception(x)
                    \/ e = "mret" /\ s2_flush(x) /\ cfu_mret
                    \/ e = "refused" /\ cf_valid(x) /\ ~x.cf_ack}

----------------------------------------------------------------------------
Init ==
    /\ s2 = None /\ s2_pc = 0
    /\ finished = FALSE /\ cf_change_done = FALSE
    /\ mdu_run = FALSE /\ mdu_done = FALSE /\ mdu_stale = FALSE
    /\ s3 = None /\ s3_pc = 0 /\ s3_trap = FALSE
    /\ csr_op_done = FALSE /\ csr_op_error = FALSE
    /\ p_lsu_req = FALSE /\ cf_done = FALSE /\ wfi_woken = FALSE
    /\ r_trapped = FALSE /\ delay_int_request = FALSE
    /\ mie = FALSE /\ mpie = FALSE /\ meie = FALSE /\ mepc = 0
    /\ int_ext \in BOOLEAN /\ events = {}

Clock(x) ==
    /\ LsuClock(x) /\ CfuClock(x) /\ MduClock(x)
    /\ PipelineClock(x)
    /\ WritebackClock(x)
    /\ MstatusClock(x) /\ MieClock /\ MepcClock(x)
    /\ events' = Happened(x)
    /\ FetchClock(x)
    /\ int_ext' \in BOOLEAN

(* What the memories and fetch may do in a cycle; an ack without a change, *)
(* a grant without a request, an error without a response are not looked   *)
(* at.                                                                     *)
Inputs ==
    {x \in [cf_ack : BOOLEAN, dmem_gnt : BOOLEAN, dmem_err : BOOLEAN, mdu_last : BOOLEAN] :
        /\ x.cf_ack => cf_valid(x)
        /\ x.dmem_gnt => dmem_req(x)
        /\ x.dmem_err => p_lsu_req
        /\ x.mdu_last => mdu_run}

(* A cycle in which writeback takes an interrupt, takes an exception or    *)
(* returns from a trap, in which execute branches, and any other.          *)
Interrupt(x) == trap_int(x) /\ Clock(x)
Exception(x) == s2_flush(x) /\ ~raise_int /\ ~cfu_mret /\ Clock(x)
Return(x)    == s2_flush(x) /\ ~raise_int /\ cfu_mret /\ Clock(x)
Branch(x)    == e_cf_change(x) /\ ~s2_flush(x) /\ Clock(x)
Run(x)       == ~e_cf_change(x) /\ Clock(x)

Next == \E x \in Inputs :
    Interrupt(x) \/ Exception(x) \/ Return(x) \/ Branch(x) \/ Run(x)

Spec == Init /\ [][Next]_vars

(* The clock runs (the interrupt line can change in every cycle).  Fetch   *)
(* accepts a control flow change, memory grants a request and fetch        *)
(* delivers, each in the end; and the MDU finishes an operation in the     *)
(* end (TimingIsFixed of CoreMdu), but for one that runs over another that *)
(* was abandoned.                                                          *)
AllFair ==
    /\ []<><<TRUE>>_vars
    /\ []<>("refused" \notin events)
    /\ []<>~delay_int_request
    /\ []<>(s2 # None)
    /\ []<>(~mdu_run \/ mdu_stale)

FairSpec == Spec /\ AllFair

----------------------------------------------------------------------------
(* The registers of core_pipe_exec.sv, core_pipe_wb.sv and core_csrs.sv    *)
(* hold values of their width; control stays in the address space.         *)
TypeOK ==
    /\ s2 \in Instrs \cup {None} /\ s2_pc \in Pc
    /\ s3 \in Instrs \cup {None} /\ s3_pc \in Pc /\ mepc \in Pc
    /\ finished \in BOOLEAN /\ cf_change_done \in BOOLEAN
    /\ mdu_run \in BOOLEAN /\ mdu_done \in BOOLEAN /\ mdu_stale \in BOOLEAN
    /\ s3_trap \in BOOLEAN /\ csr_op_done \in BOOLEAN /\ csr_op_error \in BOOLEAN
    /\ p_lsu_req \in BOOLEAN /\ cf_done \in BOOLEAN /\ wfi_woken \in BOOLEAN
    /\ r_trapped \in BOOLEAN /\ delay_int_request \in BOOLEAN
    /\ mie \in BOOLEAN /\ mpie \in BOOLEAN /\ meie \in BOOLEAN
    /\ int_ext \in BOOLEAN /\ events \subseteq Events

(* core_pipe_exec_lsu.sv:45, core_pipe_exec_cfu.sv:153: an instruction     *)
(* that has had its effect outside the core - its data access, its control *)
(* flow change - leaves execute in the same cycle.  It is never left       *)
(* behind, to be flushed by an interrupt and executed again.               *)
NoHalfDoneInstruction == ~finished /\ ~cf_change_done

(* A granted access belongs to the instruction that has just entered       *)
(* writeback, which is where its response is waited for.                   *)
GrantedAccessCompletes ==
    p_lsu_req => /\ "enter" \in events
                 /\ In(s3, {"load", "store"}) /\ s3.aligned

(* The converse: a load or store is finished in writeback only if it was   *)
(* started in execute (docs/pipeline.md:84).                               *)
AccessNeverSkipped ==
    "enter" \in events /\ In(s3, {"load", "store"}) /\ s3.aligned => p_lsu_req

(* docs/memory-interface.md:35 "the request signals must remain stable":   *)
(* a data request that was not granted is made again in the next cycle,    *)
(* whatever interrupts or exceptions come up.                              *)
DmemRequestHeld ==
    delay_int_request => \A x \in Inputs : dmem_req(x)

(* The instruction that follows the one in writeback. *)
Successor == IF In(s3, {"branch"}) THEN s3.to ELSE (s3_pc + 1) % PCs

(* core_pipe_wb.sv:364: an interrupt resumes after the instruction in      *)
(* writeback, at the target if that is a branch that was taken in execute; *)
(* no instruction is skipped and none executed twice.  (A MRET or an       *)
(* exception in writeback: see ExceptionNotLost.)  The comment above that  *)
(* line asks for something else, the next natural PC and "not the target"  *)
(* (core_pipe_wb.sv:360-363).  A branch that redirected fetch and retired  *)
(* is not executed again, so resuming behind it would undo it; the code    *)
(* saves s2_pc, which the redirect has set to the target (core_top.sv:729, *)
(* core_pipe_decode.sv).                                                   *)
InterruptResumes ==
    [][/\ "interrupt" \in events' /\ "fault" \notin events'
       /\ s3 # None /\ ~In(s3, {"mret"})
       => mepc' = Successor]_vars

(* docs/ccx.md:39: a failed access causes an exception.  If an interrupt   *)
(* comes with it and is taken instead, it has to resume at the faulting    *)
(* instruction, which then faults again.                                   *)
ExceptionNotLost ==
    [][{"interrupt", "fault"} \subseteq events' => mepc' = s3_pc]_vars

(* docs/user-mode.md:77: on an MRET mstatus.mie takes the value of         *)
(* mstatus.mpie.  It does not if execute is empty when the MRET redirects, *)
(* for then e_instr_ret is low (core_pipe_wb.sv:307).                      *)
MretRestoresMie ==
    [][events' \cap {"mret", "interrupt"} = {"mret"} => mie' = mpie]_vars

(* core_pipe_wb.sv:285-291, core_pipe_exec.sv:321: stages that wait for    *)
(* each other, for memory or for fetch do not wedge the core, and a WFI    *)
(* that has seen its interrupt, be it gone by now, completes.  One thing   *)
(* may wedge it: an MDU instruction in execute after another was flushed   *)
(* (core_pipe_exec.sv:240).                                                *)
Progress ==
    \/ []<>("enter" \in events \/ (In(s3, {"wfi"}) /\ ~wfi_woken))
    \/ <>[](mdu_valid /\ mdu_stale)

=============================================================================
