----------------------------- MODULE CoreFetch -----------------------------
(***************************************************************************)
(* The fetch stage of the core: core_pipe_fetch.sv, the fetch buffer it    *)
(* instantiates (core_pipe_fetch_buffer.sv) and the program counter that   *)
(* the decode stage keeps in step with it (core_pipe_decode.sv).           *)
(*                                                                         *)
(* One step is one rising edge of g_clk.  The values that the registers    *)
(* hold are variables; the wires of the RTL are operators of the registers *)
(* and of the inputs sampled in that cycle, the record i:                  *)
(*    gnt, err           the instruction memory's grant and error          *)
(*    cf_valid, cf_target  the control flow change bus                     *)
(*    s2_ready           decode/execute can take an instruction            *)
(*    mode               the privilege mode of the core                    *)
(*                                                                         *)
(* Addresses and depths are in bytes, as in the code.  The content of a    *)
(* halfword of memory is named by the address it was read from.            *)
(***************************************************************************)
EXTENDS Integers

CONSTANTS
    AddrBytes,          \* size of the physical address space (2^MEM_ADDR_W)
    PC_RESET_ADDRESS,   \* first address fetched after reset
    Targets,            \* control flow targets the pipeline may present
    Long                \* halfword addresses whose bits 1:0 are 2'b11

ASSUME AddrAssumption ==
    /\ AddrBytes \in Nat /\ AddrBytes >= 16 /\ AddrBytes % 8 = 0
    /\ PC_RESET_ADDRESS \in 0..(AddrBytes - 1) /\ PC_RESET_ADDRESS % 8 = 0
    /\ Targets \subseteq 0..(AddrBytes - 1)
    /\ Long \subseteq 0..(AddrBytes - 1)

VARIABLES
    imem_req,           \* imem_req_r: a fetch request is on the bus
    imem_recv,          \* a response arrives in this cycle
    imem_addr,          \* address of the current / next request
    imem_prv,           \* privilege the request is made with
    reqs_outstanding,   \* 2-bit count of granted requests without response
    rsps_ignore,        \* 2-bit count of responses to throw away
    first_req_post_cf,  \* no request was granted since the last cf change
    buf_fill,           \* one-hot buf_fill_2/4/6/8, as a number of bytes
    depth,              \* bytes in the fetch buffer
    d_buffer,           \* its halfwords
    e_buffer,           \* its error tags
    s2_pc,              \* s2_pc_reg: address of the instruction in decode
    rsp_addr,           \* external: the address the memory answers for
    spoilt              \* history: the stream was spoilt (see Spoils)

fetchVars  == <<imem_req, imem_recv, imem_addr, imem_prv, reqs_outstanding,
                rsps_ignore, first_req_post_cf, buf_fill>>
bufferVars == <<depth, d_buffer, e_buffer>>
vars       == <<fetchVars, bufferVars, s2_pc, rsp_addr, spoilt>>

Addr  == 0..(AddrBytes - 1)
Slots == 0..7                   \* halfword positions of the 128-bit buffer
Modes == {"M", "U"}

Inputs == [gnt : BOOLEAN, err : BOOLEAN, cf_valid : BOOLEAN,
           cf_target : Targets, s2_ready : BOOLEAN, mode : Modes]

(***************************************************************************)
(* Halfwords.  Zero is the all-zero halfword of a cleared buffer slot;     *)
(* Junk is what the bus carries when nothing was requested, and what       *)
(* OR-ing two halfwords leaves.  bad records that the response the         *)
(* halfword came with was an error.                                        *)
(***************************************************************************)
Zero == [adr |-> -1, bad |-> FALSE]
Junk == [adr |-> -2, bad |-> FALSE]
HalfWord == [adr : Addr, bad : BOOLEAN] \cup {Zero, Junk}

Or(a, b) == IF a = Zero THEN b ELSE IF b = Zero THEN a ELSE Junk

----------------------------------------------------------------------------
(* core_pipe_fetch: what decode sees, and the events of a cycle. *)

s1_i16bit == depth >= 2 /\ d_buffer[0].adr \notin Long
s1_i32bit == depth >= 4 /\ d_buffer[0].adr \in Long
s2_valid  == s1_i16bit \/ s1_i32bit

s1_eat_2(i) == s1_i16bit /\ i.s2_ready
s1_eat_4(i) == s1_i32bit /\ i.s2_ready

(* Mutant: fetch accepts a new target while its request is stalled. *)
cf_ack_always(i) == TRUE
cf_ack(i)      == (imem_req /\ i.gnt) \/ ~imem_req
e_cf_change(i) == i.cf_valid /\ cf_ack(i)
e_imem_req(i)  == imem_req /\ i.gnt

bit(b) == IF b THEN 1 ELSE 0

----------------------------------------------------------------------------
(* core_pipe_fetch_buffer. *)

bd_sub(i)   == IF s1_eat_2(i) THEN 2 ELSE IF s1_eat_4(i) THEN 4 ELSE 0
n_depth(i)  == IF e_cf_change(i) THEN 0
               ELSE (depth + buf_fill - bd_sub(i)) % 32
shf_up(i)   == (depth - bd_sub(i)) % 32

ignore_rsp     == rsps_ignore # 0
fill_en        == imem_recv /\ ~ignore_rsp
update_buffer(i) == (fill_en /\ buf_fill # 0) \/ s1_eat_2(i) \/ s1_eat_4(i)

(* The four halfwords on imem_rdata. *)
data_in(i) == [k \in 0..3 |->
    IF imem_recv THEN [adr |-> (rsp_addr + 2*k) % AddrBytes, bad |-> i.err]
                 ELSE Junk]

(* The top buf_fill bytes of the input, moved up to the end of the data    *)
(* that stays, OR-ed with the buffer shifted down by what decode eats.     *)
n_d_buffer(i) == [p \in Slots |->
    LET q   == p - shf_up(i) \div 2
        src == p + bd_sub(i) \div 2
    IN  Or(IF q >= 0 /\ 2*q < buf_fill THEN data_in(i)[(8 - buf_fill) \div 2 + q]
                                       ELSE Zero,
           IF src \in Slots THEN d_buffer[src] ELSE Zero)]

(* The error tags: shifted up by shf_up positions, one per BYTE of shift.  *)
n_e_buffer(i) == [p \in Slots |->
    LET q   == p - shf_up(i)
        src == p + bd_sub(i) \div 2
    IN  \/ q >= 0 /\ 2*q < buf_fill /\ i.err
        \/ src \in Slots /\ e_buffer[src]]

BufferClock(i) ==
    IF e_cf_change(i)
    THEN /\ depth'    = 0
         /\ d_buffer' = [p \in Slots |-> Zero]
         /\ e_buffer' = [p \in Slots |-> FALSE]
    ELSE IF update_buffer(i)
    THEN /\ depth'    = n_depth(i)
         /\ d_buffer' = n_d_buffer(i)
         /\ e_buffer' = n_e_buffer(i)
    ELSE UNCHANGED bufferVars

----------------------------------------------------------------------------
(* core_pipe_fetch: requests. *)

(* Mutant: a request may be in flight twice over. *)
buf_ready_inflight(i) == n_depth(i) <= 8
buf_ready(i)  == n_depth(i) <= 8 /\ ~e_imem_req(i)
n_imem_req(i) == buf_ready(i) \/ (imem_req /\ ~i.gnt) \/ e_cf_change(i)

(* Mutant: the address register does not wrap at MEM_ADDR_W bits. *)
n_imem_addr_wide == imem_addr + 8
n_imem_addr      == (imem_addr + 8) % AddrBytes

RequestClock(i) ==
    /\ imem_req'  = n_imem_req(i)
    /\ imem_recv' = e_imem_req(i)
    /\ imem_addr' = IF e_cf_change(i) THEN i.cf_target - (i.cf_target % 8)
                    ELSE IF e_imem_req(i) THEN n_imem_addr
                    ELSE imem_addr
    /\ imem_prv'  = IF (n_imem_req(i) /\ ~imem_req) \/ e_imem_req(i)
                    THEN i.mode ELSE imem_prv

(* Which responses belong to a stream that was abandoned. *)
(* Mutant: responses are not counted off. *)
n_reqs_outstanding_up(i) == (reqs_outstanding + bit(e_imem_req(i))) % 4

n_reqs_outstanding(i) ==
    (reqs_outstanding + bit(e_imem_req(i)) - bit(imem_recv)) % 4

(* Mutant: the count never drains. *)
n_rsps_ignore_stuck(i) ==
    IF ~ignore_rsp /\ e_cf_change(i) THEN n_reqs_outstanding(i) ELSE rsps_ignore

n_rsps_ignore(i) ==
    IF ignore_rsp THEN (rsps_ignore - 1 + bit(e_cf_change(i))) % 4
    ELSE IF e_cf_change(i) THEN n_reqs_outstanding(i)
    ELSE rsps_ignore

ResponseClock(i) ==
    /\ reqs_outstanding' = n_reqs_outstanding(i)
    /\ rsps_ignore'      = n_rsps_ignore(i)

(* How many bytes of the next response are wanted: the first word after a  *)
(* control flow change is cut to what lies at and above the target.        *)
n_buf_fill(i) ==
    IF e_cf_change(i)
    THEN IF i.cf_target % 2 = 0 THEN 8 - (i.cf_target % 8) ELSE 0
    ELSE IF ignore_rsp \/ first_req_post_cf THEN buf_fill
    ELSE IF e_imem_req(i) THEN 8 ELSE 0

(* Mutant: the request that is stalled forgets that it is the first. *)
n_first_req_post_cf_short(i) == e_cf_change(i)

n_first_req_post_cf(i) ==
    IF first_req_post_cf THEN ~e_imem_req(i) ELSE e_cf_change(i)

FillClock(i) ==
    /\ first_req_post_cf' = n_first_req_post_cf(i)
    /\ buf_fill'          = n_buf_fill(i)

(* core_pipe_decode: the program counter of the instruction in decode. *)
s2_npc == (s2_pc + (IF s1_i32bit THEN 4 ELSE IF s1_i16bit THEN 2 ELSE 0))
              % AddrBytes

PcClock(i) ==
    s2_pc' = IF e_cf_change(i) THEN i.cf_target
             ELSE IF s1_eat_2(i) \/ s1_eat_4(i) THEN s2_npc
             ELSE s2_pc

(* The memory answers a granted request in the next cycle. *)
MemoryClock(i) == rsp_addr' = IF e_imem_req(i) THEN imem_addr ELSE rsp_addr

(* Two redirects in consecutive cycles (a branch in execute, then an       *)
(* interrupt) leave first_req_post_cf clear while the response to the      *)
(* request of the first is still to be ignored.  If the memory stalls the  *)
(* request of the second in that cycle, buf_fill forgets how much of its   *)
(* response is wanted.  The next redirect starts a new stream.             *)
Spoils(i)       == ignore_rsp /\ ~first_req_post_cf /\ ~i.gnt
HistoryClock(i) == spoilt' = (~e_cf_change(i) /\ (spoilt \/ Spoils(i)))

----------------------------------------------------------------------------
Init ==
    /\ imem_req = FALSE /\ imem_recv = FALSE
    /\ imem_addr = PC_RESET_ADDRESS /\ imem_prv = "M"
    /\ reqs_outstanding = 0 /\ rsps_ignore = 0
    /\ first_req_post_cf = FALSE /\ buf_fill = 0
    /\ depth = 0
    /\ d_buffer = [p \in Slots |-> Zero]
    /\ e_buffer = [p \in Slots |-> FALSE]
    /\ s2_pc = PC_RESET_ADDRESS
    /\ rsp_addr = PC_RESET_ADDRESS
    /\ spoilt = FALSE

Clock(i) ==
    /\ RequestClock(i)
    /\ ResponseClock(i)
    /\ FillClock(i)
    /\ BufferClock(i)
    /\ PcClock(i)
    /\ MemoryClock(i)
    /\ HistoryClock(i)

(* A cycle in which fetch is sent elsewhere, and one in which it is not. *)
Redirect(i) == e_cf_change(i) /\ Clock(i)
Run(i)      == ~e_cf_change(i) /\ Clock(i)

Next == \E i \in Inputs : Redirect(i) \/ Run(i)

Spec == Init /\ [][Next]_vars

(* The memory may stall a request, but not for ever; the request is held   *)
(* until it is granted, so weak fairness of a granting cycle is enough.    *)
(* The clock itself does not stop (g_clk is requested whenever the core is *)
(* not asleep).                                                            *)
Granted  == \E i \in Inputs : e_imem_req(i) /\ Clock(i)
Tick     == \E i \in Inputs : ~i.cf_valid /\ Clock(i)
FairSpec == Spec /\ WF_vars(Granted) /\ WF_vars(Tick)

----------------------------------------------------------------------------
(* The registers of core_pipe_fetch.sv, core_pipe_fetch_buffer.sv and      *)
(* core_pipe_decode.sv hold values of their width.                         *)
TypeOK ==
    /\ imem_req \in BOOLEAN /\ imem_recv \in BOOLEAN
    /\ imem_addr \in Addr /\ imem_prv \in Modes
    /\ reqs_outstanding \in 0..3 /\ rsps_ignore \in 0..3
    /\ first_req_post_cf \in BOOLEAN
    /\ buf_fill \in {0, 2, 4, 6, 8}
    /\ depth \in 0..31
    /\ d_buffer \in [Slots -> HalfWord]
    /\ e_buffer \in [Slots -> BOOLEAN]
    /\ s2_pc \in Addr /\ rsp_addr \in Addr
    /\ spoilt \in BOOLEAN

(* The designer assertion of core_pipe_fetch_buffer.sv:143: the buffer     *)
(* never holds more than its 16 bytes, whatever the memory stalls and      *)
(* whatever decode eats.                                                   *)
BufferNeverOverflows == depth <= 16

(* core_pipe_fetch.sv:117-144: the counters agree with the bus.  One       *)
(* response is outstanding exactly when one arrives in this cycle, and a   *)
(* response is thrown away only when there is one.                         *)
ResponseCountersExact ==
    /\ reqs_outstanding = bit(imem_recv)
    /\ rsps_ignore <= reqs_outstanding

(* core_pipe_fetch.sv:90-92, 159, 173: a request is on the bus, and a      *)
(* wanted response arrives, only while the buffer has room for a whole     *)
(* word; a request follows another without a gap only when the response    *)
(* to the other is to be thrown away; until the new stream arrives the     *)
(* buffer stays empty; and decode never drains while a fill is armed       *)
(* without its data (the fill would be counted all the same).              *)
RoomForResponse ==
    /\ imem_req \/ fill_en => depth <= 8
    /\ imem_req /\ imem_recv => ignore_rsp
    /\ ignore_rsp \/ first_req_post_cf => imem_req /\ depth = 0
    /\ buf_fill # 0 /\ depth # 0 => fill_en

(* core_pipe_fetch.sv:183, "First request after a CF change": the first    *)
(* response after a redirect is cut to what lies at and above the target,  *)
(* so the fetch buffer is the instruction stream: its halfwords are the    *)
(* halfwords at the program counter of the decode stage and after it, in   *)
(* order, none lost, none twice, none of an abandoned stream, and nothing  *)
(* lies above them.  The code breaks this: see Spoils.                     *)
BufferIsTheStream ==
    \A p \in Slots :
        IF 2*p < depth THEN d_buffer[p].adr = (s2_pc + 2*p) % AddrBytes
                       ELSE d_buffer[p] = Zero

(* core_pipe_fetch.sv:184-220: a stall of the second of two requests in    *)
(* consecutive cycles is the only way to break the stream, and the next    *)
(* redirect repairs it; under every other pattern of grants, redirects and *)
(* decode stalls the fetch buffer is the instruction stream.               *)
StreamUnlessSpoilt == ~spoilt => BufferIsTheStream

(* docs/memory-interface.md: a request that is not granted is held, with   *)
(* its address and privilege, until it is, even if a control flow change   *)
(* or a mode change arrives meanwhile.                                     *)
RequestHeldUntilGranted ==
    [][imem_req /\ ~imem_recv' =>
          imem_req' /\ UNCHANGED <<imem_addr, imem_prv>>]_vars

(* When control flow stays put, an instruction is always presented to      *)
(* decode again: neither a stall nor an abandoned response wedges fetch.   *)
FetchProgress ==
    <>[][~\E i \in Inputs : Redirect(i)]_vars => []<>s2_valid

(* docs/pipeline.md:23: every halfword in the buffer carries the error tag *)
(* of the response it came with.                                           *)
ErrorTagsFollowData ==
    \A p \in Slots : 2*p < depth => e_buffer[p] = d_buffer[p].bad

=============================================================================
