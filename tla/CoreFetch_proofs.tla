-------------------------- MODULE CoreFetch_proofs --------------------------
(***************************************************************************)
(* Proofs about CoreFetch, for every address space, reset address, program *)
(* and set of control flow targets.                                        *)
(***************************************************************************)
EXTENDS CoreFetch, TLAPS

(* The inductive invariant of the control registers. *)
FetchInv ==
    /\ TypeOK
    /\ ResponseCountersExact
    /\ RoomForResponse
    /\ BufferNeverOverflows

(* A halfword OR-ed with a halfword is a halfword. *)
LEMMA OrType ==
    ASSUME NEW a \in HalfWord, NEW b \in HalfWord
    PROVE  Or(a, b) \in HalfWord
BY DEF Or, HalfWord, Junk

(* What arrives from the memory are halfwords. *)
LEMMA DataInType ==
    ASSUME TypeOK, NEW i \in Inputs, NEW k \in 0..3
    PROVE  data_in(i)[k] \in HalfWord
BY AddrAssumption DEF TypeOK, Inputs, data_in, HalfWord, Addr, Junk

(* Decode eats no more than there is, so no depth wraps around. *)
LEMMA DrainBound ==
    ASSUME TypeOK, NEW i \in Inputs
    PROVE  /\ bd_sub(i) \in {0, 2, 4}
           /\ bd_sub(i) <= depth
           /\ shf_up(i) = depth - bd_sub(i)
           /\ (s1_eat_2(i) \/ s1_eat_4(i)) <=> bd_sub(i) # 0
BY DEF TypeOK, Inputs, bd_sub, shf_up, s1_eat_2, s1_eat_4, s1_i16bit, s1_i32bit

(* Reset establishes the invariant.                                        *)
LEMMA InitInv == Init => FetchInv
<1> SUFFICES ASSUME Init PROVE FetchInv
  OBVIOUS
<1>1. TypeOK
  <2>1. d_buffer \in [Slots -> HalfWord] /\ e_buffer \in [Slots -> BOOLEAN]
    BY DEF Init, HalfWord
  <2>2. imem_addr \in Addr /\ s2_pc \in Addr /\ rsp_addr \in Addr
    BY AddrAssumption DEF Init, Addr
  <2>3. /\ imem_req \in BOOLEAN /\ imem_recv \in BOOLEAN
        /\ first_req_post_cf \in BOOLEAN /\ imem_prv \in Modes
        /\ spoilt \in BOOLEAN
    BY DEF Init, Modes
  <2>4. /\ reqs_outstanding \in 0..3 /\ rsps_ignore \in 0..3
        /\ buf_fill \in {0, 2, 4, 6, 8} /\ depth \in 0..31
    BY DEF Init
  <2> QED BY <2>1, <2>2, <2>3, <2>4 DEF TypeOK
<1>2. ResponseCountersExact /\ RoomForResponse /\ BufferNeverOverflows
  BY DEF Init, ResponseCountersExact, RoomForResponse, BufferNeverOverflows,
         bit, fill_en, ignore_rsp
<1> QED BY <1>1, <1>2 DEF FetchInv

(* The registers keep their widths. *)
LEMMA NextType ==
    ASSUME FetchInv, NEW i \in Inputs, Clock(i)
    PROVE  TypeOK'
<1> USE DEF FetchInv
<1>1. imem_req' \in BOOLEAN /\ imem_recv' \in BOOLEAN
  BY DEF Clock, RequestClock, TypeOK, Inputs, n_imem_req, e_imem_req,
         buf_ready, e_cf_change, cf_ack
<1>2. imem_addr' \in Addr /\ s2_pc' \in Addr /\ rsp_addr' \in Addr
  BY AddrAssumption
  DEF Clock, RequestClock, PcClock, MemoryClock, TypeOK, Inputs, Addr,
      n_imem_addr, s2_npc
<1>3. imem_prv' \in Modes
  BY DEF Clock, RequestClock, TypeOK, Inputs
<1>4. reqs_outstanding' \in 0..3 /\ rsps_ignore' \in 0..3
  BY DEF Clock, ResponseClock, TypeOK, n_reqs_outstanding, n_rsps_ignore, bit
<1>5. first_req_post_cf' \in BOOLEAN /\ spoilt' \in BOOLEAN
  BY DEF Clock, FillClock, HistoryClock, TypeOK, Inputs, n_first_req_post_cf,
         e_imem_req, e_cf_change, cf_ack
<1>6. buf_fill' \in {0, 2, 4, 6, 8}
  <2>0. i.cf_target \in Targets
    BY DEF Inputs
  <2>1. i.cf_target \in Nat
    <3>1. Targets \subseteq 0..(AddrBytes - 1) /\ AddrBytes \in Nat
      BY AddrAssumption
    <3>2. i.cf_target \in 0..(AddrBytes - 1)
      BY <2>0, <3>1, Zenon
    <3> QED BY <3>1, <3>2
  <2>2. i.cf_target % 2 = 0 => 8 - (i.cf_target % 8) \in {0, 2, 4, 6, 8}
    BY <2>1
  <2> QED BY <2>2 DEF Clock, FillClock, TypeOK, n_buf_fill
<1>7. depth' \in 0..31
  BY DrainBound DEF Clock, BufferClock, TypeOK, n_depth, bufferVars
<1>8. d_buffer' \in [Slots -> HalfWord]
  <2>1. n_d_buffer(i) \in [Slots -> HalfWord]
    <3>1. SUFFICES ASSUME NEW p \in Slots PROVE n_d_buffer(i)[p] \in HalfWord
      BY DEF n_d_buffer
    <3> DEFINE q == p - shf_up(i) \div 2
               src == p + bd_sub(i) \div 2
               up == IF q >= 0 /\ 2*q < buf_fill
                     THEN data_in(i)[(8 - buf_fill) \div 2 + q] ELSE Zero
               down == IF src \in Slots THEN d_buffer[src] ELSE Zero
    <3>2. up \in HalfWord
      <4>1. q \in Int
        BY DrainBound DEF TypeOK, Slots
      <4>2. q >= 0 /\ 2*q < buf_fill => (8 - buf_fill) \div 2 + q \in 0..3
        BY <4>1 DEF TypeOK
      <4>3. Zero \in HalfWord
        BY DEF HalfWord
      <4> QED BY <4>2, <4>3, DataInType
    <3>3. down \in HalfWord
      BY DEF TypeOK, HalfWord
    <3>4. n_d_buffer(i)[p] = Or(up, down)
      BY DEF n_d_buffer
    <3> QED BY <3>2, <3>3, <3>4, OrType
  <2>2. [p \in Slots |-> Zero] \in [Slots -> HalfWord]
    BY DEF HalfWord
  <2> QED BY <2>1, <2>2 DEF Clock, BufferClock, TypeOK, bufferVars
<1>9. e_buffer' \in [Slots -> BOOLEAN]
  BY DEF Clock, BufferClock, TypeOK, bufferVars, n_e_buffer
<1> QED BY <1>1, <1>2, <1>3, <1>4, <1>5, <1>6, <1>7, <1>8, <1>9 DEF TypeOK

(* The counters are single bits that follow the grant. *)
LEMMA CounterBits ==
    ASSUME FetchInv, NEW i \in Inputs
    PROVE  /\ n_reqs_outstanding(i) = bit(e_imem_req(i))
           /\ rsps_ignore \in {0, 1}
           /\ ignore_rsp <=> rsps_ignore = 1
BY DEF FetchInv, TypeOK, ResponseCountersExact, n_reqs_outstanding, ignore_rsp, bit

(* The counters stay exact: a response is due for each granted request. *)
LEMMA NextCounters ==
    ASSUME FetchInv, NEW i \in Inputs, Clock(i)
    PROVE  ResponseCountersExact'
<1>1. n_reqs_outstanding(i) = bit(e_imem_req(i))
  BY CounterBits
<1>2. reqs_outstanding' = bit(imem_recv')
  BY <1>1 DEF Clock, ResponseClock, RequestClock, bit
<1>3. rsps_ignore \in {0, 1} /\ (ignore_rsp <=> rsps_ignore = 1)
  BY CounterBits
<1>4. rsps_ignore' <= reqs_outstanding'
  <2>1. CASE e_cf_change(i)
    <3>1. rsps_ignore' \in {bit(e_imem_req(i)), 1}
      BY <1>1, <1>3, <2>1 DEF Clock, ResponseClock, n_rsps_ignore, bit
    <3>2. CASE e_imem_req(i)
      BY <3>1, <3>2, <1>1 DEF Clock, ResponseClock, bit
    <3>3. CASE ~e_imem_req(i)
      <4>1. ~ignore_rsp
        BY <3>3, <2>1, <1>3 DEF e_cf_change, cf_ack, e_imem_req, FetchInv,
           RoomForResponse
      <4> QED BY <4>1, <1>1, <2>1, <3>3
              DEF Clock, ResponseClock, n_rsps_ignore, bit
    <3> QED BY <3>2, <3>3
  <2>2. CASE ~e_cf_change(i)
    BY <1>1, <1>3, <2>2 DEF Clock, ResponseClock, n_rsps_ignore, bit
  <2> QED BY <2>1, <2>2
<1> QED BY <1>2, <1>4 DEF ResponseCountersExact

(* How the depth moves in a cycle that is not a redirect. *)
LEMMA NextDepth ==
    ASSUME FetchInv, NEW i \in Inputs, Clock(i), ~e_cf_change(i)
    PROVE  /\ depth' \in 0..16 /\ n_depth(i) \in Int
           /\ depth' <= n_depth(i)
           /\ fill_en \/ depth' <= depth
           /\ depth = 0 /\ ~fill_en => depth' = 0
<1>1. n_depth(i) = depth + buf_fill - bd_sub(i)
  BY DrainBound DEF FetchInv, TypeOK, n_depth, BufferNeverOverflows
<1>2. depth' = IF update_buffer(i) THEN depth + buf_fill - bd_sub(i) ELSE depth
  BY <1>1 DEF Clock, BufferClock, bufferVars
<1>3. ~update_buffer(i) => bd_sub(i) = 0
  BY DrainBound DEF update_buffer, FetchInv
<1> QED BY <1>1, <1>2, <1>3, DrainBound
        DEF update_buffer, FetchInv, TypeOK, RoomForResponse,
            BufferNeverOverflows, fill_en, ignore_rsp

(* A clock edge leaves room for every response that is due.                *)
LEMMA NextRoom ==
    ASSUME FetchInv, NEW i \in Inputs, Clock(i)
    PROVE  RoomForResponse' /\ BufferNeverOverflows'
<1>t. TypeOK' /\ ResponseCountersExact'
  BY NextType, NextCounters
<1>1. CASE e_cf_change(i)
  <2>1. depth' = 0
    BY <1>1 DEF Clock, BufferClock
  <2>2. imem_req' /\ (imem_recv' => rsps_ignore' = 1)
    <3>1. imem_req' /\ imem_recv' = e_imem_req(i)
      BY <1>1 DEF Clock, RequestClock, n_imem_req
    <3>2. rsps_ignore' = IF ignore_rsp THEN 1 ELSE bit(e_imem_req(i))
      BY <1>1, CounterBits DEF Clock, ResponseClock, n_rsps_ignore, bit
    <3> QED BY <3>1, <3>2 DEF bit
  <2> QED BY <2>1, <2>2 DEF RoomForResponse, BufferNeverOverflows, fill_en, ignore_rsp
<1>2. CASE ~e_cf_change(i)
  <2>1. ignore_rsp' = FALSE
    BY <1>2 DEF Clock, ResponseClock, n_rsps_ignore, FetchInv, TypeOK,
       ResponseCountersExact, ignore_rsp, bit
  <2>2. imem_req' \/ imem_recv' => depth' <= 8
    <3>1. CASE imem_req
      BY <3>1, <1>2, NextDepth DEF FetchInv, TypeOK, RoomForResponse, fill_en
    <3>2. CASE ~imem_req
      BY <3>2, <1>2, NextDepth DEF Clock, RequestClock, n_imem_req, buf_ready,
         e_imem_req, FetchInv, TypeOK
    <3> QED BY <3>1, <3>2
  <2>3. ~(imem_req' /\ imem_recv')
    BY <1>2 DEF Clock, RequestClock, n_imem_req, buf_ready, e_imem_req
  <2>4. first_req_post_cf' => imem_req' /\ depth' = 0
    BY <1>2, NextDepth DEF Clock, RequestClock, FillClock, n_imem_req, n_first_req_post_cf,
       e_imem_req, FetchInv, RoomForResponse, fill_en, TypeOK, Inputs
  <2>5. buf_fill' # 0 /\ depth' # 0 => imem_recv'
    BY <1>2, NextDepth DEF Clock, RequestClock, FillClock, n_buf_fill,
       e_imem_req, FetchInv, RoomForResponse, fill_en, ignore_rsp, TypeOK,
       ResponseCountersExact, bit
  <2>6. depth' <= 16
    BY <1>2, NextDepth
  <2> QED BY <2>1, <2>2, <2>3, <2>4, <2>5, <2>6
          DEF RoomForResponse, BufferNeverOverflows, fill_en
<1> QED BY <1>1, <1>2

(* Every cycle of the fetch stage, whatever its inputs, keeps the invariant. *)
THEOREM FetchInvariant == Spec => []FetchInv
<1>1. FetchInv /\ [Next]_vars => FetchInv'
  <2> SUFFICES ASSUME FetchInv, [Next]_vars PROVE FetchInv'
    OBVIOUS
  <2>1. CASE Next
    <3>1. PICK i \in Inputs : Clock(i)
      BY <2>1 DEF Next, Redirect, Run
    <3> QED BY <3>1, NextType, NextCounters, NextRoom DEF FetchInv
  <2>2. CASE UNCHANGED vars
    BY <2>2 DEF vars, fetchVars, bufferVars, FetchInv, TypeOK,
       ResponseCountersExact, RoomForResponse, BufferNeverOverflows, fill_en,
       ignore_rsp
  <2> QED BY <2>1, <2>2
<1> QED BY <1>1, InitInv, PTL DEF Spec

(* The registers of the fetch stage keep their widths and ranges. *)
THEOREM FetchTypeOK == Spec => []TypeOK
BY FetchInvariant, PTL DEF FetchInv

(* The designer assertion on the depth of the fetch buffer holds. *)
THEOREM FetchBufferBound == Spec => []BufferNeverOverflows
BY FetchInvariant, PTL DEF FetchInv

(* Responses are counted exactly. *)
THEOREM FetchCounters == Spec => []ResponseCountersExact
BY FetchInvariant, PTL DEF FetchInv

(* A request is only made when its response fits. *)
THEOREM FetchRoom == Spec => []RoomForResponse
BY FetchInvariant, PTL DEF FetchInv

(* The memory protocol: a stalled request is held. *)
THEOREM FetchRequestHeld == Spec => RequestHeldUntilGranted
<1>1. FetchInv /\ [Next]_vars =>
        [imem_req /\ ~imem_recv' => imem_req' /\ UNCHANGED <<imem_addr, imem_prv>>]_vars
  <2> SUFFICES ASSUME FetchInv, Next, imem_req, ~imem_recv'
               PROVE  imem_req' /\ UNCHANGED <<imem_addr, imem_prv>>
    OBVIOUS
  <2>1. PICK i \in Inputs : Clock(i)
    BY DEF Next, Redirect, Run
  <2> QED BY <2>1 DEF Clock, RequestClock, e_imem_req, n_imem_req, e_cf_change,
             cf_ack, Inputs, FetchInv, TypeOK
<1> QED BY <1>1, FetchInvariant, PTL DEF Spec, RequestHeldUntilGranted

----------------------------------------------------------------------------
(* The instruction stream.  Where the next bytes of the stream come from:  *)
(* from the response that arrives (fill_en), from the first request after  *)
(* a redirect, of which only a part is wanted, or from the next request.   *)
StreamInv ==
    /\ depth % 2 = 0
    /\ ignore_rsp \/ first_req_post_cf =>
          /\ buf_fill = 8 - (s2_pc % 8)
          /\ imem_addr = s2_pc - (s2_pc % 8)
    /\ fill_en =>
          /\ (rsp_addr + (8 - buf_fill)) % AddrBytes = (s2_pc + depth) % AddrBytes
          /\ imem_addr = (rsp_addr + 8) % AddrBytes
    /\ ~imem_recv /\ ~first_req_post_cf =>
          /\ buf_fill = 0
          /\ imem_addr = (s2_pc + depth) % AddrBytes

(* Addresses wrap around at most once. *)
LEMMA Wrap ==
    ASSUME NEW a \in Addr, NEW b \in 0..16
    PROVE  /\ (a + b) % AddrBytes = IF a + b < AddrBytes THEN a + b ELSE a + b - AddrBytes
           /\ (a + b) % AddrBytes \in Addr
<1>1. AddrBytes \in Nat /\ AddrBytes >= 16
  BY AddrAssumption
<1>2. a \in Nat /\ b \in Nat /\ a < AddrBytes /\ a + b < 2 * AddrBytes
  BY <1>1 DEF Addr
<1>3. CASE a + b < AddrBytes
  <2>1. (a + b) % AddrBytes = a + b
    BY <1>1, <1>2, <1>3
  <2> QED BY <1>1, <1>2, <1>3, <2>1 DEF Addr
<1>4. CASE ~(a + b < AddrBytes)
  <2>1. (a + b) % AddrBytes = a + b - AddrBytes
    BY <1>1, <1>2, <1>4
  <2> QED BY <1>1, <1>2, <1>4, <2>1 DEF Addr
<1> QED BY <1>3, <1>4

(* The address b bytes along the stream from a. *)
Along(a, b) == (a + b) % AddrBytes

(* Steps along the stream add up. *)
LEMMA WrapSum ==
    ASSUME NEW a \in Addr, NEW b \in 0..16, NEW c \in 0..16, b + c \in 0..16
    PROVE  Along(Along(a, b), c) = Along(a, b + c)
<1>1. AddrBytes \in Nat /\ AddrBytes >= 16
  BY AddrAssumption
<1>2. /\ Along(a, b) \in Addr
      /\ Along(a, b) = IF a + b < AddrBytes THEN a + b ELSE a + b - AddrBytes
  BY Wrap DEF Along
<1>3. Along(a, b + c) = IF a + (b + c) < AddrBytes THEN a + (b + c)
                        ELSE a + (b + c) - AddrBytes
  BY Wrap DEF Along
<1> DEFINE m == Along(a, b)
<1> HIDE DEF m
<1>4. Along(m, c) = IF m + c < AddrBytes THEN m + c ELSE m + c - AddrBytes
  BY <1>2, Wrap DEF Along, m
<1> QED BY <1>1, <1>2, <1>3, <1>4 DEF Addr, m

(* Adding nothing does not wrap an address.                                *)
LEMMA WrapNone ==
    ASSUME NEW a \in Addr, NEW b, b = 0 PROVE (a + b) % AddrBytes = a
<1>1. AddrBytes \in Nat /\ a \in Nat /\ a < AddrBytes
  BY AddrAssumption DEF Addr
<1> QED BY <1>1

(* A redirect empties the buffer and aims the next request at the word of  *)
(* its target.                                                             *)
LEMMA RedirectStream ==
    ASSUME \A t \in Targets : t % 2 = 0,
           FetchInv, NEW i \in Inputs, Clock(i), e_cf_change(i)
    PROVE  StreamInv' /\ BufferIsTheStream'
<1>1. depth' = 0 /\ d_buffer' = [p \in Slots |-> Zero]
  BY DEF Clock, BufferClock
<1>2. s2_pc' = i.cf_target /\ imem_addr' = i.cf_target - (i.cf_target % 8)
  BY DEF Clock, PcClock, RequestClock
<1>3. buf_fill' = 8 - (i.cf_target % 8)
  BY DEF Clock, FillClock, n_buf_fill, Inputs
<1>4. imem_recv' => rsps_ignore' = 1
  <2>1. imem_recv' = e_imem_req(i)
    BY DEF Clock, RequestClock
  <2>2. rsps_ignore' = IF ignore_rsp THEN 1 ELSE bit(e_imem_req(i))
    BY CounterBits DEF Clock, ResponseClock, n_rsps_ignore, bit
  <2> QED BY <2>1, <2>2 DEF bit
<1>5. imem_recv' \/ first_req_post_cf'
  BY DEF Clock, RequestClock, FillClock, n_first_req_post_cf
<1>6. StreamInv'
  BY <1>1, <1>2, <1>3, <1>4, <1>5 DEF StreamInv, fill_en, ignore_rsp
<1>7. BufferIsTheStream'
  BY <1>1 DEF BufferIsTheStream, Slots
<1> QED BY <1>6, <1>7

(* How the program counter and the depth move in the other cycles. *)
LEMMA RunMoves ==
    ASSUME FetchInv, NEW i \in Inputs, Clock(i), ~e_cf_change(i)
    PROVE  /\ s2_pc' = (s2_pc + bd_sub(i)) % AddrBytes
           /\ depth' = (IF fill_en THEN depth + buf_fill ELSE depth) - bd_sub(i)
           /\ ~ignore_rsp'
           /\ fill_en => ~imem_req /\ ~first_req_post_cf /\ depth <= 8
<1> TypeOK
  BY DEF FetchInv
<1>1. s2_pc' = (s2_pc + bd_sub(i)) % AddrBytes
  <2>1. s2_pc' = IF s1_eat_2(i) \/ s1_eat_4(i) THEN s2_npc ELSE s2_pc
    BY DEF Clock, PcClock
  <2>2. (s2_pc + 0) % AddrBytes = s2_pc
    BY WrapNone DEF TypeOK
  <2> QED BY <2>1, <2>2 DEF s2_npc, bd_sub, s1_eat_2, s1_eat_4, s1_i16bit, s1_i32bit
<1>2. depth' = (IF fill_en THEN depth + buf_fill ELSE depth) - bd_sub(i)
  <2>1. n_depth(i) = depth + buf_fill - bd_sub(i)
    BY DrainBound DEF FetchInv, TypeOK, n_depth, BufferNeverOverflows
  <2>2. depth' = IF update_buffer(i) THEN depth + buf_fill - bd_sub(i) ELSE depth
    BY <2>1 DEF Clock, BufferClock, bufferVars
  <2>3. bd_sub(i) # 0 <=> s1_eat_2(i) \/ s1_eat_4(i)
    BY DrainBound
  <2> QED BY <2>2, <2>3, DrainBound DEF update_buffer, FetchInv, TypeOK, RoomForResponse
<1>3. ~ignore_rsp'
  BY DEF Clock, ResponseClock, n_rsps_ignore, FetchInv, TypeOK,
     ResponseCountersExact, ignore_rsp, bit
<1>4. fill_en => ~imem_req /\ ~first_req_post_cf /\ depth <= 8
  BY DEF FetchInv, RoomForResponse, fill_en
<1> QED BY <1>1, <1>2, <1>3, <1>4

(* Without a jump, an edge extends the stream or shortens it at its head.  *)
LEMMA RunStream ==
    ASSUME FetchInv, StreamInv, NEW i \in Inputs, Clock(i), ~e_cf_change(i), ~Spoils(i)
    PROVE  StreamInv'
<1> DEFINE sub == bd_sub(i)
<1>t. /\ TypeOK /\ s2_pc \in Addr /\ rsp_addr \in Addr /\ imem_addr \in Addr
      /\ depth \in 0..16 /\ buf_fill \in {0, 2, 4, 6, 8}
      /\ sub \in {0, 2, 4} /\ sub <= depth
  BY DrainBound DEF FetchInv, TypeOK, BufferNeverOverflows
<1>1. /\ s2_pc' = (s2_pc + sub) % AddrBytes
      /\ depth' = (IF fill_en THEN depth + buf_fill ELSE depth) - sub
      /\ ~ignore_rsp'
      /\ fill_en => ~imem_req /\ ~first_req_post_cf /\ depth <= 8
  BY RunMoves
<1>2. /\ imem_recv' = e_imem_req(i)
      /\ imem_addr' = IF e_imem_req(i) THEN (imem_addr + 8) % AddrBytes ELSE imem_addr
      /\ rsp_addr' = IF e_imem_req(i) THEN imem_addr ELSE rsp_addr
      /\ buf_fill' = IF ignore_rsp \/ first_req_post_cf THEN buf_fill
                     ELSE IF e_imem_req(i) THEN 8 ELSE 0
  BY DEF Clock, RequestClock, MemoryClock, FillClock, n_imem_addr, n_buf_fill
<1>f. first_req_post_cf' <=> first_req_post_cf /\ ~e_imem_req(i)
  BY DEF Clock, FillClock, n_first_req_post_cf
<1>3. depth' % 2 = 0
  BY <1>t, <1>1 DEF StreamInv
<1>4. CASE fill_en
  <2>1. /\ ~imem_recv' /\ ~first_req_post_cf' /\ buf_fill' = 0
        /\ imem_addr' = (rsp_addr + 8) % AddrBytes
    BY <1>1, <1>2, <1>f, <1>4 DEF e_imem_req, StreamInv, fill_en
  <2>2. Along(Along(rsp_addr, 8 - buf_fill), buf_fill) = Along(rsp_addr, 8)
    <3>1. /\ 8 - buf_fill \in 0..16 /\ buf_fill \in 0..16
          /\ (8 - buf_fill) + buf_fill \in 0..16 /\ (8 - buf_fill) + buf_fill = 8
      BY <1>t
    <3>2. Along(Along(rsp_addr, 8 - buf_fill), buf_fill)
            = Along(rsp_addr, (8 - buf_fill) + buf_fill)
      BY <1>t, <3>1, WrapSum
    <3> QED BY <3>1, <3>2
  <2>3. Along(Along(s2_pc, depth), buf_fill) = Along(s2_pc, depth + buf_fill)
    <3>1. buf_fill \in 0..16 /\ depth + buf_fill \in 0..16
      BY <1>t, <1>1, <1>4
    <3> QED BY <1>t, <3>1, WrapSum
  <2>4. Along(s2_pc', depth') = Along(s2_pc, depth + buf_fill)
    <3>1. /\ sub \in 0..16 /\ depth' \in 0..16 /\ sub + depth' \in 0..16
          /\ sub + depth' = depth + buf_fill
      BY <1>t, <1>1, <1>4
    <3>2. Along(Along(s2_pc, sub), depth') = Along(s2_pc, sub + depth')
      BY <1>t, <3>1, WrapSum
    <3> QED BY <1>1, <3>1, <3>2 DEF Along
  <2>5. imem_addr' = (s2_pc' + depth') % AddrBytes
    <3>1. Along(rsp_addr, 8 - buf_fill) = Along(s2_pc, depth)
      BY <1>4 DEF StreamInv, Along
    <3>2. imem_addr' = Along(rsp_addr, 8)
      BY <2>1 DEF Along
    <3>3. imem_addr' = Along(s2_pc', depth')
      BY <2>2, <2>3, <2>4, <3>1, <3>2
    <3> QED BY <3>3 DEF Along
  <2> QED BY <1>1, <1>3, <2>1, <2>5 DEF StreamInv, fill_en
<1>5. CASE ignore_rsp \/ first_req_post_cf
  <2>1. imem_req /\ depth = 0 /\ ~fill_en /\ depth' = 0 /\ sub = 0
    BY <1>t, <1>1, <1>5 DEF FetchInv, RoomForResponse, fill_en
  <2>2. s2_pc' = s2_pc
    BY <1>t, <1>1, <2>1, WrapNone
  <2>3. /\ buf_fill' = 8 - (s2_pc % 8) /\ buf_fill' = buf_fill
        /\ imem_addr = s2_pc - (s2_pc % 8)
    BY <1>2, <1>5 DEF StreamInv
  <2>4. CASE e_imem_req(i)
    <3>1. /\ imem_recv' /\ ~first_req_post_cf' /\ rsp_addr' = imem_addr
          /\ imem_addr' = (imem_addr + 8) % AddrBytes
      BY <1>2, <1>f, <2>4
    <3>2. rsp_addr' + (8 - buf_fill') = s2_pc' + depth'
      BY <1>t, <2>1, <2>2, <2>3, <3>1, AddrAssumption DEF Addr
    <3> QED BY <1>1, <1>3, <3>1, <3>2 DEF StreamInv, fill_en
  <2>5. CASE ~e_imem_req(i)
    <3>1. first_req_post_cf
      BY <1>5, <2>1, <2>5 DEF Spoils, e_imem_req
    <3>2. ~imem_recv' /\ first_req_post_cf' /\ imem_addr' = imem_addr
      BY <1>2, <1>f, <2>5, <3>1
    <3> QED BY <1>1, <1>3, <2>2, <2>3, <3>2 DEF StreamInv, fill_en
  <2> QED BY <2>4, <2>5
<1>6. CASE ~fill_en /\ ~ignore_rsp /\ ~first_req_post_cf
  <2>1. /\ ~imem_recv /\ buf_fill = 0
        /\ imem_addr = (s2_pc + depth) % AddrBytes
    BY <1>6 DEF fill_en, StreamInv
  <2>2. (s2_pc' + depth') % AddrBytes = (s2_pc + depth) % AddrBytes
    <3>1. /\ sub \in 0..16 /\ depth' \in 0..16 /\ sub + depth' \in 0..16
          /\ sub + depth' = depth
      BY <1>t, <1>1, <1>6
    <3>2. Along(Along(s2_pc, sub), depth') = Along(s2_pc, sub + depth')
      BY <1>t, <3>1, WrapSum
    <3> QED BY <1>1, <3>1, <3>2 DEF Along
  <2>3. ~first_req_post_cf'
    BY <1>f, <1>6
  <2>4. CASE e_imem_req(i)
    <3>1. /\ imem_recv' /\ rsp_addr' = imem_addr /\ buf_fill' = 8
          /\ imem_addr' = (imem_addr + 8) % AddrBytes
      BY <1>2, <1>6, <2>4
    <3>2. (rsp_addr' + (8 - buf_fill')) % AddrBytes = imem_addr
      <4>1. (imem_addr + 0) % AddrBytes = imem_addr
        BY <1>t, WrapNone
      <4> QED BY <3>1, <4>1
    <3> QED BY <1>1, <1>3, <2>1, <2>2, <2>3, <3>1, <3>2 DEF StreamInv, fill_en
  <2>5. CASE ~e_imem_req(i)
    BY <1>1, <1>2, <1>3, <1>6, <2>1, <2>2, <2>3, <2>5 DEF StreamInv, fill_en
  <2> QED BY <2>4, <2>5
<1> QED BY <1>4, <1>5, <1>6

(* OR-ing with an empty slot changes nothing. *)
LEMMA OrZero ==
    ASSUME NEW a PROVE Or(a, Zero) = a /\ Or(Zero, a) = a
BY DEF Or

(* The shifts and the OR of core_pipe_fetch_buffer.sv put the new bytes    *)
(* where the old ones end.                                                 *)
LEMMA RunBuffer ==
    ASSUME FetchInv, StreamInv, BufferIsTheStream,
           NEW i \in Inputs, Clock(i), ~e_cf_change(i)
    PROVE  BufferIsTheStream'
<1> DEFINE sub == bd_sub(i)
<1> TypeOK
  BY DEF FetchInv
<1>t. /\ s2_pc \in Addr /\ rsp_addr \in Addr
      /\ depth \in 0..16 /\ depth % 2 = 0 /\ buf_fill \in {0, 2, 4, 6, 8}
      /\ sub \in {0, 2, 4} /\ sub <= depth /\ shf_up(i) = depth - sub
  BY DrainBound DEF FetchInv, TypeOK, BufferNeverOverflows, StreamInv
<1>1. /\ s2_pc' = (s2_pc + sub) % AddrBytes
      /\ depth' = (IF fill_en THEN depth + buf_fill ELSE depth) - sub
  BY RunMoves
<1>2. CASE ~update_buffer(i)
  <2>1. depth' = depth /\ d_buffer' = d_buffer
    BY <1>2 DEF Clock, BufferClock, bufferVars
  <2>2. sub = 0
    BY <1>2, <1>t, DrainBound DEF update_buffer
  <2>3. s2_pc' = s2_pc
    BY <1>t, <1>1, <2>2, WrapNone
  <2> QED BY <2>1, <2>3 DEF BufferIsTheStream
<1>3. CASE update_buffer(i)
  <2>1. d_buffer' = n_d_buffer(i)
    BY <1>3 DEF Clock, BufferClock
  <2>2. buf_fill # 0 => fill_en /\ depth <= 8
    <3>1. ~fill_en => sub # 0
      BY <1>t, <1>3, DrainBound DEF update_buffer
    <3> QED BY <1>t, <3>1 DEF FetchInv, RoomForResponse
  <2>3. depth' = depth + buf_fill - sub /\ depth' \in 0..16
    BY <1>t, <1>1, <2>2
  <2> SUFFICES ASSUME NEW p \in Slots
               PROVE  IF 2*p < depth' THEN d_buffer'[p].adr = (s2_pc' + 2*p) % AddrBytes
                                      ELSE d_buffer'[p] = Zero
    BY DEF BufferIsTheStream
  <2> DEFINE q == p - (depth - sub) \div 2
             src == p + sub \div 2
             up == IF q >= 0 /\ 2*q < buf_fill
                   THEN data_in(i)[(8 - buf_fill) \div 2 + q] ELSE Zero
             down == IF src \in Slots THEN d_buffer[src] ELSE Zero
  <2>4. d_buffer'[p] = Or(up, down)
    BY <1>t, <2>1 DEF n_d_buffer
  <2>5. /\ p \in 0..7 /\ 2*q = 2*p - (depth - sub) /\ q \in Int
        /\ 2*src = 2*p + sub /\ src \in Nat
    BY <1>t DEF Slots
  <2> HIDE DEF sub, q, src
  <2>6. 2*src >= depth => down = Zero
    <3>1. 2*src >= depth => ~(2*src < depth)
      BY <1>t, <2>5
    <3> QED BY <3>1 DEF BufferIsTheStream
  <2>7. 2*src < depth => /\ up = Zero /\ src \in Slots
                         /\ down.adr = (s2_pc + 2*src) % AddrBytes
    BY <1>t, <2>5 DEF BufferIsTheStream, Slots
  <2>8. CASE 2*src < depth
    <3>1. d_buffer'[p] = down
      BY <2>4, <2>7, <2>8, OrZero
    <3>2. Along(Along(s2_pc, sub), 2*p) = Along(s2_pc, sub + 2*p)
      <4>1. sub \in 0..16 /\ 2*p \in 0..16 /\ sub + 2*p \in 0..16
        BY <1>t, <2>5, <2>8
      <4> QED BY <1>t, <4>1, WrapSum
    <3>3. Along(s2_pc', 2*p) = Along(s2_pc, 2*src)
      <4>1. sub + 2*p = 2*src
        BY <1>t, <2>5
      <4> QED BY <1>1, <3>2, <4>1 DEF Along
    <3>4. 2*p < depth'
      BY <1>t, <2>3, <2>5, <2>8
    <3> HIDE DEF down
    <3> QED BY <2>7, <2>8, <3>1, <3>3, <3>4 DEF Along
  <2>9. CASE 2*src >= depth /\ 2*q < buf_fill
    <3> DEFINE k == (8 - buf_fill) \div 2 + q
    <3>1. q >= 0 /\ k \in 0..3 /\ 2*k = (8 - buf_fill) + 2*q
      BY <1>t, <2>5, <2>9
    <3>2. buf_fill # 0 /\ fill_en /\ depth <= 8
      BY <1>t, <2>5, <2>2, <2>9, <3>1
    <3>3. d_buffer'[p] = data_in(i)[k]
      BY <2>4, <2>6, <2>9, <3>1, OrZero
    <3>4. data_in(i)[k].adr = Along(rsp_addr, 2*k)
      BY <3>1, <3>2 DEF data_in, fill_en, Along
    <3>5. Along(rsp_addr, 2*k) = Along(Along(rsp_addr, 8 - buf_fill), 2*q)
      <4>1. /\ 8 - buf_fill \in 0..16 /\ 2*q \in 0..16 /\ (8 - buf_fill) + 2*q \in 0..16
        BY <1>t, <2>5, <2>9, <3>1
      <4>2. Along(Along(rsp_addr, 8 - buf_fill), 2*q) = Along(rsp_addr, (8 - buf_fill) + 2*q)
        BY <1>t, <4>1, WrapSum
      <4> QED BY <3>1, <4>2
    <3>6. Along(rsp_addr, 8 - buf_fill) = Along(s2_pc, depth)
      BY <3>2 DEF StreamInv, Along
    <3>7. Along(Along(s2_pc, depth), 2*q) = Along(s2_pc, depth + 2*q)
      <4>1. 2*q \in 0..16 /\ depth + 2*q \in 0..16
        BY <1>t, <2>5, <2>9, <3>1, <3>2
      <4> QED BY <1>t, <4>1, WrapSum
    <3>8. Along(Along(s2_pc, sub), 2*p) = Along(s2_pc, sub + 2*p)
      <4>1. sub \in 0..16 /\ 2*p \in 0..16 /\ sub + 2*p \in 0..16
        BY <1>t, <2>5, <2>9, <3>1, <3>2
      <4> QED BY <1>t, <4>1, WrapSum
    <3>9. depth + 2*q = sub + 2*p /\ 2*p < depth'
      BY <1>t, <2>3, <2>5, <2>9
    <3> HIDE DEF k
    <3>10. Along(s2_pc', 2*p) = Along(s2_pc, sub + 2*p)
      BY <1>1, <3>8 DEF Along
    <3>11. d_buffer'[p].adr = Along(s2_pc', 2*p)
      BY <3>3, <3>4, <3>5, <3>6, <3>7, <3>9, <3>10
    <3> QED BY <3>9, <3>11 DEF Along
  <2>10. CASE 2*src >= depth /\ ~(2*q < buf_fill)
    <3>1. up = Zero /\ down = Zero /\ ~(2*p < depth')
      BY <1>t, <2>3, <2>5, <2>6, <2>10
    <3> QED BY <2>4, <3>1, OrZero
  <2>11. 2*src < depth \/ 2*src >= depth
    BY <1>t, <2>5
  <2> QED BY <2>8, <2>9, <2>10, <2>11
<1> QED BY <1>2, <1>3

(* The stream starts at the reset address. *)
LEMMA InitStream == Init => StreamInv /\ BufferIsTheStream
<1> SUFFICES ASSUME Init PROVE StreamInv /\ BufferIsTheStream
  OBVIOUS
<1>1. s2_pc \in Addr
  BY AddrAssumption DEF Init, Addr
<1>2. (s2_pc + depth) % AddrBytes = s2_pc
  BY <1>1, WrapNone DEF Init
<1>3. StreamInv
  BY <1>2 DEF Init, StreamInv, fill_en, ignore_rsp
<1>4. BufferIsTheStream
  BY DEF Init, BufferIsTheStream, Slots
<1> QED BY <1>3, <1>4

(* core_pipe_fetch.sv:184-220, core_pipe_fetch_buffer.sv, core_pipe_decode: *)
(* if control only goes to even addresses, decode sees the instruction     *)
(* stream, the halfwords from the program counter on, whatever memory and  *)
(* decode do, except between a stall of the second of two consecutive      *)
(* redirects and the next redirect.  The stall is the only fault of the    *)
(* stream there is.                                                        *)
THEOREM FetchStream ==
    ASSUME \A t \in Targets : t % 2 = 0
    PROVE  Spec => []StreamUnlessSpoilt
<1> DEFINE Inv == FetchInv /\ (~spoilt => StreamInv /\ BufferIsTheStream)
<1>1. Init => Inv
  BY InitInv, InitStream
<1>2. Inv /\ [Next]_vars => Inv'
  <2> SUFFICES ASSUME Inv, [Next]_vars PROVE Inv'
    OBVIOUS
  <2>1. ASSUME NEW i \in Inputs, Clock(i) PROVE Inv'
    <3>1. FetchInv'
      BY <2>1, NextType, NextCounters, NextRoom DEF FetchInv
    <3>2. CASE e_cf_change(i)
      BY <2>1, <3>1, <3>2, RedirectStream
    <3>3. CASE ~e_cf_change(i)
      <4>1. ~spoilt' => ~spoilt /\ ~Spoils(i)
        BY <2>1, <3>3 DEF Clock, HistoryClock
      <4> QED BY <2>1, <3>1, <3>3, <4>1, RunStream, RunBuffer
    <3> QED BY <3>2, <3>3
  <2>2. CASE UNCHANGED vars
    BY <2>2 DEF vars, fetchVars, bufferVars, FetchInv, TypeOK,
       ResponseCountersExact, RoomForResponse, BufferNeverOverflows, fill_en,
       ignore_rsp, StreamInv, BufferIsTheStream
  <2> QED BY <2>1, <2>2 DEF Next, Redirect, Run
<1>3. Inv => StreamUnlessSpoilt
  BY DEF StreamUnlessSpoilt
<1> QED BY <1>1, <1>2, <1>3, PTL DEF Spec

=============================================================================
