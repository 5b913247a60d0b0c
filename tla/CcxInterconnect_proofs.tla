----------------------- MODULE CcxInterconnect_proofs -----------------------
(***************************************************************************)
(* Proofs about CcxInterconnect, for every memory map, every layout of     *)
(* program and data, every content and every behaviour of the AXI slave.   *)
(***************************************************************************)
EXTENDS CcxInterconnect, TLAPS

(* The mask comparison of ccx_ic_router.sv is an interval test. *)
LEMMA MatchIsInterval ==
    ASSUME NEW a \in Nat, NEW r \in Regions, address_match(a, r)
    PROVE  Base[r] <= a /\ a < Base[r] + Size[r]
<1>1. Base[r] \in Nat /\ Size[r] \in Nat /\ Size[r] > 0
  BY RegionAssumption
<1>2. a % Size[r] \in Nat /\ a % Size[r] < Size[r]
  BY <1>1
<1> QED BY <1>1, <1>2 DEF address_match

(* No address is of two regions. *)
LEMMA OneRegion ==
    ASSUME NEW a \in Nat, NEW r \in Regions, NEW s \in Regions,
           address_match(a, r), address_match(a, s)
    PROVE  r = s
<1>1. Base[r] <= a /\ a < Base[r] + Size[r] /\ Base[s] <= a /\ a < Base[s] + Size[s]
  BY MatchIsInterval
<1>2. /\ Base[r] \in Nat /\ Size[r] \in Nat /\ Base[s] \in Nat /\ Size[s] \in Nat
      /\ r # s => Base[r] + Size[r] <= Base[s] \/ Base[s] + Size[s] <= Base[r]
  BY RegionAssumption
<1> QED BY <1>1, <1>2

(* Requests name words. *)
LEMMA RequestType ==
    ASSUME TypeOK, NEW p \in Ports, NEW q \in Requests(p)
    PROVE  /\ q.adr \in Words /\ q.adr \in Nat
           /\ q.wen \in BOOLEAN
           /\ q.wen => p = "d" /\ q.val \in Values
           /\ ~q.wen => q.val = None
           /\ q = [adr |-> q.adr, wen |-> q.wen, val |-> q.val]
<1>1. layout[p] \subseteq Words /\ Words \subseteq Nat
  BY RegionAssumption DEF TypeOK
<1> QED BY <1>1 DEF Requests

(* A request that is up has the fields of one of its port.                 *)
LEMMA PortType ==
    ASSUME TypeOK, NEW p \in Ports, port[p] # None
    PROVE  /\ port[p] \in Requests(p)
           /\ port[p].adr \in Words /\ port[p].adr \in Nat
           /\ port[p].wen \in BOOLEAN
           /\ port[p].wen => p = "d" /\ port[p].val \in Values
           /\ ~port[p].wen => port[p].val = None
<1>1. port[p] \in Requests(p)
  BY DEF TypeOK
<1> QED BY <1>1, RequestType

(* The router answers from the device whose region the address is in. *)
LEMMA MapIsRegion ==
    ASSUME TypeOK, NEW p \in Ports, NEW r \in Regions, region_req(p, r)
    PROVE  map_core(p) = r
<1>1. port[p] # None /\ port[p].adr \in Nat
  BY PortType DEF region_req
<1>2. \A s \in Regions : region_req(p, s) => s = r
  BY <1>1, OneRegion DEF region_req
<1> QED BY <1>2 DEF map_core, Regions

(* An address belongs to the region that answers it, or to none.           *)
LEMMA MapType ==
    ASSUME NEW p \in Ports, port[p] # None
    PROVE  /\ map_core(p) \in Regions \cup {"none"}
           /\ map_core(p) \in Regions => region_req(p, map_core(p))
           /\ map_core(p) = "none" => \A r \in Regions : ~region_req(p, r)
BY DEF map_core, Regions

----------------------------------------------------------------------------
(* A device sees a request of one of the ports, and a write only from "d". *)
LEMMA DevReqType ==
    ASSUME TypeOK, NEW r \in Regions, dev_req(r) # None
    PROVE  /\ dev_req(r).adr \in Words /\ address_match(dev_req(r).adr, r)
           /\ dev_req(r).wen \in BOOLEAN
           /\ dev_req(r).wen => /\ route_req_r0(r) /\ dev_req(r) = port["d"]
                                /\ dev_req(r).val \in Values
           /\ ~dev_req(r).wen => dev_req(r).val = None
<1>1. CASE route_req_r0(r)
  <2>1. dev_req(r) = port["d"] /\ region_req("d", r)
    BY <1>1 DEF dev_req, route_req_r0
  <2> QED BY <1>1, <2>1, PortType DEF Ports, region_req
<1>2. CASE ~route_req_r0(r)
  <2>1. dev_req(r) = port["i"] /\ region_req("i", r)
    BY <1>2 DEF dev_req
  <2> QED BY <2>1, PortType DEF Ports, region_req
<1> QED BY <1>1, <1>2

(* What a device does with the request it sees, device by device. *)
LEMMA DevWriteCases ==
    ASSUME NEW r \in Regions, NEW q
    PROVE  /\ r = "ram"  => (dev_write(r, q) <=> q.wen)
           /\ r = "mmio" => (dev_write(r, q) <=> (q.wen /\ ~mmio_bad_addr(q)))
           /\ r \in {"rom", "ext"} => ~dev_write(r, q)
BY DEF dev_write

(* What each region puts in its read register.                             *)
LEMMA RdataCases ==
    ASSUME NEW r \in Regions, NEW x
    PROVE  /\ r = "ext" /\ ext_gnt(x) =>
                n_rdata(r, x) = IF x.rvalid THEN mem[slave.ar] ELSE None
           /\ r \in {"rom", "ram"} /\ dev_req(r) # None =>
                n_rdata(r, x) = mem[dev_req(r).adr]
           /\ r = "mmio" /\ dev_req(r) # None =>
                n_rdata(r, x) = IF dev_req(r).wen \/ mmio_bad_addr(dev_req(r))
                                THEN rdata[r] ELSE mem[dev_req(r).adr]
           /\ r = "ext" /\ ~ext_gnt(x) => n_rdata(r, x) = rdata[r]
           /\ r # "ext" /\ dev_req(r) = None => n_rdata(r, x) = rdata[r]
BY DEF n_rdata, Regions

(* What each region puts in its error register.                            *)
LEMMA RerrCases ==
    ASSUME NEW r \in Regions, NEW x
    PROVE  /\ r = "ext" => n_rerr(r, x) = IF ext_gnt(x) THEN x.resp ELSE rerr[r]
           /\ r = "rom" => n_rerr(r, x) = (dev_req(r) # None /\ dev_req(r).wen)
           /\ r = "ram" => n_rerr(r, x) = FALSE
           /\ r = "mmio" => n_rerr(r, x) = IF dev_req(r) # None
                                           THEN mmio_bad_addr(dev_req(r)) ELSE rerr[r]
BY DEF n_rerr, Regions

----------------------------------------------------------------------------
(* Only a fetch from external memory is ever in flight at an arbiter, and  *)
(* it stays on the port meanwhile.                                         *)
StalledFetchStays ==
    \A r \in Regions : inflight_r1[r] => r = "ext" /\ region_req("i", r)

(* The inductive invariant. *)
IInv == TypeOK /\ BridgeHoldsWhatSlaveHas /\ StalledFetchStays

(* What the AXI slave may do in a state of the invariant. *)
LEMMA InputFacts ==
    ASSUME IInv, NEW x \in SlaveInputs
    PROVE  /\ x.arready \in BOOLEAN /\ x.awready \in BOOLEAN /\ x.wready \in BOOLEAN
           /\ x.rvalid \in BOOLEAN /\ x.bvalid \in BOOLEAN /\ x.resp \in BOOLEAN
           /\ x.arready => ~req_rd_out /\ dev_req("ext") # None /\ ~dev_req("ext").wen
           /\ x.awready => ~req_wa_out /\ dev_req("ext") # None /\ dev_req("ext").wen
           /\ x.wready => ~req_wr_out /\ dev_req("ext") # None /\ dev_req("ext").wen
           /\ x.rvalid => /\ req_rd_out /\ ~x.bvalid /\ dev_req("ext") # None
                          /\ ~dev_req("ext").wen /\ slave.ar = dev_req("ext").adr
           /\ x.bvalid => /\ req_wa_out /\ req_wr_out /\ ~x.rvalid /\ dev_req("ext") # None
                          /\ dev_req("ext").wen /\ slave.aw = dev_req("ext").adr
                          /\ slave.w = dev_req("ext").val
BY DEF IInv, BridgeHoldsWhatSlaveHas, SlaveInputs, axi_arvalid, axi_awvalid,
       axi_wvalid, axi_addr

(* What a port that is granted asked, and which device saw it. *)
LEMMA GrantFacts ==
    ASSUME TypeOK, NEW p \in Ports, NEW x, gnt(p, x)
    PROVE  /\ port[p] # None
           /\ map_core(p) \in Regions \cup {"none"}
           /\ map_core(p) = "none" => \A r \in Regions : ~region_req(p, r)
           /\ map_core(p) \in Regions =>
                 /\ region_req(p, map_core(p))
                 /\ dev_req(map_core(p)) = port[p]
                 /\ IF p = "d" THEN route_req_r0(map_core(p)) ELSE route_req_r1(map_core(p))
                 /\ dev_gnt(map_core(p), x)
<1>1. port[p] # None /\ (map_core(p) = "none" \/ arb_gnt(p, map_core(p), x))
  BY DEF gnt
<1>2. ASSUME map_core(p) \in Regions PROVE arb_gnt(p, map_core(p), x)
  BY <1>1, <1>2 DEF Regions
<1>3. ASSUME map_core(p) \in Regions PROVE dev_req(map_core(p)) = port[p]
  <2>1. CASE p = "d"
    BY <1>2, <1>3, <2>1 DEF arb_gnt, dev_req
  <2>2. CASE p = "i"
    BY <1>2, <1>3, <2>2 DEF arb_gnt, dev_req, route_req_r0, route_req_r1
  <2> QED BY <2>1, <2>2 DEF Ports
<1> QED BY <1>1, <1>2, <1>3, MapType DEF arb_gnt

(* A port that is not granted keeps its request. *)
LEMMA RequestHeld ==
    ASSUME NEW x, RequestClock(x), NEW p \in Ports, port[p] # None, ~gnt(p, x)
    PROVE  port'[p] = port[p]
BY DEF RequestClock, Ports

(* An external access that is not answered stays where it is: a data       *)
(* request is not overtaken by a fetch, nor a fetch by a data request.     *)
LEMMA OfferStays ==
    ASSUME IInv, NEW x \in SlaveInputs, Clock(x), dev_req("ext") # None, ~ext_gnt(x)
    PROVE  dev_req("ext")' = dev_req("ext")
<1> "ext" \in Regions /\ "i" \in Ports /\ "d" \in Ports
  BY DEF Regions, Ports
<1>1. RequestClock(x) /\ inflight_r1' = [r \in Regions |-> n_inflight_r1(r, x)]
  BY DEF Clock, InterconnectClock
<1>2. \A p \in Ports : region_req(p, "ext") => ~gnt(p, x)
  <2> SUFFICES ASSUME NEW p \in Ports, region_req(p, "ext"), gnt(p, x) PROVE FALSE
    OBVIOUS
  <2>1. map_core(p) = "ext"
    BY MapIsRegion DEF IInv
  <2> QED BY <2>1, GrantFacts DEF dev_gnt, IInv
<1>3. \A p \in Ports : region_req(p, "ext") => port'[p] = port[p] /\ region_req(p, "ext")'
  BY <1>1, <1>2, RequestHeld DEF region_req
<1>4. CASE route_req_r0("ext")
  <2>1. region_req("d", "ext") /\ ~inflight_r1["ext"]
    BY <1>4 DEF route_req_r0
  <2>2. ~inflight_r1'["ext"]
    BY <1>1, <2>1 DEF n_inflight_r1
  <2>3. route_req_r0("ext")'
    BY <1>3, <2>1, <2>2 DEF route_req_r0
  <2>4. dev_req("ext")' = port'["d"]
    BY <2>3 DEF dev_req
  <2> QED BY <1>3, <1>4, <2>1, <2>4 DEF dev_req
<1>5. CASE ~route_req_r0("ext")
  <2>1. region_req("i", "ext") /\ dev_req("ext") = port["i"]
    BY <1>5 DEF dev_req
  <2>2. inflight_r1'["ext"]
    BY <1>1, <1>5, <2>1 DEF n_inflight_r1, route_req_r0, arb_gnt, dev_gnt
  <2>3. ~route_req_r0("ext")' /\ region_req("i", "ext")'
    BY <1>3, <2>1, <2>2 DEF route_req_r0
  <2>4. dev_req("ext")' = port'["i"]
    BY <2>3 DEF dev_req
  <2> QED BY <1>3, <2>1, <2>4
<1> QED BY <1>4, <1>5

----------------------------------------------------------------------------
(* The invariant holds after reset. *)
LEMMA InitIInv == ASSUME Init PROVE IInv
<1>1. TypeOK
  BY RegionAssumption DEF Init, TypeOK, Regions
<1>2. BridgeHoldsWhatSlaveHas
  BY DEF Init, BridgeHoldsWhatSlaveHas
<1>3. StalledFetchStays
  BY DEF Init, StalledFetchStays
<1> QED BY <1>1, <1>2, <1>3 DEF IInv

(* A clock edge keeps the types.                                           *)
LEMMA StepType ==
    ASSUME IInv, NEW x \in SlaveInputs, Clock(x) PROVE TypeOK'
<1> TypeOK
  BY DEF IInv
<1>1. layout' = layout /\ layout' \in Layouts /\ \A p \in Ports : Requests(p)' = Requests(p)
  BY DEF TypeOK, Clock, RequestClock, Requests
<1>2. \A p \in Ports : port'[p] \in Requests(p) \cup {None}
  BY DEF Clock, RequestClock, Ports
<1>3. \A p \in Ports : asked'[p] \in Requests(p) \cup {None}
  <2>1. asked' = [p \in Ports |-> IF gnt(p, x) THEN port[p] ELSE None]
    BY DEF Clock, RequestClock
  <2> QED BY <2>1 DEF TypeOK
<1>4. \A p \in Ports : rsp_route'[p] \in Regions \cup {"none", None}
  <2> SUFFICES ASSUME NEW p \in Ports PROVE rsp_route'[p] \in Regions \cup {"none", None}
    OBVIOUS
  <2>1. rsp_route'[p] = IF gnt(p, x) THEN map_core(p) ELSE None
    BY DEF Clock, InterconnectClock, n_rsp_route
  <2> QED BY <2>1, GrantFacts
<1>5. /\ inflight_r1' \in [Regions -> BOOLEAN]
      /\ route_rsp_0' \in [Regions -> BOOLEAN]
      /\ route_rsp_1' \in [Regions -> BOOLEAN]
  BY DEF Clock, InterconnectClock, n_inflight_r1, route_req_r0, route_req_r1, region_req
<1>6. mem' \in [Words -> Values]
  <2>1. mem' = [a \in Words |-> n_mem(a, x)]
    BY DEF Clock, DeviceClock
  <2> SUFFICES ASSUME NEW a \in Words PROVE n_mem(a, x) \in Values
    BY <2>1
  <2> DEFINE R == {r \in Regions : /\ dev_req(r) # None
                                   /\ dev_req(r).adr = a
                                   /\ dev_write(r, dev_req(r))}
  <2>2. \A r \in R : dev_req(r).val \in Values
    BY DevReqType, DevWriteCases DEF Regions
  <2>3. x.bvalid => slave.w \in Values
    BY InputFacts, DevReqType DEF Regions
  <2>4. n_mem(a, x) = IF R # {} THEN dev_req(CHOOSE r \in R : TRUE).val
                      ELSE IF x.bvalid /\ ~x.resp /\ slave.aw = a THEN slave.w
                      ELSE mem[a]
    BY DEF n_mem
  <2>5. R # {} => (CHOOSE r \in R : TRUE) \in R
    OBVIOUS
  <2> HIDE DEF R
  <2> QED BY <2>2, <2>3, <2>4, <2>5 DEF TypeOK
<1>7. rdata' \in [Regions -> Values \cup {None}]
  <2>1. rdata' = [r \in Regions |-> n_rdata(r, x)]
    BY DEF Clock, DeviceClock
  <2> SUFFICES ASSUME NEW r \in Regions PROVE n_rdata(r, x) \in Values \cup {None}
    BY <2>1
  <2>2. rdata[r] \in Values \cup {None} /\ \A a \in Words : mem[a] \in Values
    BY DEF TypeOK
  <2>3. dev_req(r) # None => dev_req(r).adr \in Words
    BY DevReqType
  <2>4. x.rvalid => slave.ar \in Words
    BY InputFacts, DevReqType DEF Regions
  <2> QED BY <2>2, <2>3, <2>4, RdataCases DEF Regions
<1>8. rerr' \in [Regions -> BOOLEAN]
  <2>1. rerr' = [r \in Regions |-> n_rerr(r, x)]
    BY DEF Clock, DeviceClock
  <2> SUFFICES ASSUME NEW r \in Regions PROVE n_rerr(r, x) \in BOOLEAN
    BY <2>1
  <2>2. rerr[r] \in BOOLEAN /\ x.resp \in BOOLEAN
    BY InputFacts DEF TypeOK
  <2>3. dev_req(r) # None => dev_req(r).wen \in BOOLEAN
    BY DevReqType
  <2>4. mmio_bad_addr(dev_req(r)) \in BOOLEAN
    BY DEF mmio_bad_addr
  <2> QED BY <2>2, <2>3, <2>4, RerrCases DEF Regions
<1>9. req_rd_out' \in BOOLEAN /\ req_wa_out' \in BOOLEAN /\ req_wr_out' \in BOOLEAN
  BY InputFacts DEF Clock, BridgeClock, outstanding
<1>10. slave' \in [ar : Words \cup {None}, aw : Words \cup {None}, w : Values \cup {None}]
  <2>1. dev_req("ext") # None => /\ axi_addr \in Words
                                 /\ dev_req("ext").val \in Values \cup {None}
    BY DevReqType DEF Regions, axi_addr
  <2> QED BY <2>1, InputFacts DEF Clock, SlaveClock, TypeOK
<1> QED BY <1>1, <1>2, <1>3, <1>4, <1>5, <1>6, <1>7, <1>8, <1>9, <1>10 DEF TypeOK

(* A fetch that waited for a port still asks after the edge.               *)
LEMMA StepStalled ==
    ASSUME IInv, NEW x \in SlaveInputs, Clock(x) PROVE StalledFetchStays'
<1> SUFFICES ASSUME NEW r \in Regions, inflight_r1'[r]
             PROVE  r = "ext" /\ region_req("i", r)'
  BY DEF StalledFetchStays
<1>1. /\ region_req("i", r) /\ ~arb_gnt("i", r, x)
      /\ inflight_r1[r] \/ ~region_req("d", r)
  BY DEF Clock, InterconnectClock, n_inflight_r1
<1>2. r = "ext"
  BY <1>1 DEF IInv, StalledFetchStays, arb_gnt, dev_gnt, route_req_r1
<1>3. map_core("i") = r
  BY <1>1, MapIsRegion DEF IInv, Ports
<1>4. ~gnt("i", x)
  BY <1>1, <1>2, <1>3 DEF gnt
<1>5. port'["i"] = port["i"]
  BY <1>1, <1>4, RequestHeld DEF Clock, Ports, region_req
<1> QED BY <1>1, <1>2, <1>5 DEF region_req

(* Once the slave answers nothing is outstanding; until then what it was   *)
(* given stays on the bus (OfferStays).                                    *)
LEMMA StepBridge ==
    ASSUME IInv, NEW x \in SlaveInputs, Clock(x) PROVE BridgeHoldsWhatSlaveHas'
<1> USE DEF Regions
<1> DEFINE q == dev_req("ext")
<1>1. /\ req_rd_out' = outstanding(req_rd_out, x.arready, x.rvalid)
      /\ req_wa_out' = outstanding(req_wa_out, x.awready, x.bvalid)
      /\ req_wr_out' = outstanding(req_wr_out, x.wready, x.bvalid)
      /\ slave'.ar = IF x.arready THEN q.adr ELSE IF x.rvalid THEN None ELSE slave.ar
      /\ slave'.aw = IF x.awready THEN q.adr ELSE IF x.bvalid THEN None ELSE slave.aw
      /\ slave'.w = IF x.wready THEN q.val ELSE IF x.bvalid THEN None ELSE slave.w
  BY DEF Clock, BridgeClock, SlaveClock, axi_addr
<1>2. /\ req_rd_out \in BOOLEAN /\ req_wa_out \in BOOLEAN /\ req_wr_out \in BOOLEAN
      /\ q # None => q.adr # None
      /\ q # None /\ q.wen => q.val # None
  BY DevReqType, RegionAssumption DEF IInv, TypeOK
<1>3. /\ req_rd_out <=> slave.ar # None
      /\ req_wa_out <=> slave.aw # None
      /\ req_wr_out <=> slave.w # None
      /\ req_rd_out => q # None /\ ~q.wen /\ slave.ar = q.adr
      /\ req_wa_out => q # None /\ q.wen /\ slave.aw = q.adr
      /\ req_wr_out => q # None /\ q.wen /\ slave.w = q.val
  BY DEF IInv, BridgeHoldsWhatSlaveHas, axi_addr
<1>4. CASE ext_gnt(x)
  <2>1. ~req_rd_out' /\ ~req_wa_out' /\ ~req_wr_out'
    BY <1>1, <1>2, <1>3, <1>4, InputFacts DEF outstanding, ext_gnt
  <2>2. slave'.ar = None /\ slave'.aw = None /\ slave'.w = None
    BY <1>1, <1>2, <1>3, <1>4, InputFacts DEF ext_gnt
  <2> QED BY <2>1, <2>2 DEF BridgeHoldsWhatSlaveHas
<1>5. CASE ~ext_gnt(x)
  <2>1. /\ req_rd_out' <=> req_rd_out \/ x.arready
        /\ req_wa_out' <=> req_wa_out \/ x.awready
        /\ req_wr_out' <=> req_wr_out \/ x.wready
    BY <1>1, <1>2, <1>5, InputFacts DEF outstanding, ext_gnt
  <2>2. /\ req_rd_out' => q # None /\ ~q.wen /\ slave'.ar = q.adr
        /\ req_wa_out' => q # None /\ q.wen /\ slave'.aw = q.adr
        /\ req_wr_out' => q # None /\ q.wen /\ slave'.w = q.val
    BY <1>1, <1>3, <1>5, <2>1, InputFacts DEF ext_gnt
  <2>3. /\ req_rd_out' <=> slave'.ar # None
        /\ req_wa_out' <=> slave'.aw # None
        /\ req_wr_out' <=> slave'.w # None
    BY <1>1, <1>2, <1>3, <1>5, <2>1, InputFacts DEF ext_gnt
  <2>4. q # None => dev_req("ext")' = q
    BY <1>5, OfferStays
  <2> HIDE DEF q
  <2> QED BY <2>2, <2>3, <2>4 DEF BridgeHoldsWhatSlaveHas, axi_addr
<1> QED BY <1>4, <1>5

(* Nothing changes in a stuttering step.                                   *)
LEMMA StutterIInv == ASSUME IInv, UNCHANGED vars PROVE IInv'
<1> USE DEF vars, requestVars, icVars, deviceVars, bridgeVars
<1>1. TypeOK'
  BY DEF IInv, TypeOK, Requests
<1>2. /\ \A p \in Ports, r \in Regions : region_req(p, r)' <=> region_req(p, r)
      /\ \A r \in Regions : dev_req(r)' = dev_req(r)
  BY DEF region_req, dev_req, route_req_r0, Ports
<1>3. BridgeHoldsWhatSlaveHas'
  BY <1>2 DEF IInv, BridgeHoldsWhatSlaveHas, axi_addr, Regions
<1>4. StalledFetchStays'
  BY <1>2 DEF IInv, StalledFetchStays, Ports
<1> QED BY <1>1, <1>3, <1>4 DEF IInv

(* The invariant of the memory system. *)
THEOREM InterconnectInvariant == Spec => []IInv
<1>1. IInv /\ [Next]_vars => IInv'
  <2> SUFFICES ASSUME IInv, [Next]_vars PROVE IInv'
    OBVIOUS
  <2>1. ASSUME NEW x \in SlaveInputs, Clock(x) PROVE IInv'
    BY <2>1, StepType, StepBridge, StepStalled DEF IInv
  <2> QED BY <2>1, StutterIInv DEF Next
<1> QED BY InitIInv, <1>1, PTL DEF Spec

(* ccx_ic_router.sv, ccx_ic_arbiter.sv, bridge_ccx_axi4lite.v: the         *)
(* registers keep their types for every memory map.                        *)
THEOREM InterconnectTypeOK == Spec => []TypeOK
BY InterconnectInvariant, PTL DEF IInv

(* bridge_ccx_axi4lite.v:63-67: bridge and slave agree on what is          *)
(* outstanding, and the bus still shows the request the slave was given.   *)
THEOREM BridgeAgreesWithSlave == Spec => []BridgeHoldsWhatSlaveHas
BY InterconnectInvariant, PTL DEF IInv

----------------------------------------------------------------------------
(* The AXI handshake of bridge_ccx_axi4lite.v: what is offered and not     *)
(* taken stays on the bus.                                                 *)
THEOREM AxiOffersAreHeld == Spec => AxiOfferHeld
<1> DEFINE A == /\ axi_arvalid /\ ~req_rd_out' => axi_arvalid' /\ axi_addr' = axi_addr
                /\ axi_awvalid /\ ~req_wa_out' => axi_awvalid' /\ axi_addr' = axi_addr
                /\ axi_wvalid /\ ~req_wr_out' => axi_wvalid' /\ dev_req("ext")' = dev_req("ext")
<1>1. IInv /\ [Next]_vars => [A]_vars
  <2> SUFFICES ASSUME IInv, NEW x \in SlaveInputs, Clock(x) PROVE A
    BY DEF Next
  <2>1. axi_arvalid \/ axi_awvalid \/ axi_wvalid => dev_req("ext") # None /\ ~ext_gnt(x)
    BY InputFacts DEF axi_arvalid, axi_awvalid, axi_wvalid, ext_gnt
  <2>2. axi_arvalid \/ axi_awvalid \/ axi_wvalid => dev_req("ext")' = dev_req("ext")
    BY <2>1, OfferStays
  <2> QED BY <2>1, <2>2 DEF axi_arvalid, axi_awvalid, axi_wvalid, axi_addr
<1> QED BY InterconnectInvariant, <1>1, PTL DEF Spec, AxiOfferHeld

(* ccx_ic_arbiter.sv:9: on chip a data access is granted at once, whatever *)
(* the instruction port does.                                              *)
THEOREM DataIsServedOnChip == Spec => DataNeverWaitsOnChip
<1> DEFINE A == port["d"] # None /\ ~region_req("d", "ext") => asked'["d"] = port["d"]
<1>1. IInv /\ [Next]_vars => [A]_vars
  <2> SUFFICES ASSUME IInv, NEW x \in SlaveInputs, Clock(x),
                      port["d"] # None, ~region_req("d", "ext")
               PROVE  asked'["d"] = port["d"]
    BY DEF Next
  <2>1. /\ map_core("d") \in Regions \cup {"none"}
        /\ map_core("d") \in Regions => region_req("d", map_core("d"))
    BY MapType DEF Ports
  <2>2. map_core("d") \in Regions => map_core("d") # "ext" /\ ~inflight_r1[map_core("d")]
    BY <2>1 DEF IInv, StalledFetchStays
  <2>3. gnt("d", x)
    BY <2>1, <2>2 DEF gnt, arb_gnt, route_req_r0, dev_gnt
  <2> QED BY <2>3 DEF Clock, RequestClock, Ports
<1> QED BY InterconnectInvariant, <1>1, PTL DEF Spec, DataNeverWaitsOnChip

----------------------------------------------------------------------------
(* Does the request of port p that is granted in the cycle x fail? *)
Fails(p, x) == IF map_core(p) = "none" THEN TRUE ELSE n_rerr(map_core(p), x)

(* The error a granted port sees in the next cycle is one SharedMemory     *)
(* allows for its request.                                                 *)
LEMMA ErrorAllowed ==
    ASSUME IInv, NEW x \in SlaveInputs, Clock(x), NEW p \in Ports, gnt(p, x)
    PROVE  /\ rsp_err(p)' = Fails(p, x)
           /\ Fails(p, x) \in BOOLEAN /\ Fails(p, x) \in SM!Errors(port[p])
           /\ map_core(p) \in Regions => Fails(p, x) = n_rerr(map_core(p), x)
<1> DEFINE r == map_core(p)
<1> TypeOK
  BY DEF IInv
<1>1. rsp_route'[p] = r
  BY DEF Clock, InterconnectClock, n_rsp_route
<1>2. port[p] # None /\ port[p].adr \in Words /\ port[p].adr \in Nat /\ port[p].wen \in BOOLEAN
  BY GrantFacts, PortType
<1>3. r \in Regions \cup {"none"}
  BY GrantFacts
<1>4. CASE r = "none"
  <2>1. rsp_err(p)' = TRUE
    BY <1>1, <1>4 DEF rsp_err, Regions
  <2>2. \A s \in Regions : ~address_match(port[p].adr, s)
    BY <1>2, <1>4, GrantFacts DEF region_req
  <2>3. SM!Errors(port[p]) = {TRUE}
    BY <1>2, <2>2 DEF SM!Errors
  <2> QED BY <1>4, <2>1, <2>3 DEF Fails, Regions
<1>5. CASE r \in Regions
  <2>1. /\ region_req(p, r) /\ dev_req(r) = port[p] /\ dev_gnt(r, x)
        /\ IF p = "d" THEN route_req_r0(r) ELSE route_req_r1(r)
    BY <1>5, GrantFacts
  <2>2. n_rerr(r, x) \in BOOLEAN /\ rerr' = [s \in Regions |-> n_rerr(s, x)]
    <3>1. rerr' \in [Regions -> BOOLEAN]
      BY StepType DEF TypeOK
    <3>2. rerr' = [s \in Regions |-> n_rerr(s, x)]
      BY DEF Clock, DeviceClock
    <3> QED BY <1>5, <3>1, <3>2
  <2>3. rsp_err(p)' = n_rerr(r, x)
    <3>1. IF p = "d" THEN route_rsp_0'[r] ELSE route_rsp_1'[r]
      BY <1>5, <2>1 DEF Clock, InterconnectClock
    <3> QED BY <1>1, <1>5, <2>2, <3>1 DEF rsp_err
  <2>4. \A s \in Regions : address_match(port[p].adr, s) <=> s = r
    BY <1>2, <1>5, <2>1, OneRegion DEF region_req
  <2>5. n_rerr(r, x) \in SM!Errors(port[p])
    <3>1. CASE r = "rom"
      <4>1. n_rerr(r, x) = port[p].wen
        BY <1>2, <1>5, <2>1, <3>1, RerrCases
      <4> QED BY <1>2, <2>4, <3>1, <4>1 DEF SM!Errors, Regions
    <3>2. CASE r = "ram"
      <4>1. n_rerr(r, x) = FALSE
        BY <1>5, <3>2, RerrCases
      <4> QED BY <1>2, <2>4, <3>2, <4>1 DEF SM!Errors, Regions
    <3>3. CASE r = "ext"
      BY <1>2, <2>2, <2>4, <3>3 DEF SM!Errors, Regions
    <3>4. CASE r = "mmio"
      <4>1. n_rerr(r, x) = (port[p].adr >= Base["mmio"] + 2)
        BY <1>2, <1>5, <2>1, <3>4, RerrCases DEF mmio_bad_addr
      <4>2. address_match(port[p].adr, "mmio")
        BY <2>4, <3>4 DEF Regions
      <4>3. CASE port[p].adr >= Base["mmio"] + 2
        <5>1. SM!Errors(port[p]) = {TRUE}
          BY <1>2, <4>2, <4>3 DEF SM!Errors
        <5> QED BY <4>1, <4>3, <5>1
      <4>4. CASE ~(port[p].adr >= Base["mmio"] + 2)
        <5>1. SM!Errors(port[p]) = {FALSE}
          BY <1>2, <2>4, <3>4, <4>2, <4>4 DEF SM!Errors, Regions
        <5>2. n_rerr(r, x) = FALSE
          BY <2>2, <4>1, <4>4
        <5> QED BY <5>1, <5>2
      <4> QED BY <4>3, <4>4
    <3> QED BY <1>5, <3>1, <3>2, <3>3, <3>4 DEF Regions
  <2> QED BY <1>5, <2>2, <2>3, <2>5 DEF Fails, Regions
<1> QED BY <1>3, <1>4, <1>5

(* A granted read that does not fail returns the value of its word. *)
LEMMA DataIsOfTheWord ==
    ASSUME IInv, NEW x \in SlaveInputs, Clock(x), NEW p \in Ports, gnt(p, x),
           ~port[p].wen, ~Fails(p, x)
    PROVE  rsp_rdata(p)' = mem[port[p].adr]
<1> DEFINE r == map_core(p)
<1>1. r \in Regions
  BY GrantFacts DEF IInv, Fails
<1>2. dev_req(r) = port[p] /\ dev_req(r) # None /\ dev_gnt(r, x)
  BY <1>1, GrantFacts DEF IInv
<1>3. rsp_rdata(p)' = n_rdata(r, x)
  <2>1. rsp_route'[p] = r
    BY DEF Clock, InterconnectClock, n_rsp_route
  <2>2. rdata' = [s \in Regions |-> n_rdata(s, x)]
    BY DEF Clock, DeviceClock
  <2> QED BY <1>1, <2>1, <2>2 DEF rsp_rdata
<1>4. CASE r = "ext"
  <2>1. ext_gnt(x) /\ x.rvalid /\ slave.ar = port[p].adr
    BY <1>2, <1>4, InputFacts DEF dev_gnt, ext_gnt
  <2> QED BY <1>1, <1>3, <1>4, <2>1, RdataCases
<1>5. CASE r \in {"rom", "ram"}
  BY <1>1, <1>2, <1>3, <1>5, RdataCases
<1>6. CASE r = "mmio"
  <2>1. ~mmio_bad_addr(port[p])
    BY <1>1, <1>2, <1>6, ErrorAllowed, RerrCases
  <2> QED BY <1>1, <1>2, <1>3, <1>6, <2>1, RdataCases
<1> QED BY <1>1, <1>4, <1>5, <1>6 DEF Regions

(* A device that is about to write does what the data port asked, in the   *)
(* cycle in which that port is granted.                                    *)
LEMMA DeviceWritesForData ==
    ASSUME IInv, NEW x \in SlaveInputs, Clock(x), NEW r \in Regions,
           dev_req(r) # None,
           dev_write(r, dev_req(r)) \/ (r = "ext" /\ x.bvalid /\ ~x.resp)
    PROVE  /\ gnt("d", x) /\ map_core("d") = r /\ dev_req(r) = port["d"]
           /\ port["d"].wen /\ ~Fails("d", x)
<1> TypeOK /\ "d" \in Ports
  BY DEF IInv, Ports
<1>1. dev_req(r).wen
  BY DevWriteCases, InputFacts DEF Regions
<1>2. route_req_r0(r) /\ dev_req(r) = port["d"] /\ port["d"].wen
  BY <1>1, DevReqType
<1>3. map_core("d") = r
  BY <1>2, MapIsRegion DEF route_req_r0
<1>4. dev_gnt(r, x)
  BY DevWriteCases, InputFacts DEF dev_gnt, ext_gnt, Regions
<1>5. gnt("d", x)
  BY <1>2, <1>3, <1>4 DEF gnt, arb_gnt
<1>6. Fails("d", x) = n_rerr(r, x)
  BY <1>3, <1>5, ErrorAllowed
<1>7. ~n_rerr(r, x)
  <2>1. CASE r = "ext"
    BY <1>4, <2>1, DevWriteCases, RerrCases DEF dev_gnt, Regions
  <2>2. CASE r = "ram"
    BY <2>2, RerrCases
  <2>3. CASE r = "mmio"
    BY <2>3, DevWriteCases, RerrCases DEF Regions
  <2>4. CASE r = "rom"
    BY <2>4, DevWriteCases DEF Regions
  <2> QED BY <2>1, <2>2, <2>3, <2>4 DEF Regions
<1> QED BY <1>2, <1>3, <1>5, <1>6, <1>7

(* Conversely, a granted write that does not fail is done by its device.   *)
LEMMA DataWriteIsDone ==
    ASSUME IInv, NEW x \in SlaveInputs, Clock(x), gnt("d", x), port["d"].wen,
           ~Fails("d", x)
    PROVE  /\ map_core("d") \in Regions /\ dev_req(map_core("d")) = port["d"]
           /\ port["d"] # None
           /\ map_core("d") # "ext" => dev_write(map_core("d"), port["d"])
           /\ map_core("d") = "ext" => /\ x.bvalid /\ ~x.resp
                                       /\ slave.aw = port["d"].adr
                                       /\ slave.w = port["d"].val
<1> TypeOK /\ "d" \in Ports
  BY DEF IInv, Ports
<1> DEFINE r == map_core("d")
<1>1. r \in Regions
  BY GrantFacts DEF Fails
<1>2. dev_req(r) = port["d"] /\ dev_req(r) # None /\ dev_gnt(r, x)
  BY <1>1, GrantFacts
<1>3. ~n_rerr(r, x)
  BY <1>1, ErrorAllowed
<1>4. r # "rom"
  BY <1>1, <1>2, <1>3, RerrCases
<1>5. r = "ram" => dev_write(r, port["d"])
  BY <1>1, DevWriteCases
<1>6. r = "mmio" => dev_write(r, port["d"])
  BY <1>1, <1>2, <1>3, RerrCases, DevWriteCases
<1>7. r = "ext" => /\ x.bvalid /\ ~x.resp
                   /\ slave.aw = port["d"].adr /\ slave.w = port["d"].val
  BY <1>1, <1>2, <1>3, RerrCases, InputFacts DEF dev_gnt, ext_gnt
<1> QED BY <1>1, <1>2, <1>4, <1>5, <1>6, <1>7 DEF Regions

(* Is word a written for the data port in the cycle x? *)
Written(a, x) == gnt("d", x) /\ port["d"].adr = a /\ port["d"].wen /\ ~Fails("d", x)

(* No write is lost, and none is done that was not granted. *)
LEMMA MemoryAfterCycle ==
    ASSUME IInv, NEW x \in SlaveInputs, Clock(x), NEW a \in Words
    PROVE  n_mem(a, x) = IF Written(a, x) THEN port["d"].val ELSE mem[a]
<1> DEFINE R == {r \in Regions : /\ dev_req(r) # None
                                 /\ dev_req(r).adr = a
                                 /\ dev_write(r, dev_req(r))}
<1>1. n_mem(a, x) = IF R # {} THEN dev_req(CHOOSE r \in R : TRUE).val
                    ELSE IF x.bvalid /\ ~x.resp /\ slave.aw = a THEN slave.w
                    ELSE mem[a]
  BY DEF n_mem
<1>2. \A r \in R : Written(a, x) /\ dev_req(r) = port["d"]
  BY DeviceWritesForData DEF Written
<1>3. R # {} => (CHOOSE r \in R : TRUE) \in R
  OBVIOUS
<1>4. x.bvalid /\ ~x.resp /\ slave.aw = a => Written(a, x) /\ slave.w = port["d"].val
  BY InputFacts, DeviceWritesForData DEF Written, Regions
<1>5. Written(a, x) => R # {} \/ (x.bvalid /\ ~x.resp /\ slave.aw = a)
  <2> SUFFICES ASSUME Written(a, x) PROVE R # {} \/ (x.bvalid /\ ~x.resp /\ slave.aw = a)
    OBVIOUS
  <2>1. /\ map_core("d") \in Regions /\ dev_req(map_core("d")) = port["d"]
        /\ port["d"] # None /\ port["d"].adr = a
        /\ map_core("d") # "ext" => dev_write(map_core("d"), port["d"])
        /\ map_core("d") = "ext" => /\ x.bvalid /\ ~x.resp /\ slave.aw = port["d"].adr
    BY DataWriteIsDone DEF Written
  <2>2. map_core("d") # "ext" => map_core("d") \in R
    BY <2>1
  <2> QED BY <2>1, <2>2
<1> HIDE DEF R
<1> QED BY <1>1, <1>2, <1>3, <1>4, <1>5

(* The two ports are granted the same word in one cycle only if it does    *)
(* not exist.                                                              *)
LEMMA GrantedOneAtATime ==
    ASSUME IInv, NEW x \in SlaveInputs, gnt("i", x), gnt("d", x),
           port["i"].adr = port["d"].adr
    PROVE  \A r \in Regions : ~address_match(port["i"].adr, r)
<1> TypeOK /\ "i" \in Ports /\ "d" \in Ports
  BY DEF IInv, Ports
<1> SUFFICES ASSUME NEW r \in Regions, address_match(port["i"].adr, r) PROVE FALSE
  OBVIOUS
<1>1. region_req("i", r) /\ region_req("d", r)
  BY GrantFacts DEF region_req
<1>2. map_core("i") = r
  BY <1>1, MapIsRegion
<1>3. route_req_r1(r)
  BY <1>2, GrantFacts
<1> QED BY <1>1, <1>3 DEF route_req_r1

(* A clock cycle of the core complex is a cycle of the shared memory in    *)
(* which the ports that are granted are served.                            *)
LEMMA CycleImplements ==
    ASSUME IInv, NEW x \in SlaveInputs, Clock(x) PROVE SM!Next
<1>G. PICK G : G = {p \in Ports : gnt(p, x)}
  OBVIOUS
<1>e. PICK e : e = [p \in Ports |-> IF gnt(p, x) THEN Fails(p, x) ELSE FALSE]
  OBVIOUS
<1> TypeOK /\ "i" \in Ports /\ "d" \in Ports
  BY DEF IInv, Ports
<1>1. \A p \in G : p \in Ports /\ gnt(p, x) /\ port[p] # None /\ port[p].adr \in Words
  BY <1>G, GrantFacts, PortType
<1>2. e \in [Ports -> BOOLEAN]
  <2> SUFFICES ASSUME NEW p \in Ports, gnt(p, x) PROVE Fails(p, x) \in BOOLEAN
    BY <1>e
  <2> QED BY ErrorAllowed
<1>3. \A p \in G : e[p] = Fails(p, x) /\ e[p] \in SM!Errors(port[p])
  BY <1>G, <1>e, ErrorAllowed
<1>4. ASSUME NEW p \in G, NEW q \in G, p # q, port[p].adr = port[q].adr
      PROVE  port[p].adr \in {a \in Words : \/ address_match(a, "mmio") /\ a >= Base["mmio"] + 2
                                            \/ \A r \in Regions : ~address_match(a, r)}
  <2>1. \A r \in Regions : ~address_match(port[p].adr, r)
    BY <1>4, <1>G, GrantedOneAtATime DEF Ports
  <2> QED BY <1>1, <2>1
<1>5. mem' = [a \in Words |-> SM!After(a, G, e)]
  <2>1. mem' = [a \in Words |-> n_mem(a, x)]
    BY DEF Clock, DeviceClock
  <2> SUFFICES ASSUME NEW a \in Words PROVE n_mem(a, x) = SM!After(a, G, e)
    BY <2>1
  <2> DEFINE W == {p \in G : port[p].adr = a /\ port[p].wen /\ ~e[p]}
  <2>2. SM!After(a, G, e) = IF W = {} THEN mem[a] ELSE port[CHOOSE p \in W : TRUE].val
    BY DEF SM!After, Overwrite
  <2>3. \A p \in W : p = "d"
    BY <1>1, PortType
  <2>4. W # {} <=> Written(a, x)
    BY <2>3, <1>G, <1>3 DEF Written
  <2>5. W # {} => (CHOOSE p \in W : TRUE) \in W
    OBVIOUS
  <2> HIDE DEF W
  <2> QED BY <2>2, <2>3, <2>4, <2>5, MemoryAfterCycle
<1>6. [p \in Ports |->
          IF asked[p] = None THEN None
          ELSE [err  |-> rsp_err(p),
                data |-> IF asked[p].wen \/ rsp_err(p) THEN None ELSE rsp_rdata(p)]]'
      = [p \in Ports |-> IF p \in G THEN SM!Answer(port[p], e[p]) ELSE None]
  <2> SUFFICES ASSUME NEW p \in Ports
               PROVE  (IF asked[p] = None THEN None
                       ELSE [err  |-> rsp_err(p),
                             data |-> IF asked[p].wen \/ rsp_err(p) THEN None
                                      ELSE rsp_rdata(p)])'
                      = IF p \in G THEN SM!Answer(port[p], e[p]) ELSE None
    OBVIOUS
  <2>1. asked'[p] = IF gnt(p, x) THEN port[p] ELSE None
    BY DEF Clock, RequestClock
  <2>2. CASE gnt(p, x)
    <3>1. asked'[p] = port[p] /\ port[p] # None /\ p \in G /\ e[p] = rsp_err(p)'
      BY <1>1, <1>G, <1>3, <2>1, <2>2, ErrorAllowed
    <3>2. ~(port[p].wen \/ rsp_err(p)') => rsp_rdata(p)' = mem[port[p].adr]
      BY <2>2, ErrorAllowed, DataIsOfTheWord
    <3> QED BY <3>1, <3>2 DEF SM!Answer
  <2>3. CASE ~gnt(p, x)
    BY <1>G, <2>1, <2>3
  <2> QED BY <2>2, <2>3
<1>7. port' \in [Ports -> SM!Requests \cup {None}]
  <2>1. \A p \in Ports : Requests(p) \subseteq SM!Requests
    BY RegionAssumption DEF TypeOK, Requests, SM!Requests
  <2> QED BY <2>1 DEF Clock, RequestClock, Ports
<1>8. \A p \in Ports \ G : port[p] # None => port'[p] = port[p]
  BY <1>G, RequestHeld DEF Clock
<1>9. SM!Cycle(G, e)
  BY <1>3, <1>4, <1>5, <1>6, <1>7, <1>8 DEF SM!Cycle
<1>10. G \in SUBSET {p \in Ports : port[p] # None}
  BY <1>1
<1> QED BY <1>2, <1>9, <1>10 DEF SM!Next

(* The routers, arbiters, devices and the bridge implement one shared      *)
(* memory: every step of theirs is a step of SharedMemory or leaves what   *)
(* the ports see alone.                                                    *)
THEOREM InterconnectIsSharedMemory == Spec => ImplementsSharedMemory
<1>1. Init => SM!Init
  BY RegionAssumption DEF Init, SM!Init
<1>2. IInv /\ [Next]_vars => [SM!Next]_SM!vars
  <2> SUFFICES ASSUME IInv, [Next]_vars PROVE [SM!Next]_SM!vars
    OBVIOUS
  <2>1. CASE Next
    BY <2>1, CycleImplements DEF Next
  <2>2. CASE UNCHANGED vars
    BY <2>2 DEF vars, requestVars, icVars, deviceVars, bridgeVars, SM!vars,
                rsp_err, rsp_rdata
  <2> QED BY <2>1, <2>2
<1> QED BY InterconnectInvariant, <1>1, <1>2, PTL DEF Spec, SM!Spec, ImplementsSharedMemory

=============================================================================
