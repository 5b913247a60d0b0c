-------------------------- MODULE CcxInterconnect --------------------------
(***************************************************************************)
(* The memory system of the core complex: a router for each of the core's  *)
(* two memory ports (ccx_ic_router.sv), an arbiter in front of each device *)
(* (ccx_ic_arbiter.sv) wired up by ccx_ic_top.sv, the ROM and the RAM      *)
(* (mem_sram_wxd.v), the memory mapped registers (core_counters.sv, with   *)
(* mtime inhibited through mcountinhibit) and, on the external port, the   *)
(* bridge to AXI4-Lite (bridge_ccx_axi4lite.v) with an AXI slave behind    *)
(* it.                                                                     *)
(*                                                                         *)
(* One step is one clock cycle.  Addresses are word (8-byte) addresses.    *)
(* Port "d" is the data port (req_0 of the arbiters) and "i" the           *)
(* instruction port (req_1).                                               *)
(***************************************************************************)
EXTENDS Naturals

CONSTANTS
    Base, Size,         \* Base[r], Size[r]: first word and length of region r
    Words,              \* word addresses
    Layouts,            \* where a program and its data may be: for port p of
                        \* layout l, l[p] are the words that it accesses
    Values,             \* contents of a word
    InitMem,            \* contents at reset (the MEMH image)
    None

Regions == {"rom", "ram", "ext", "mmio"}
Ports   == {"i", "d"}

(* A region is a power of two words long and aligned to its length (the    *)
(* parameters *_SIZE of ccx_ic_router are masks); regions do not overlap.  *)
ASSUME RegionAssumption ==
    /\ \A r \in Regions : Base[r] \in Nat /\ Size[r] \in Nat \ {0}
    /\ \A r \in Regions : Base[r] % Size[r] = 0
    /\ \A r, s \in Regions : r # s =>
          Base[r] + Size[r] <= Base[s] \/ Base[s] + Size[s] <= Base[r]
    /\ \A l \in Layouts, p \in Ports : l[p] \subseteq Words
    /\ Words \subseteq Nat
    /\ InitMem \in [Words -> Values]
    /\ None \notin Words \cup Values

VARIABLES
    layout,         \* the layout of the program, which stays the same
    port,           \* port[p]: the request port p makes, or None
    asked,          \* asked[p]: the request granted to p in the last cycle, or None
    rsp_route,      \* routers: the device that answers in this cycle
    inflight_r1,    \* arbiters: a request of "i" is stalled at the device
    route_rsp_0,    \* arbiters: the response belongs to "d" ...
    route_rsp_1,    \*           ... to "i"
    mem,            \* contents of the devices
    rdata,          \* read data registers of the devices
    rerr,           \* error registers of the devices
    req_rd_out,     \* bridge: read address accepted, no response yet
    req_wa_out,     \* bridge: write address accepted
    req_wr_out,     \* bridge: write data accepted
    slave           \* external: what the AXI slave has accepted

requestVars == <<layout, port, asked>>
icVars      == <<rsp_route, inflight_r1, route_rsp_0, route_rsp_1>>
deviceVars  == <<mem, rdata, rerr>>
bridgeVars  == <<req_rd_out, req_wa_out, req_wr_out, slave>>
vars        == <<requestVars, icVars, deviceVars, bridgeVars>>

(* The instruction port only reads.  A read carries no value. *)
Requests(p) ==
    [adr : layout[p], wen : {FALSE}, val : {None}]
        \cup IF p = "d" THEN [adr : layout[p], wen : {TRUE}, val : Values] ELSE {}

----------------------------------------------------------------------------
(* ccx_ic_router: requests. *)

address_match(a, r) == a - (a % Size[r]) = Base[r]

region_req(p, r) == port[p] # None /\ address_match(port[p].adr, r)

(* The device that grants and answers port p: the first that matches. *)
map_core(p) == CASE region_req(p, "rom")  -> "rom"
                 [] region_req(p, "ram")  -> "ram"
                 [] region_req(p, "ext")  -> "ext"
                 [] region_req(p, "mmio") -> "mmio"
                 [] OTHER -> "none"

----------------------------------------------------------------------------
(* ccx_ic_arbiter. *)

(* Mutants: a data request overtakes an instruction request in flight; it  *)
(* yields to any instruction request.                                      *)
route_req_r0_overtakes(r) == region_req("d", r)
route_req_r0_yields(r)    == region_req("d", r) /\ ~region_req("i", r)

route_req_r0(r) == region_req("d", r) /\ ~inflight_r1[r]
route_req_r1(r) == region_req("i", r) /\ ~region_req("d", r)

(* The request the device sees, or None. *)
dev_req(r) == IF route_req_r0(r) THEN port["d"]
              ELSE IF region_req("i", r) THEN port["i"]
              ELSE None

----------------------------------------------------------------------------
(* bridge_ccx_axi4_lite.  x is what the AXI slave drives in the cycle.     *)

axi_arvalid == ~req_rd_out /\ dev_req("ext") # None /\ ~dev_req("ext").wen
axi_awvalid == ~req_wa_out /\ dev_req("ext") # None /\ dev_req("ext").wen
axi_wvalid  == ~req_wr_out /\ dev_req("ext") # None /\ dev_req("ext").wen
axi_addr    == dev_req("ext").adr

(* External.  The slave answers only what it has accepted in an earlier    *)
(* cycle; a ready without a valid and a resp without an answer are moot.   *)
SlaveInputs ==
    {x \in [arready : BOOLEAN, awready : BOOLEAN, wready : BOOLEAN,
            rvalid : BOOLEAN, bvalid : BOOLEAN, resp : BOOLEAN] :
        /\ x.arready => axi_arvalid
        /\ x.awready => axi_awvalid
        /\ x.wready => axi_wvalid
        /\ x.rvalid => slave.ar # None
        /\ x.bvalid => slave.aw # None /\ slave.w # None
        /\ x.resp => x.rvalid \/ x.bvalid
        /\ ~(x.rvalid /\ x.bvalid)}

ext_gnt(x) == x.rvalid \/ x.bvalid

(* Mutants: the bridge forgets a request that is not answered at once; it  *)
(* never sees the answer.                                                  *)
outstanding_once(out, request, response)  == request
outstanding_stuck(out, request, response) == out \/ request

outstanding(out, request, response) ==
    IF out THEN ~response \/ request ELSE request

BridgeClock(x) ==
    /\ req_rd_out' = outstanding(req_rd_out, x.arready, x.rvalid)
    /\ req_wa_out' = outstanding(req_wa_out, x.awready, x.bvalid)
    /\ req_wr_out' = outstanding(req_wr_out, x.wready, x.bvalid)

(* External: the slave takes one read and one write at a time. *)
SlaveClock(x) ==
    slave' = [ar |-> IF x.arready THEN axi_addr
                     ELSE IF x.rvalid THEN None ELSE slave.ar,
              aw |-> IF x.awready THEN axi_addr
                     ELSE IF x.bvalid THEN None ELSE slave.aw,
              w  |-> IF x.wready THEN dev_req("ext").val
                     ELSE IF x.bvalid THEN None ELSE slave.w]

----------------------------------------------------------------------------
(* Grants.  ROM, RAM and the registers grant every request at once.        *)

dev_gnt(r, x) == IF r = "ext" THEN ext_gnt(x) ELSE TRUE

(* Mutant: the grant of port 1 is wired to the route of port 0. *)
arb_gnt_0(p, r, x) == route_req_r0(r) /\ dev_gnt(r, x)

arb_gnt(p, r, x) == /\ IF p = "d" THEN route_req_r0(r) ELSE route_req_r1(r)
                    /\ dev_gnt(r, x)

(* The grant port p sees; an address of no region is granted at once. *)
gnt(p, x) == /\ port[p] # None
             /\ map_core(p) = "none" \/ arb_gnt(p, map_core(p), x)

n_rsp_route(p, x) == IF gnt(p, x) THEN map_core(p) ELSE None

n_inflight_r1(r, x) ==
    /\ region_req("i", r) /\ ~arb_gnt("i", r, x)
    /\ inflight_r1[r] \/ ~region_req("d", r)

InterconnectClock(x) ==
    /\ rsp_route'   = [p \in Ports |-> n_rsp_route(p, x)]
    /\ inflight_r1' = [r \in Regions |-> n_inflight_r1(r, x)]
    /\ route_rsp_0' = [r \in Regions |-> route_req_r0(r)]
    /\ route_rsp_1' = [r \in Regions |-> route_req_r1(r)]

----------------------------------------------------------------------------
(* The devices. *)

(* core_counters has two registers; the rest of its region is an error. *)
mmio_bad_addr(q) == q.adr >= Base["mmio"] + 2

(* Is the word of device r that q names written when the device sees q? *)
(* Mutant: the write enable is left out. *)
dev_write_any(r, q) == r \in {"ram", "mmio"}

dev_write(r, q) == CASE r = "ram"  -> q.wen
                     [] r = "mmio" -> q.wen /\ ~mmio_bad_addr(q)
                     [] OTHER -> FALSE

n_rdata(r, x) ==
    LET q == dev_req(r)
    IN  CASE r = "ext" /\ ext_gnt(x) ->
                IF x.rvalid THEN mem[slave.ar] ELSE None
          [] r \in {"rom", "ram"} /\ q # None -> mem[q.adr]
          [] r = "mmio" /\ q # None ->
                IF q.wen \/ mmio_bad_addr(q) THEN rdata[r] ELSE mem[q.adr]
          [] OTHER -> rdata[r]

n_rerr(r, x) ==
    LET q == dev_req(r)
    IN  CASE r = "ext" -> IF ext_gnt(x) THEN x.resp ELSE rerr[r]
          [] r = "rom" -> q # None /\ q.wen
          [] r = "ram" -> FALSE
          [] r = "mmio" -> IF q # None THEN mmio_bad_addr(q) ELSE rerr[r]

n_mem(a, x) ==
    LET R == {r \in Regions : /\ dev_req(r) # None
                              /\ dev_req(r).adr = a
                              /\ dev_write(r, dev_req(r))}
    IN  IF R # {} THEN dev_req(CHOOSE r \in R : TRUE).val
        ELSE IF x.bvalid /\ ~x.resp /\ slave.aw = a THEN slave.w
        ELSE mem[a]

DeviceClock(x) ==
    /\ rdata' = [r \in Regions |-> n_rdata(r, x)]
    /\ rerr'  = [r \in Regions |-> n_rerr(r, x)]
    /\ mem'   = [a \in Words |-> n_mem(a, x)]

----------------------------------------------------------------------------
(* The response wires of a port in the cycle after its grant. *)

rsp_err(p) ==
    IF rsp_route[p] \notin Regions THEN TRUE
    ELSE /\ IF p = "d" THEN route_rsp_0[rsp_route[p]] ELSE route_rsp_1[rsp_route[p]]
         /\ rerr[rsp_route[p]]

rsp_rdata(p) == IF rsp_route[p] \notin Regions THEN 0 ELSE rdata[rsp_route[p]]

----------------------------------------------------------------------------
(* External: the ports of the core.  They hold a request until it is       *)
(* granted (RequestHeldUntilGranted of CoreFetch, and likewise the LSU).   *)
RequestClock(x) ==
    /\ UNCHANGED layout
    /\ asked' = [p \in Ports |-> IF gnt(p, x) THEN port[p] ELSE None]
    /\ \E i \in Requests("i") \cup {None}, d \in Requests("d") \cup {None} :
          /\ port["i"] # None /\ ~gnt("i", x) => i = port["i"]
          /\ port["d"] # None /\ ~gnt("d", x) => d = port["d"]
          /\ port' = [p \in Ports |-> IF p = "i" THEN i ELSE d]

Init ==
    /\ layout \in Layouts
    /\ port = [p \in Ports |-> None] /\ asked = [p \in Ports |-> None]
    /\ rsp_route = [p \in Ports |-> None]
    /\ inflight_r1 = [r \in Regions |-> FALSE]
    /\ route_rsp_0 = [r \in Regions |-> FALSE]
    /\ route_rsp_1 = [r \in Regions |-> FALSE]
    /\ mem = InitMem
    /\ rdata = [r \in Regions |-> None] /\ rerr = [r \in Regions |-> FALSE]
    /\ req_rd_out = FALSE /\ req_wa_out = FALSE /\ req_wr_out = FALSE
    /\ slave = [ar |-> None, aw |-> None, w |-> None]

Clock(x) ==
    /\ InterconnectClock(x)
    /\ DeviceClock(x)
    /\ BridgeClock(x)
    /\ SlaveClock(x)
    /\ RequestClock(x)

Next == \E x \in SlaveInputs : Clock(x)

Spec == Init /\ [][Next]_vars

(* External: an AXI slave that is free takes what it is offered, and       *)
(* answers what it has taken, each in the end.                             *)
SlaveAnswers ==
    /\ []<>~(axi_arvalid /\ slave.ar = None)
    /\ []<>~(axi_awvalid /\ slave.aw = None)
    /\ []<>~(axi_wvalid /\ slave.w = None)
    /\ []<>(slave.ar = None)
    /\ []<>(slave.aw = None \/ slave.w = None)

(* The clock runs.  TickSpec says so without ENABLED, for models in which  *)
(* a port is always free to move: one whose instructions are on chip is.   *)
FairSpec == Spec /\ WF_vars(Next) /\ SlaveAnswers
TickSpec == Spec /\ []<><<TRUE>>_vars /\ SlaveAnswers

----------------------------------------------------------------------------
(* Routers, arbiters, devices and bridge hold values of their width, and   *)
(* answer with values that were written.                                   *)
TypeOK ==
    /\ layout \in Layouts
    /\ \A p \in Ports : /\ port[p] \in Requests(p) \cup {None}
                        /\ asked[p] \in Requests(p) \cup {None}
                        /\ rsp_route[p] \in Regions \cup {"none", None}
    /\ inflight_r1 \in [Regions -> BOOLEAN]
    /\ route_rsp_0 \in [Regions -> BOOLEAN]
    /\ route_rsp_1 \in [Regions -> BOOLEAN]
    /\ mem \in [Words -> Values]
    /\ rdata \in [Regions -> Values \cup {None}]
    /\ rerr \in [Regions -> BOOLEAN]
    /\ req_rd_out \in BOOLEAN /\ req_wa_out \in BOOLEAN /\ req_wr_out \in BOOLEAN
    /\ slave \in [ar : Words \cup {None}, aw : Words \cup {None},
                  w : Values \cup {None}]

(* Strobes are left out: a write replaces the word. *)
Overwrite(a, old, w) == w

SM == INSTANCE SharedMemory WITH
        Wdata    <- Values,
        Merge    <- Overwrite,
        Together <- FALSE,
        ReadOnly <- {a \in Words : address_match(a, "rom")},
        Unmapped <- {a \in Words : \/ address_match(a, "mmio") /\ a >= Base["mmio"] + 2
                                   \/ \A r \in Regions : ~address_match(a, r)},
        MayFail  <- {a \in Words : address_match(a, "ext")},
        pend <- port,
        rsp  <- [p \in Ports |->
                    IF asked[p] = None THEN None
                    ELSE [err  |-> rsp_err(p),
                          data |-> IF asked[p].wen \/ rsp_err(p) THEN None
                                   ELSE rsp_rdata(p)]]

(* The interconnect, its devices and the bridge together behave as one     *)
(* shared memory: no response goes to the other port, comes from another   *)
(* device or for another address, no write is lost or done twice.          *)
ImplementsSharedMemory == SM!Spec

(* The bridge and the slave agree on what is outstanding, and the request  *)
(* that waits for the answer is still the one the slave was given: a       *)
(* bridge with no address register depends on it (bridge:63-67).           *)
BridgeHoldsWhatSlaveHas ==
    /\ req_rd_out <=> slave.ar # None
    /\ req_wa_out <=> slave.aw # None
    /\ req_wr_out <=> slave.w # None
    /\ req_rd_out => dev_req("ext") # None /\ ~dev_req("ext").wen /\ slave.ar = axi_addr
    /\ req_wa_out => dev_req("ext") # None /\ dev_req("ext").wen /\ slave.aw = axi_addr
    /\ req_wr_out => dev_req("ext") # None /\ dev_req("ext").wen /\ slave.w = dev_req("ext").val

(* The AXI handshake: an address that is offered and not taken stays on    *)
(* the bus unchanged.                                                      *)
AxiOfferHeld ==
    [][/\ axi_arvalid /\ ~req_rd_out' => axi_arvalid' /\ axi_addr' = axi_addr
       /\ axi_awvalid /\ ~req_wa_out' => axi_awvalid' /\ axi_addr' = axi_addr
       /\ axi_wvalid  /\ ~req_wr_out' => axi_wvalid'  /\ dev_req("ext")' = dev_req("ext")]_vars

(* ccx_ic_arbiter.sv:9 "Port 0 has priority": on chip, a data access never *)
(* waits.                                                                  *)
DataNeverWaitsOnChip ==
    [][port["d"] # None /\ ~region_req("d", "ext") => asked'["d"] = port["d"]]_vars

(* ccx_ic_arbiter.sv:9, docs/memory-interface.md: every data access is     *)
(* granted in the end.                                                     *)
DataServed == port["d"] # None ~> asked["d"] # None

(* The program's instructions are in ROM, RAM or nowhere.  With them and   *)
(* the data in external memory, DataServed fails (ccx_ic_arbiter.sv:30).   *)
FetchOnChip == \A a \in layout["i"] : ~address_match(a, "ext")

(* ccx_ic_arbiter.sv:30, bridge_ccx_axi4_lite.sv: with instructions on     *)
(* chip every data access, in external memory too, is granted in the end,  *)
(* whatever fetch does.                                                    *)
DataServedOnChipFetch == FetchOnChip => DataServed

(* ccx_ic_arbiter.sv:31: every fetch on chip is granted in the end, unless *)
(* the data port never pauses.                                             *)
FetchServed ==
    FetchOnChip /\ []<>(port["d"] = None) => (port["i"] # None ~> asked["i"] # None)

=============================================================================
