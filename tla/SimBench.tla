------------------------------ MODULE SimBench ------------------------------
(***************************************************************************)
(* The Verilator test benches of the core and of the core complex          *)
(* (verif/core/verilator, verif/ccx/verilator): main, testbench and        *)
(* dut_wrapper, around the simulated memory and the SREC reader.           *)
(*                                                                         *)
(* The two benches differ in their memory ports, their devices and their   *)
(* options; a behaviour is a run of one of them with one command line,     *)
(* both chosen in the initial state.  A path on the command line stands    *)
(* for the content of its file.  The design under test makes any of the    *)
(* requests it is given, holds each one until it is granted, and retires   *)
(* any of the instructions it is given.  Waves, messages and the unused    *)
(* stall limits are left out.                                              *)
(***************************************************************************)
EXTENDS SimMemory, SrecFile, FiniteSetsExt

CONSTANTS
    default_ram_base_addr, default_ram_size, uart_base_addr,    \* core bench
    ccx_uart_base_addr, ext_ram_base_addr, ext_ram_size,        \* ccx bench
    Noise,          \* what an agent may put on a port with no answer
    Runs            \* the runs of the benches: bench, argv (a sequence of records
                    \* opt, val), requests (per port), pcs (instructions retired)

VARIABLES
    sim,            \* the run
    phase,          \* how far main has come
    opts,           \* the global variables that process_arguments sets
    resets,         \* steps of the reset loop still to do
    sim_time, f_clk,
    trs,            \* the instruction the design retires in this cycle, or None
    dut_trace,
    sim_finished, sim_passed,
    signature,      \* the file that dump_signature_file writes, or None
    exit,           \* what main returns: an exit code, or None
    edges,          \* history: rising clock edges so far
    first,          \* history: the first pass or fail address retired, or None
    asked,          \* history: the request each port was granted at the last edge
    sent            \* history: the characters the design stored to the UART

benchVars == <<sim, phase, opts, resets, sim_time, f_clk, trs, dut_trace,
               sim_finished, sim_passed, signature, exit>>
history == <<edges, first, asked, sent>>
vars == <<memVars, benchVars, history>>

Ports == {"imem", "dmem", "mem"}

(* dut_wrapper: the agents, in the order they sample. *)
agents(bench) == IF bench = "core" THEN <<"imem", "dmem">> ELSE <<"mem">>

(* testbench::build: the devices, in the order they are added. *)
bench_ram(bench) ==
    IF bench = "core" THEN ram_device(default_ram_base_addr, default_ram_size)
    ELSE ram_device(ext_ram_base_addr, ext_ram_size)

bench_uart(bench) ==
    uart_device(IF bench = "core" THEN uart_base_addr ELSE ccx_uart_base_addr)

bench_devices(bench) ==
    IF bench = "core" THEN <<bench_ram(bench), bench_uart(bench)>>
    ELSE <<bench_uart(bench), bench_ram(bench)>>

(* The devices have whole words and lie apart. *)
ASSUME DeviceAssumption ==
    \A b \in {"core", "ccx"} :
        LET ram == bench_ram(b)
            uart == bench_uart(b)
        IN  /\ {ram.base, ram.range, uart.base} \subseteq Nat
            /\ ram.base % Size = 0 /\ ram.range % Size = 0 /\ uart.base % Size = 0
            /\ get_top(ram) < uart.base \/ get_top(uart) < ram.base
            /\ None \notin {ram, uart}

(* A byte of memory, and what a write carries. *)
Byte  == 0 .. 255
Wdata == [strb : SUBSET Lanes, data : [Lanes -> Byte]]

(* The core asks for whole words, and fetch only reads                     *)
(* (core_pipe_exec_lsu.sv:89, core_pipe_fetch.sv:51,106).  None is not a   *)
(* request, of a run or for a word of a bench.                             *)
ASSUME RequestAssumption ==
    /\ None \notin [adr : {"core", "ccx"} \X Nat, wen : BOOLEAN, val : Wdata \cup {None}]
    /\ Noise \subseteq [err : BOOLEAN, rdata : [Lanes -> Byte]]
    /\ \A r \in Runs, p \in Ports :
        /\ None \notin r.requests[p]
        /\ \A q \in r.requests[p] :
            /\ \/ q \in [adr : Nat, wen : {FALSE}, val : {None}]
               \/ p # "imem" /\ q \in [adr : Nat, wen : {TRUE}, val : Wdata]
            /\ q.adr % Size = 0

----------------------------------------------------------------------------
(* process_arguments.  The value of PASS_ADDR is an address, that of        *)
(* TIMEOUT a number, that of MEM_MAX_STALL a sequence of digits, and None   *)
(* is an empty path.  -1 is the address 0xFFFFFFFF, which no instruction    *)
(* has.                                                                     *)
defaults(bench) ==
    [srec |-> None, max_sim_time |-> 10000,
     pass |-> IF bench = "core" THEN 0 ELSE -1, fail |-> -1,
     sig_start |-> 0, sig_end |-> 0, dump_signature |-> FALSE, verif |-> None,
     exit |-> None]

(* The exit code of an exception that nothing catches. *)
Aborted == 134

(* substr(16) is one past "+MEM_MAX_STALL=", and no digit is no number. *)
mem_max_stall(o, digits) == IF Len(digits) <= 1 THEN [o EXCEPT !.exit = Aborted] ELSE o

argument(bench, o, arg) ==
    IF o.exit # None THEN o
    ELSE CASE arg.opt = "IMEM"             -> [o EXCEPT !.srec = arg.val]
           [] arg.opt = "TIMEOUT"          -> [o EXCEPT !.max_sim_time = 10 * arg.val]
           [] arg.opt = "PASS_ADDR"        -> [o EXCEPT !.pass = arg.val]
           [] arg.opt = "FAIL_ADDR"        -> [o EXCEPT !.fail = arg.val]
           [] arg.opt = "SIG_START" /\ bench = "core" -> [o EXCEPT !.sig_start = arg.val]
           [] arg.opt = "SIG_END" /\ bench = "core"   -> [o EXCEPT !.sig_end = arg.val]
           [] arg.opt = "SIG_PATH" /\ bench = "core"  -> [o EXCEPT !.dump_signature = @ \/ arg.val # None]
           [] arg.opt = "SIG_VERIF" /\ bench = "core" -> IF arg.val = None THEN o
                                                         ELSE [o EXCEPT !.verif = arg.val]
           [] arg.opt = "MEM_MAX_STALL" /\ bench = "ccx" -> mem_max_stall(o, arg.val)
           [] arg.opt = "--help"           -> [o EXCEPT !.exit = 0]
           [] OTHER                        -> o

(* What the first k arguments have set, and all of them. *)
parsed_upto(r) ==
    LET o[k \in 0 .. Len(r.argv)] ==
            IF k = 0 THEN defaults(r.bench) ELSE argument(r.bench, o[k - 1], r.argv[k])
    IN  o

parsed(r) == parsed_upto(r)[Len(r.argv)]

(* A run is of one of the benches; addresses and times are numbers; and no *)
(* path is made empty again, for then fopen fails and nothing looks at it. *)
ASSUME RunAssumption ==
    /\ None \notin Int
    /\ \A r \in Runs :
        /\ r.bench \in {"core", "ccx"} /\ r.pcs \subseteq Int
        /\ Len(r.argv) \in Nat /\ DOMAIN r.argv = 1 .. Len(r.argv)
        /\ \A i \in DOMAIN r.argv :
            /\ r.argv[i].opt \in {"PASS_ADDR", "FAIL_ADDR"} => r.argv[i].val \in Int
            /\ r.argv[i].opt \in {"TIMEOUT", "SIG_START", "SIG_END"} => r.argv[i].val \in Nat
            /\ r.argv[i].opt = "IMEM" => r.argv[i].val # None /\ IsFile(r.argv[i].val, Byte)
            /\ r.argv[i].opt = "SIG_VERIF" => r.argv[i].val \in Seq(Int) \cup {None}
            /\ r.argv[i].opt \in {"SIG_PATH", "SIG_VERIF"} /\ r.argv[i].val = None =>
                    \A j \in 1 .. i - 1 : r.argv[j].opt = r.argv[i].opt => r.argv[j].val = None

process_arguments ==
    /\ phase = "arguments"
    /\ opts' = parsed(sim)
    /\ exit' = opts'.exit
    /\ phase' = IF exit' = None THEN "build" ELSE "exit"
    /\ UNCHANGED <<memVars, history, sim, resets, sim_time, f_clk, trs, dut_trace,
                   sim_finished, sim_passed, signature>>

----------------------------------------------------------------------------
(* The constructors, load_srec_file, and pre_run, which puts the design in  *)
(* reset.  The bytes of the image go to different places, so their order    *)
(* does not matter.  n_mem is not initialised, and its grant is on the port *)
(* before the first clock edge.                                             *)
load_srec_file(devs, s, d) ==
    LET after(a) == bus_write_byte(devs, s, a, d[a])
        tx == {a \in DOMAIN d : \E i \in DOMAIN devs : /\ devs[i].kind = "uart"
                                                      /\ a = addr_tx(devs[i])}
    IN  [(IF tx = {} THEN s ELSE after(Min(tx))) EXCEPT
            !.ram = [a \in DOMAIN s.ram |-> IF a \in DOMAIN d THEN after(a).ram[a] ELSE @[a]]]

empty_dev(devs) ==
    [ram |-> [a \in UNION {devs[i].base .. get_top(devs[i]) - 1 :
                                i \in {j \in DOMAIN devs : devs[j].kind = "ram"}} |-> 0],
     tx_buffer |-> <<>>, console |-> <<>>]

built(bench) ==
    LET ds == bench_devices(bench) IN add_device(add_device(<<>>, ds[1]), ds[2])

loaded(bench, srec) ==
    LET devs == built(bench)
    IN  IF srec = None THEN empty_dev(devs)
        ELSE load_srec_file(devs, empty_dev(devs), srec_data(srec))

build ==
    /\ phase = "build"
    /\ devices' = built(sim.bench)
    /\ dev' = loaded(sim.bench, opts.srec)
    /\ \E gnt \in [Ports -> BOOLEAN], n \in Noise :
            n_mem' = [p \in Ports |-> [gnt |-> gnt[p] /\ p \in ToSet(agents(sim.bench)),
                                       err |-> n.err, rdata |-> n.rdata]]
    /\ resets' = 5
    /\ phase' = "run"
    /\ sent' = dev'.console \o dev'.tx_buffer
    /\ UNCHANGED <<sim, opts, req, sim_time, f_clk, trs, dut_trace, sim_finished,
                   sim_passed, signature, exit, edges, first, asked>>

----------------------------------------------------------------------------
(* A rising edge: the agents sample, the trace is captured, and then the    *)
(* design moves on.  In reset it makes no request and retires nothing.      *)
held(p) == req[p] # None /\ ~n_mem[p].gnt

dut_edge ==
    LET reset == resets # 0
        wants(p) == IF reset \/ p \notin ToSet(agents(sim.bench)) THEN {None}
                    ELSE IF held(p) THEN {req[p]}
                    ELSE sim.requests[p] \cup {None}
    IN  /\ \E i \in wants("imem"), d \in wants("dmem"), m \in wants("mem") :
                req' = [imem |-> i, dmem |-> d, mem |-> m]
        /\ trs' \in IF reset THEN {None} ELSE sim.pcs \cup {None}

(* What the stores that are granted at this edge send. *)
sends(ps) ==
    LET uart == {devices[i] : i \in {j \in DOMAIN devices : devices[j].kind = "uart"}}
        sending(p) == /\ taken(p) /\ req[p].wen /\ 0 \in req[p].val.strb
                      /\ \E u \in uart : req[p].adr = u.base
        t[k \in 0 .. Len(ps)] == IF k = 0 THEN <<>>
                                 ELSE IF sending(ps[k]) THEN Append(t[k - 1], req[ps[k]].val.data[0])
                                 ELSE t[k - 1]
    IN  t[Len(ps)]

posedge_gclk ==
    LET ps == agents(sim.bench)
    IN  /\ \E gnt \in [ToSet(ps) -> BOOLEAN], noise \in [ToSet(ps) -> Noise] :
                posedge_clk(ps, gnt, noise)
        /\ dut_edge
        /\ edges' = edges + 1
        /\ asked' = [p \in Ports |-> IF taken(p) THEN req[p] ELSE None]
        /\ sent' = sent \o sends(ps)
        /\ first' = IF first = None /\ trs \in {opts.pass, opts.fail} THEN trs ELSE first

(* dut_step_clk: half a clock cycle.  captured is the trace with what the   *)
(* edge adds to it.                                                         *)
captured == IF ~f_clk /\ trs # None THEN Append(dut_trace, trs) ELSE dut_trace

(* Mutant: the time of a whole clock cycle. *)
dut_step_clk_whole ==
    /\ f_clk' = ~f_clk
    /\ sim_time' = sim_time + 20
    /\ IF f_clk' THEN posedge_gclk
       ELSE UNCHANGED <<dev, n_mem, req, trs, edges, asked, sent, first>>
    /\ UNCHANGED <<devices, sim, opts, signature>>

dut_step_clk ==
    /\ f_clk' = ~f_clk
    /\ sim_time' = sim_time + 10
    /\ IF f_clk' THEN posedge_gclk
       ELSE UNCHANGED <<dev, n_mem, req, trs, edges, asked, sent, first>>
    /\ UNCHANGED <<devices, sim, opts, signature>>

(* testbench::run: five steps in reset, and then the main loop. *)
reset_step ==
    /\ phase = "run" /\ resets # 0
    /\ dut_step_clk
    /\ dut_trace' = captured
    /\ resets' = resets - 1
    /\ UNCHANGED <<phase, sim_finished, sim_passed, exit>>

examine(q) ==
    IF q = <<>> THEN UNCHANGED <<sim_finished, sim_passed>> /\ dut_trace' = q
    ELSE /\ sim_finished' = (sim_finished \/ Head(q) \in {opts.pass, opts.fail})
         /\ sim_passed' = IF Head(q) = opts.pass THEN TRUE
                          ELSE IF Head(q) = opts.fail THEN FALSE
                          ELSE sim_passed
         /\ dut_trace' = Tail(q)

(* Mutant: the loop goes on after the end. *)
running_on == phase = "run" /\ resets = 0 /\ sim_time < opts.max_sim_time

running == phase = "run" /\ resets = 0 /\ sim_time < opts.max_sim_time /\ ~sim_finished

run_step ==
    /\ running
    /\ dut_step_clk
    /\ examine(captured)
    /\ UNCHANGED <<phase, resets, exit>>

----------------------------------------------------------------------------
(* The signature: the words from sig_start to sig_end, a line of hex digits *)
(* for each, the highest byte first.  A character is its code.              *)
hex_char(n) == IF n < 10 THEN 48 + n ELSE 87 + n

EOF == -1

a2h(c) == IF c < 58 /\ c > 47 THEN c - 48
          ELSE IF c < 103 /\ c > 96 THEN c - 87
          ELSE c

signature_words == {i \in opts.sig_start .. opts.sig_end - 1 : (i - opts.sig_start) % 4 = 0}

(* The bytes in the order of the file. *)
signature_bytes ==
    [k \in 1 .. 4 * Cardinality(signature_words) |->
        bus_read_byte(devices, dev, opts.sig_start + 4 * ((k - 1) \div 4) + 3 - ((k - 1) % 4))]

dump_signature_file ==
    [c \in 1 .. 9 * Cardinality(signature_words) |->
        LET word == (c - 1) \div 9
            pos  == (c - 1) % 9
            b    == signature_bytes[4 * word + pos \div 2 + 1]
        IN  IF pos = 8 THEN NewLine ELSE hex_char(IF pos % 2 = 0 THEN b \div 16 ELSE b % 16)]

(* Where the two digits of the k-th byte begin. *)
place(k) == 9 * ((k - 1) \div 4) + 2 * ((k - 1) % 4) + 1

(* The bitwise OR of two numbers of four bits. *)
or4(x, y) ==
    LET bit(b) == IF (x \div b) % 2 = 1 \/ (y \div b) % 2 = 1 THEN b ELSE 0
    IN  bit(8) + bit(4) + bit(2) + bit(1)

(* The k-th byte of the reference file: the first character shifted by four *)
(* OR the second, in eight bits.  Past the end of the file both are EOF,    *)
(* and the byte is 255.                                                     *)
reference_byte(file, k) ==
    LET ch(j) == a2h(IF j \in DOMAIN file THEN file[j] ELSE EOF)
        high  == ch(place(k)) % 16
        low   == ch(place(k) + 1) % 256
    IN  16 * or4(high, low \div 16) + (low % 16)

verif_signature_file(file) ==
    \A k \in DOMAIN signature_bytes : signature_bytes[k] = reference_byte(file, k)

(* Mutant: the comparison of the signature does not count for a pass. *)
verdict_unverified(verif_result) ==
    IF sim_time >= opts.max_sim_time THEN 1
    ELSE IF sim_passed THEN 0
    ELSE IF ~verif_result THEN 3
    ELSE 2

verdict(verif_result) ==
    IF sim_time >= opts.max_sim_time THEN 1
    ELSE IF sim_passed /\ verif_result THEN 0
    ELSE IF ~verif_result THEN 3
    ELSE 2

(* Mutant: only a simulation that has finished is reported. *)
finish_done ==
    /\ phase = "run" /\ resets = 0 /\ sim_finished
    /\ exit' = verdict(TRUE)
    /\ phase' = "exit"
    /\ UNCHANGED <<memVars, history, sim, opts, resets, sim_time, f_clk, trs, dut_trace,
                   sim_finished, sim_passed, signature>>

(* The rest of main. *)
finish ==
    LET verif_result == opts.verif = None \/ verif_signature_file(opts.verif)
    IN  /\ phase = "run" /\ resets = 0 /\ ~running
        /\ signature' = IF opts.dump_signature THEN dump_signature_file ELSE None
        /\ sim_passed' = (sim_passed /\ verif_result)
        /\ exit' = verdict(verif_result)
        /\ phase' = "exit"
        /\ UNCHANGED <<memVars, history, sim, opts, resets, sim_time, f_clk, trs, dut_trace,
                       sim_finished>>

----------------------------------------------------------------------------
Init ==
    /\ sim \in Runs
    /\ phase = "arguments" /\ opts = defaults(sim.bench) /\ resets = 0
    /\ sim_time = 0 /\ f_clk = FALSE /\ trs = None /\ dut_trace = <<>>
    /\ sim_finished = FALSE /\ sim_passed = FALSE /\ signature = None /\ exit = None
    /\ devices = <<>> /\ dev = empty_dev(<<>>)
    /\ req = [p \in Ports |-> None]
    /\ n_mem = [p \in Ports |-> [gnt |-> FALSE, err |-> FALSE, rdata |-> Zeros]]
    /\ edges = 0 /\ first = None /\ asked = [p \in Ports |-> None] /\ sent = <<>>

(* main has returned. *)
exited == phase = "exit" /\ UNCHANGED vars

Next == process_arguments \/ build \/ reset_step \/ run_step \/ finish \/ exited

(* One thread that nothing blocks. *)
Spec == Init /\ [][Next]_vars /\ WF_vars(Next)

----------------------------------------------------------------------------
(* The words of each bench that its runs ask for. *)
Words == UNION {{<<r.bench, q.adr>> : q \in UNION {r.requests[p] : p \in Ports}} : r \in Runs}

(* The bench runs in one of its phases, with requests of the run on its    *)
(* ports, a clock that has risen as often as the time says, and a trace    *)
(* of retired instructions.                                                *)
TypeOK ==
    /\ sim \in Runs
    /\ phase \in {"arguments", "build", "run", "exit"}
    /\ resets \in 0 .. 5
    /\ sim_time \in Nat /\ f_clk = (sim_time % 20 = 10)
    /\ 2 * edges = sim_time \div 10 + (IF f_clk THEN 1 ELSE 0)
    /\ trs \in sim.pcs \cup {None} /\ dut_trace \in Seq(sim.pcs)
    /\ sim_finished \in BOOLEAN /\ sim_passed \in BOOLEAN
    /\ exit \in {None, 0, 1, 2, 3, Aborted}
    /\ \A p \in Ports : req[p] \in sim.requests[p] \cup {None}
    /\ n_mem \in [Ports -> [gnt : BOOLEAN, err : BOOLEAN, rdata : [Lanes -> Byte]]]
    /\ \A a \in DOMAIN dev.ram : dev.ram[a] \in Byte

RamWord(w) == LET ram == bench_ram(w[1]) IN w[2] \in ram.base .. ram.base + ram.range - 1
UartWord(w) == w[2] = bench_uart(w[1]).base

(* RAM takes the bytes that are strobed; the UART reads as zero.           *)
Strobed(w, old, v) ==
    [l \in Lanes |-> IF RamWord(w) /\ l \in v.strb THEN v.data[l] ELSE old[l]]

(* The memory holds from the start what will be loaded. *)
Image == [r \in Runs |-> loaded(r.bench, parsed(r).srec).ram]

Contents(a) ==
    LET ram == IF devices = <<>> THEN Image[sim] ELSE dev.ram
    IN  [l \in Lanes |-> IF a + l \in DOMAIN ram THEN ram[a + l] ELSE 0]

(* What the ports see: words with the bench they belong to, requests for    *)
(* them, and answers in the cycle after the grant.                          *)
WordsHeld == [w \in Words |-> IF w[1] = sim.bench THEN Contents(w[2]) ELSE Zeros]

Asking == [p \in Ports |-> IF req[p] = None THEN None
                           ELSE [req[p] EXCEPT !.adr = <<sim.bench, @>>]]

Answered == [p \in Ports |->
                IF asked[p] = None THEN None
                ELSE [err  |-> n_mem[p].err,
                      data |-> IF asked[p].wen \/ n_mem[p].err THEN None ELSE n_mem[p].rdata]]

SM == INSTANCE SharedMemory WITH
        Values   <- [Lanes -> Byte],
        Merge    <- Strobed,
        Together <- TRUE,
        ReadOnly <- {},
        Unmapped <- {w \in Words : ~RamWord(w) /\ ~UartWord(w)},
        MayFail  <- {},
        mem  <- WordsHeld,
        pend <- Asking,
        rsp  <- Answered

(* The benches give the design the memory that the core complex promises:  *)
(* each port is answered in the cycle after the grant, whatever is granted *)
(* or random then, reads see the writes granted before, also those of the  *)
(* other port, and a write changes the bytes that are strobed and no other *)
(* (core_mem_agent.cpp:39-100, memory_bus.cpp:60-109).                     *)
ImplementsSharedMemory == SM!Spec

(* The codes of the lower-case hex digits. *)
HexCodes == (48 .. 57) \cup (97 .. 102)

(* A reference signature of the right length, in lower-case digits. *)
Complete(file) ==
    /\ Len(file) = Len(dump_signature_file)
    /\ \A c \in DOMAIN file : IF c % 9 = 0 THEN file[c] = NewLine ELSE file[c] \in HexCodes

SignatureAsExpected == opts.verif = None \/ opts.verif = dump_signature_file

(* Any reference: the bytes that it has, in digits, are those in memory. *)
Agrees(file) ==
    \A k \in DOMAIN signature_bytes :
        LET digits == {place(k), place(k) + 1}
        IN  (\A c \in digits : c \in DOMAIN file /\ file[c] \in HexCodes) =>
                \A c \in digits : file[c] = dump_signature_file[c]

(* The exit code says what happened (core main.cpp:299-325): 1 only if the *)
(* time is up and always if no pass or fail address was retired; otherwise *)
(* 0 for a pass address before any fail address with the expected          *)
(* signature in memory, 3 for another signature, 2 for the fail address.   *)
(* Whether the address counts when it comes with the last step of the time *)
(* is left open.  A reference that is too short passes only if it agrees   *)
(* as far as it goes.                                                      *)
VerdictExact ==
    phase = "exit" /\ opts.exit = None =>
        /\ exit = 1 => sim_time >= opts.max_sim_time
        /\ exit # 1 => first # None
        /\ opts.verif = None \/ Complete(opts.verif) =>
                /\ exit = 0 <=> exit # 1 /\ first = opts.pass /\ SignatureAsExpected
                /\ exit = 3 <=> exit # 1 /\ ~SignatureAsExpected
        /\ exit = 0 /\ opts.verif # None => Agrees(opts.verif)
        /\ opts.dump_signature /\ opts.verif = signature => exit # 3

(* The loop examines one trace item per step and an edge adds at most one: *)
(* none is left over, and the simulation ends with the step that captures  *)
(* the first pass or fail address (testbench.cpp:51-68).                   *)
NoRetirementMissed ==
    phase = "run" =>
        /\ dut_trace = <<>>
        /\ sim_finished <=> first # None
        /\ sim_passed <=> first # None /\ first = opts.pass

(* The value of the last TIMEOUT of a command line, or 1000. *)
TimeLimit(r) ==
    LET last == {i \in DOMAIN r.argv :
                    /\ r.argv[i].opt = "TIMEOUT"
                    /\ \A j \in DOMAIN r.argv : j > i => r.argv[j].opt # "TIMEOUT"}
    IN  IF last = {} THEN {1000} ELSE {r.argv[i].val : i \in last}

(* main.cpp:70 and 290-292 count in cycles: a timeout means that the       *)
(* design had as many as +TIMEOUT says, or 1000.  Not so: dut_step_clk,    *)
(* which dut_wrapper.cpp:81 calls a cycle, is half of one.                 *)
TimeoutAfterCycles == exit = 1 => \E n \in TimeLimit(sim) : edges >= n

(* What the code does: N steps of half a cycle, the five in reset among    *)
(* them, all of them used and no more (main.cpp:66-72,                     *)
(* dut_wrapper.cpp:82-113).                                                *)
TimeoutIsHalfCycles ==
    exit = 1 => \E n \in TimeLimit(sim) :
                    2 * edges \in IF n < 5 THEN {5, 6} ELSE {n, n + 1}

(* Every character stored to the UART comes out once and in order, except  *)
(* the end of a line that is not finished.                                 *)
ConsoleIsWhatWasSent ==
    devices # <<>> =>
        /\ dev.console \o dev.tx_buffer = sent
        /\ NewLine \notin ToSet(dev.tx_buffer)
        /\ dev.console # <<>> => Last(dev.console) = NewLine

(* The design starts with the image of the SREC file in its memory: the    *)
(* data of the last record for each address, and zeros                     *)
(* (srec.cpp:13-95, main.cpp:165-177).                                     *)
LoadedImage ==
    phase = "run" /\ edges = 0 /\ opts.srec # None /\ Readable(opts.srec) =>
        \A a \in DOMAIN dev.ram :
            {dev.ram[a]} = IF Says(opts.srec, a) = {} THEN {0} ELSE Says(opts.srec, a)

(* Whatever the design does, main returns: a design that hangs, or whose   *)
(* requests are never granted, is stopped by the time limit.               *)
Terminates == <>(phase = "exit")

=============================================================================
