# Verification of the Croyde RISC-V core

TLA+ models of the control logic of the Croyde core (`src/rtl`), a small 64-bit
RISC-V microcontroller with a fetch stage, a decode/execute stage and a
writeback stage, inside a *core complex* (CCX) with ROM, RAM, memory mapped
timer registers and an AXI4-Lite port; and of the C and C++ programs around it:
the Verilator test benches (`src/verif`) and the programs of the Arty board
(`src/src`). The models are checked with TLC on small instances; every invariant,
action property and refinement that TLC finds to hold is also proved with TLAPS,
for every instance. What remains with TLC alone is liveness.

In the models of the design **one step is one rising edge of the clock**. A register of the
RTL is a variable, a wire is an operator of the registers and of the inputs
sampled in that cycle (the parameter `i` or `x`), and keeps the name it has in
the RTL. What the environment may do (grant, stall, answer, interrupt) is chosen
afresh in every cycle, so a model covers every timing of memory and of
interrupts.

## 1. The system

| Component | State it keeps | Operations | What makes it correct |
|---|---|---|---|
| Fetch (`core_pipe_fetch`, `core_pipe_fetch_buffer`) | request, address, privilege; responses outstanding / to ignore; wanted bytes; 128-bit buffer, error tags | request, response, redirect, drain 2 or 4 bytes | the buffer is the instruction stream at the decode PC; no overflow; a stalled request is held; always delivers again |
| Decode (`core_pipe_decode`) | program counter | present, eat | PC and buffer stay together |
| Execute (`core_pipe_exec`, LSU, CFU, MDU, ALU, crypto) | per-unit done flags, pipeline registers to writeback | start an access, branch, multiply; hand over; flush | each external effect exactly once; nothing half done |
| Writeback (`core_pipe_wb`) | the instruction and what is already done for it; stalled request; sleeping, trapped | retire, trap, interrupt, MRET, WFI, CSR access, load result | precise traps and interrupts; no access lost |
| CSRs, interrupts (`core_csrs`, `core_interrupts`) | mstatus, mie, mepc, mtvec, mcause, mode... | read/write/set/clear, trap, return | the interrupt enable stack; the return address |
| Counters, timer (`core_counters`) | mtime, mtimecmp, cycle, instret | count, MMIO access, interrupt | monotone counting, no lost interrupt |
| Interconnect (`ccx_ic_router`, `ccx_ic_arbiter`, `ccx_ic_top`) | who is to be answered, who is in flight | route, arbitrate, answer | one shared memory; no port waits for ever |
| Memories (`mem_sram_wxd`) and AXI bridge (`bridge_ccx_axi4lite`) | contents; outstanding AXI handshakes | read, write, error | the AXI handshake; one access per request |
| Simulated memory (`verif/share/verilator`: agents, bus, devices) | devices, their contents, the next answer of each port; the UART's line | sample a port, read, write, print a line | the memory that the CCX promises; every character printed once |
| SREC reader (`srec.cpp`) | the image | read a record | the image is what the file says |
| Test benches (`verif/core/verilator`, `verif/ccx/verilator`) | options, time, trace, verdict | arguments, build, load, step half a clock, examine the trace, signature, exit | no retirement missed; the exit code says what happened; always ends |
| Access fault test (`verif/ccx/unit/access-traps`) | what trap is expected, what was seen, the handler | access, trap, check | passes the core complex, and no design that does not trap when it should or traps when it should not |
| Board programs (`src/bsp`, `src/csp`, `src/examples`) | position in the program; timer; UART FIFOs | print, read, wait | messages complete, no character invented, no early wake-up by the timer, none missed |

How they interact: fetch and the LSU are the two memory ports of the core
(`req`/`gnt`, answer in the cycle after the grant; docs/memory-interface.md).
Execute and writeback share the *control flow change bus* to fetch
(`cf_valid`/`cf_ack`), where writeback wins and flushes execute
(core_top.sv:130-140). Stages hand over with `valid`/`ready`. The interrupt line
is sampled by writeback in every cycle. The ports meet again in the
interconnect, where each device has an arbiter that prefers the data port.
A bench drives the clock of the design, half a cycle at a time; at a rising edge
its memory agents sample the ports one after the other, what the design retires
goes to a queue, and the bench's loop compares it with the pass and fail
addresses. Programs on the board poll the UART's status and sleep on the timer
interrupt, or on whatever else is up: WFI ends with any of the three interrupt
lines; all of them go on while the program does not look.

What is hard here: everything happens in the same cycle. Grants, redirects,
answers, bus errors and interrupts coincide in combinations that directed tests
reach only by luck: an interrupt while a data request is stalled, a redirect
while an answer of the old stream is under way, two ports at one device that
answers late, an MRET with nothing behind it. Around the design it is the order
of things that happen by themselves: an answer that is due in a cycle with
random grants, a pass in the step in which the time runs out, a character that
arrives between two accesses of a program, a trap between two statements.
`PROJECT.json` lists these as `hazards`, each at its line.

Not modelled, and why: ALU, immediate decoding, register file and the opcode
tables are combinational data without control; so is the cryptographic unit but
for the two-cycle handshake of its AES part, which is planned; how a gated clock
is made is a circuit property (a step is an edge that arrives; whether it
arrives at the multiply/divide unit is `CLK_GATE_EN` in `CoreMdu`); the RVFI
port only observes; the Xilinx wrapper is a technology cell. Of the software: the
first stage boot loader is start-up code and an endless loop (its call of
`__fsbl_main` is commented out, fsbl_boot.S:59); `dump_readmemh`, `read_word` and
the stall limits (`max_req_stall`) of the benches are used by nothing, and
nothing fills the simulated UART's `rx_buffer`; wave files and messages are
output only; the unit tests other than the access fault test are straight-line
sequences of instructions and comparisons.

## 2. Modules

| Module | Models | Checked by |
|---|---|---|
| `CoreFetch` | fetch stage, fetch buffer, decode PC | `MCCoreFetch`, runs `fetch`, `fetch_redirect`, `fetch_tags` |
| `CoreFetch_proofs` | theorems about `CoreFetch` | TLAPS |
| `CorePipe` | execute and writeback control, LSU, CFU, MDU handshake, interrupt enable stack, control flow bus | `MCCorePipe`, runs `pipe`, `pipe_access`, `pipe_exc` |
| `CorePipe_proofs` | theorems about `CorePipe` | TLAPS |
| `CoreMdu` | multiply/divide unit: counter, multiplier, carry-less multiplier, divider | `MCCoreMdu`, runs `mdu`, `mdu_flush` |
| `CoreMdu_proofs` | theorems about `CoreMdu` | TLAPS |
| `SharedMemory` | abstract: what the CCX, and the benches' memory, promise the memory ports | as a property of `CcxInterconnect` and of `SimBench` |
| `CcxInterconnect` | routers, arbiters, ROM, RAM, registers, AXI bridge | `MCCcxInterconnect`, runs `ccx`, `ccx_ext` |
| `CcxInterconnect_proofs` | theorems about `CcxInterconnect`, with the refinement | TLAPS |
| `SimMemory` | memory agents, bus, RAM and UART of the benches | with `SimBench` |
| `SrecFile` | the SREC reader | with `SimBench` |
| `SimBench` | both test benches: `main`, `testbench`, `dut_wrapper` | `Software` |
| `AccessTraps` | the access fault test and its trap handler | `Software` |
| `ArtyFirmware` | hello world and the UART functions, with timer, WFI and UART | `Software` |
| `SimBench_proofs`, `AccessTraps_proofs`, `ArtyFirmware_proofs` | theorems about these | TLAPS |
| `Induction` | induction and recursion in a form the provers can use; for `SimBench_proofs` and `CoreMdu_proofs` | TLAPS |
| `Software` | one of the three programs at a time | `MCSoftware`, runs `software`, `bench_timeout` |

**CoreFetch.** Addresses and depths are in bytes as in the RTL; `buf_fill` is
the one-hot `buf_fill_2/4/6/8` as a number. A halfword of the buffer is named by
the address it was read from and by whether its answer was an error, so that
"the right instruction" can be stated; `Zero` is a cleared slot, `Junk` what
OR-ing two halfwords would leave. Two actions, `Redirect` and `Run`, split on
`e_cf_change`. Redirect targets, decode stalls, grants, errors and the mode are
arbitrary in every cycle. `spoilt` is history: the stage has lost the fill size of
its current stream, in the one way that the RTL allows (`Spoils`, see the run
`fetch_redirect`); the next redirect clears it.

**CorePipe.** An instruction is a record with the unit that executes it. `s2` is
the instruction fetch presents, `s3` the one in writeback. The actions split a
cycle by the control flow change it carries: `Interrupt`, `Exception`, `Return`
(MRET), `Branch`, `Run`. All instructions have length 1 and the program is
arbitrary: fetch delivers any instruction of `Instrs`. `events` is a history
variable that the properties use and no action reads, and `mdu_stale` another: an
operation of the multiply/divide unit was flushed out of execute and the unit not
since. Every kind of instruction that can may carry `trap`, what decode found
wrong with it: an illegal opcode sets none of decode's unit signals, and a load or
store whose fetch failed is kept from the LSU and a CSR instruction from
writeback (core_pipe_decode.sv:500-509, core_pipe_exec.sv:351), but the other units act on what they
are shown. A CSR instruction writes bits of mstatus or mie, or leaves a value in mepc
(in which of the three ways does not matter for one value), or has an error: a
register that does not exist, or a write of mtvec that mtvec does not take. Good
writes of mtvec are left out, the vectors are constants. The core stays in machine
mode because `mstatus.MPP` is M at reset and nothing writes it
(core_csrs.sv:261 "TODO: csr instruction writes of mpp").

**CoreMdu.** The unit bit for bit, with the width as a parameter: 64 becomes
`XLEN`, 32 half of it, and the 7-bit counter is taken modulo `2 * XLEN`. The
actions are the cycles execute can give it: `Idle` (no instruction of its own;
the clock is gated or not, `CLK_GATE_EN`), `Wait`, `Retire` (the only cycle in
which it is flushed) and `Interrupt` (execute is flushed, the unit is not).
`Meaning` is the reference: the number that the RISC-V manuals say the
instruction computes (`Exact`, over integers; a carry-less product by the parity
of the pairs of bits that meet in a position), cut to the register. `stale` records that an instruction was flushed out of
execute and the unit not yet since; `cycles` counts how long the instruction has
been in execute.

**CcxInterconnect.** Word addresses; regions are power-of-two aligned as the
masks require. A port holds its request until it is granted: for fetch this is
`RequestHeldUntilGranted`, for data `DmemRequestHeld`, both proved below. The
AXI slave is external; it accepts and answers whenever it likes, but only what
it accepted in an earlier cycle. `mtime` stands still (mcountinhibit.TM set):
the registers are here as a device with bad addresses, the counting is left to a
module of its own. `layout` says where a program and its data are; it is chosen
in the initial state and never changes.

**SharedMemory.** A memory, pending requests, answers. A grant takes effect at
once and is answered in the next cycle to the port that asked. The refinement
mapping takes `port` to `pend` and the response wires of a port, in the cycle
after its grant, to `rsp`; the data of a failed read or of a write is not
compared. `Merge` says what a write does to a word (whole words in the CCX,
strobed bytes in the benches), and `Together` whether two ports may be served the
same word in one cycle, a read then not seeing the write. A word that does not
exist may be refused to both ports at once, as two routers do. A word of the
benches is a pair of the bench and the address, so that the memory of the one
bench is not that of the other.

**SimMemory and SimBench.** A step is one call in `main`: `process_arguments`,
`build` (the constructors, `load_srec_file`, `pre_run`), each `dut_step_clk` of
the reset loop and of the main loop with the examination that follows it, and
the rest of `main`. `sim` is the run: which bench, with which command line and
which requests and retirements of the design. The two benches share their code
but for ports, devices and options, so `PROJECT.json` maps some definitions to
one and some to the other. `n_mem` is what an agent will drive, grant included;
it is not initialised by the code, hence arbitrary at the start. A path on the
command line stands for the content of its file. The design under test makes
any request of the run, holds it until it is granted, and retires any
instruction of the run. An empty path on the command line is `None`: SIG_PATH and
SIG_VERIF then set no flag (main.cpp:124, 135). That a path given earlier is not
made empty again by a later argument is part of `RunAssumption`; the flag would
stay set for a file without a name. `edges`, `first`, `asked` and `sent` are history.

**SrecFile.** A record has its type, the byte count as written, address, data
and checksum. The count is converted digit by digit because the code reads the
digit A as 1 (srec.cpp:38-39); `line_byte` is what a count that is too large
then makes of the rest of the line, filled up with `Junk`, one byte, where the
code reads past the end of its line.

**AccessTraps.** A step is a statement that a trap could precede or follow; the
handler is one step, since it runs with interrupts disabled. In `design = "any"`
every access may trap or not, with any cause, and a trap may come before any
step. `mcause` is a code, 0 included, and the interrupt bit, which the handler
loses when it converts mcause to an int (access-traps.c:30), so that its test for
an interrupt never holds. A trap that the handler accepts steps over one
instruction: the access that caused it, or, for a stray trap, one instruction of
the statement that comes next, which then may or may not have its effect
(`Then`). The table and the addresses are those of `test_main` and
`link-ram.ld`.

**ArtyFirmware.** A step is a clock cycle in which the program makes its next
access or waits, or in which a character moves in the UART. `togo` is
`mtimecmp - mtime` and `age` the time since `mtime` was read, so that no absolute
time is needed. `timer_interrupt` is the registered comparison of
core_counters.sv:85; an access is in writeback in the next cycle and a WFI behind
it at the earliest one cycle later (`writeback`). WFI waits for `int_pending`,
which is any of the three lines, enabled or not (core_interrupts.sv:61-63,
core_pipe_wb.sv:269-294): the timer, or `other_int`, which stands for int_ext and
int_sw, open inputs of the core complex that go up and down at will. Behind the
second WFI the program has ended (`off_the_end`).

Definitions named `..._always`, `..._once`, `..._stuck` and so on, each under a
comment "Mutant:", are wrong versions of the definition that follows. No
specification uses them; they are there to show that a property fails if that
definition is replaced.

## 3. Runs

| Run | Result | Shows |
|---|---|---|
| `fetch` | pass, 2783 states | buffer bound, exact response counters, room for every response, buffer = stream unless spoilt, requests held, progress |
| `fetch_redirect` | **violation** | two redirects in a row, the second stalled: the buffer is not the stream |
| `fetch_tags` | **violation** | error tags are shifted per byte and miss their halfword |
| `ccx` | pass, 58354 states | RAM, external memory, ROM, registers, bad and unmapped addresses: refinement of `SharedMemory`, bridge and slave agree, AXI offers are held, data never waits on chip; with code on chip every data access and every fetch is served |
| `ccx_ext` | **violation** | code and data in external memory: both ports can wait for ever |
| `pipe` | pass, 132424 states | nothing half done, no granted access abandoned, stalled request held, interrupts resume correctly; the stages do not wedge, but for a multiplier that lost its end, and WFI completes after a pulse |
| `pipe_access` | **violation** | an interrupt that is not accepted at once makes a load or store skip its access |
| `pipe_exc` | **violation** | a bus error that coincides with an interrupt is lost |
| `mdu` | pass, 696876 states | all 15 operations on all pairs of 4-bit operands, one after the other: results as the manuals define them, timing independent of operands |
| `mdu_flush` | **violation** | a multiplication flushed by an interrupt spoils the next one |
| `software` | pass, 21690 states | benches: refinement of `SharedMemory`, image, console, trace and exit code as they should be, always end; access fault test: goes on only after the right number of traps, and passes the CCX; board: messages intact, reader exact, the timer wakes neither early nor never nor twice |
| `bench_timeout` | **violation** | `+TIMEOUT=N` gives the design half the N cycles that the messages promise |

What the properties of `software` leave out or leave open, because the code does
not do it: a record whose byte count has the digit A (`Readable`); the bytes that
a reference signature does not have, which are compared with 0xFF (`Agrees`
speaks of the others only); the end of a console line that has no newline; a
character that `getc_nb` takes from the FIFO without reporting it.

The findings in `PROJECT.json` give the lines of the code and of the
documentation for each violation. More disagreements between the code and what
the repository says of it have no run of their own:

- `MretRestoresMie` in `CorePipe`: an MRET accepted with execute empty does not
  restore `mstatus.MIE` (docs/user-mode.md:77 says it does). TLC refutes it; it
  belongs to the CSR module of the plan.
- core_pipe_wb.sv:360-363 says of the address that an interrupt saves: "if the
  interrupted instruction is a control flow change, then we must still select
  the next *natural* PC, not the target". The code saves the address in execute,
  which is the target once the branch has redirected fetch. `InterruptResumes`
  states what the code does, which is what resumes the program: the branch has
  retired and is not executed again. The comment is wrong, not the code.
- access-traps.c:32-35 means an interrupt to fail the test. It does not if its
  code is the one expected (the timer interrupt and a store access fault are both
  7), nor does a trap of code 0 between lines 87 and 88. `WrongTrapsFail` in
  `AccessTraps` says that they do, and TLC refutes it; `OnlyExpectedPasses`, which
  is checked and proved, makes the two exceptions in the open.
- testbench.hpp:50: "If the DUT traces out this address, indicate a pass." A pass
  in the very step in which the time runs out is reported as a timeout
  (main.cpp:305). `VerdictExact` leaves open which of the two should win.
- `__fsbl_main` of the hello world program is marked noreturn
  (arty_helloworld.c:11) and ends if int_ext or int_sw is up in its second WFI;
  the same lines cut its delay short. `NoEarlyWake`, `OldTimerNeverWakes` and
  `BoardEnds` say in which way the timer is not to blame for either.

**Bounds.** `CoreFetch`: three 8-byte words. The buffer holds two, so the
address wraps while old data is still buffered; targets cover all four halfword
offsets in a word, instructions are placed inside words, across words and across
the wrap. Nothing else is bounded: two-bit counters and the five-bit depth are
modular as in the RTL. `CorePipe`: three program counter values, so that an
instruction, its successor and its predecessor differ, and so do the two vectors; at most two instructions are
in flight, and the theorems are for any number. `CcxInterconnect`: at most two requests exist at any
time, so one or two words per device and two values distinguish every route,
order and lost or repeated write; on-chip devices and external memory are
separate layouts because their product is too large, both ports reach words
that no device answers, and a third layout has its instructions on chip and its
data in external memory as well. `ccx_ext` is one word and one value (contents are
not looked at). `CoreMdu`: `XLEN = 4` and two bits
per cycle, so that a multiplication takes several iterations, a word is
narrower than a register and still has a sign, and all operands can be
enumerated; every operation follows every other, because `mdu_state` is not
flushed. Only six instructions (`Flushable`) are flushed, and only they follow
until the unit is flushed, since what is claimed of a stale unit is only that it
recovers. `Software`: each run of a bench is about one thing (memory traffic,
console, verdict, signature, image, arguments) with time limits of 4 to 14 half
cycles, five of them in reset, so that a request is made, stalled, granted and
answered next to a competing one, and pass, fail and time limit meet in every
order; RAM has two words, one of them at its end. The access fault test has its
real table of twelve entries and the cause codes 0, 2, 5 and 7, each as an
exception and as an interrupt. The references of the signature are the right one,
a wrong one, one with an upper-case digit, and a short one, also against an image
that it is taken for. The board has
messages of three and two characters, FIFOs of two, so that they fill, and a
delay of five cycles, which the program can overrun between reading `mtime` and
writing `mtimecmp`; at most four characters arrive. `CoreMdu` also passes with `MUL_UNROLL = 1` and with
`CLK_GATE_EN = FALSE`; with `CLMUL_UNROLL = 1`, which the core does not use, it
fails (core_pipe_exec_mdu.sv:103 shifts once too often); the theorem about its
results therefore excludes it.

**Fairness.** The clock runs: weak fairness of `Next`, or, where there is always
something that can change, `[]<><<TRUE>>_vars`, which TLC checks faster. Of the
environment only this is assumed, as conditions on the state: memory grants a
held request in the end and fetch accepts a control flow change and delivers
(`AllFair` of `CorePipe`; `Granted` of `CoreFetch`), an AXI slave that is offered
something accepts it and answers it in the end (`SlaveAnswers`).

That the multiply/divide unit finishes is assumed in `CorePipe` only of a unit
that nothing was flushed from (`mdu_stale` is down), which is what
`TimingIsFixed` shows of `CoreMdu`. It does not hold otherwise: after two
operations of different kinds were flushed in a row the counter steps over its
end. `Progress` therefore says that instructions keep entering writeback unless
execute holds, for ever, an operation of a unit that another was flushed from:
this one wedge is in the code, and no other is.

None of the models of the design assumes that an interrupt comes, that control
flow rests (`FetchProgress` states it as a premise), or that the data port pauses
(`FetchServed` does). `TickSpec` does not weaken `DataServedOnChipFetch` and
`FetchServed`: with instructions on chip a port can always move, and for the
layout with both ports in external memory, where it could not, they claim nothing.
In `Software` the host executes the bench and the core the test (`HostRuns`, and
weak fairness of the steps of the test: nothing blocks them), and on the board an
access of the program is answered in the end, the clock runs, and the UART
transmits what it holds. It is not assumed that memory is ever granted, that the
design retires anything, that characters arrive or that the other interrupt lines
stay down (`BoardEnds` claims both messages whatever they do, and that the program
stays asleep if they stay down while it sleeps).

**Two redirects in a row.** In the run `fetch` grants and stalls are arbitrary. If
control is redirected in two consecutive cycles, `first_req_post_cf` is clear while
the answer of the first redirect is still to be ignored (core_pipe_fetch.sv:184,
207); if memory stalls the request of the second in that cycle, the fill size of
the second target is overwritten and the buffer starts at the wrong halfword. That
is `fetch_redirect`, where `BufferIsTheStream` is violated after five cycles. The
pattern needs a branch and, in the cycle after it is accepted, a trap or interrupt
whose vector is not 8-byte aligned and whose first fetch is stalled, for example
by the data port. `StreamUnlessSpoilt`, checked in `fetch` and proved, says that
this is the only way to break the stream, and that the next redirect repairs it.

## 4. Proofs

`CoreFetch_proofs`: for every size of the address space, every set of targets
and every placement of long instructions.
None of the invariants is inductive by itself. That the buffer has room when an
answer arrives depends on what was known when the request was made (the depth
*after* this cycle's fill and drain, `n_depth`), and the depth counts a fill
whenever decode drains, whether or not data came with it (`update_buffer`). The
inductive invariant therefore ties together four things: one answer is
outstanding exactly when one arrives now; an answer is ignored only if there is
one; while one is ignored or the first request of a new stream is unsent, the
request is on the bus and the buffer is empty; and a fill size is armed over a
non-empty buffer only in the cycle in which its data arrives. From it follow
`FetchTypeOK`, `FetchBufferBound`, `FetchCounters`, `FetchRoom`, and, as an
action property, `FetchRequestHeld`. Assumption used: `AddrAssumption`
(the address space is a multiple of 8 bytes).

`FetchStream` is the property for which the stage exists; it needs jump targets
that are even (an odd JALR target is a hazard of its own) and says
`StreamUnlessSpoilt`. To be inductive, `BufferIsTheStream` must know where the
*next* bytes come from, which `StreamInv` says, while the stream is not spoilt,
for the three places they can be: in the answer that arrives in this cycle, in the
first request after a redirect, of which only `buf_fill` bytes are wanted, or in
the next request. In each the address, less what is not wanted, is the program
counter plus the depth, modulo the address space. A redirect establishes it anew.

`CorePipe_proofs`: for every program and every behaviour of the environment.
`PipeTypeOK` from `PipeAssumption`. `PipeNoHalfDone` and `PipeGranted` rest on
two lemmas: an access that is granted, and a branch that is accepted, move on to
writeback in the same cycle (`GrantedMovesOn`, `BranchMovesOn`), because the
conditions that let them act imply that writeback is ready. `PipeDmemRequestHeld`
needs `StalledNotCancelled`: a cycle in which a request is stalled leaves
nothing in writeback that could cancel it in the next one. An interrupt is held
back by `delay_int_request`, and an exception of the instruction in writeback
would have shown in the same cycle and cancelled the request before it was made.
The invariant that is carried, `HeldInv`, says that the request does not depend
on the inputs of the cycle at all. `PipeInterruptResumes` needs `ExecuteFollows`:
execute is at the instruction after the one in writeback, unless that one has
trapped; a branch keeps this true because it enters writeback in the cycle in
which fetch takes its target. An interrupt that meets an exception or an MRET
in writeback is left out by the property itself; the first is the finding of
`pipe_exc`.

`CcxInterconnect_proofs`: for every memory map and every AXI slave, from
`RegionAssumption` (regions are aligned to their power-of-two length and do not
overlap, as the masks of the router require; None is no word and no value). The
invariant `IInv` is the type invariant, `BridgeHoldsWhatSlaveHas`, and
`StalledFetchStays`: only a fetch from external memory is ever in flight at an
arbiter, and it stays on its port meanwhile. The last is what keeps the address
and the data of an AXI offer still (`OfferStays`), since the arbiter would put a
data access in front of a fetch that is not in flight; `AxiOffersAreHeld` and
the step of `BridgeHoldsWhatSlaveHas` follow from it. For the refinement
`InterconnectIsSharedMemory` the ports that are granted in a cycle are those that
`SharedMemory` grants, each region answers its own port one cycle later
(`route_rsp`), and what the device, or the slave, does to the word is what
`SharedMemory` does.

`CoreMdu_proofs`: for registers of every even width, all operands, every order of
instructions and every flush, with unrollings that fit (`UnrollsFit`: the
multiplier's is 1 or even, and both divide a word; the source has 4 and 8).
Without that the counter misses its end. Three invariants:

- `TimingInv`: unless an instruction was flushed out of execute, the flags and
  the counter are a function of the instruction and of the cycles it has been
  there (`InStep`). It gives `MduTimingIsFixed`.
- `TypeOK`, which is inductive as it stands, and needs no hypothesis on the
  unrollings.
- `DataInv`, with `MulData`, `ClmulData` and `DivData`, for the results. When n
  bits of the multiplier have been retired, the accumulator is the product of the
  multiplicand and of those n bits, `XLEN - n` bits up, modulo `2^MLEN`; the last
  bit of a signed multiplier counts negative, which is the subtraction of
  `sub_last`, and the extra bit of the sum (`Low(mul_sum, XLEN + 1)`) suffices
  because the upper half is a number of XLEN bits and a sign (`HighHalf`).
  The carry-less product is followed bit by bit: bit j is the parity of the pairs
  of bits whose positions add up to `j - (XLEN - n)` (`Partial`), and one more bit
  adds one pair or none (`ParityStep`). In a division with c bits of the quotient
  to come, dividend = quotient * divisor + remainder, the quotient is a multiple
  of `2^c` and the remainder is less than divisor * 2^c (`Split`); a divisor of
  zero is always taken off, so that the quotient fills with ones, which is why
  `div_outsign` must not negate it.

`MduResultIsMeaning` also assumes `CLMUL_UNROLL # 1`. The unrolled loops of a
cycle are recursive functions; `MulLoop`, `ClmulLoop` and `ValueLoop` unfold
them by `RecursionExists` of `Induction`. The provers know no powers, so
`PowerAssumption` gives the definition of `2^n`; TLC evaluates it. What it costs
is a body of lemmas on division, remainders, powers and bits, proved from the
provers' linear arithmetic.

`Induction`: the library states induction with an operator as a parameter, which
these provers cannot instantiate. `SetInduction` and `BoundedInduction` take a
set instead, and `RecursionExists` a function for the step, and follow from the
library's well-founded induction. Induction over data is therefore within reach,
if what the loops compute is written with recursive functions.

`SimBench_proofs`: for every command line, image, design and memory traffic,
from assumptions on what a run is: `RunAssumption` (arguments are of their types,
addresses and times are numbers and None is not one), `DeviceAssumption` (RAM and
UART have whole words and lie apart), `RequestAssumption` (the core asks for whole
words and fetch only reads) and `JunkAssumption` (what the code reads from beyond a
line is a byte).

- `BenchInv`: the clock and the trace are in step. `NoRetirementMissed` needs to
  know that nothing is retired before the end of reset, so that the queue is empty
  when the main loop starts; from then on a step adds at most one item and removes
  it (`RunStep`). `first` is None, the pass or the fail address, from which the
  exit codes follow (`BenchVerdictSound`: 1 only when the time is up, 0 only
  after the pass address, 2 only after the fail address).
- `TimeInv`: the time is the number of half cycles made, and the limit is the
  last TIMEOUT of the command line, which a fold over the arguments finds
  (`BenchTimeout`: what `+TIMEOUT` means in the code, `TimeoutIsHalfCycles`).
- `MemInv`: the devices hold bytes, the ports carry requests of the run, a request
  is held until it is taken, and the lines that were printed with the line that
  is still open are what was sent (`BenchConsole`). Before the first edge RAM holds
  what the records of the image say, the last one counting (`BenchImage`).
- Together they are `FullInv` (`BenchMemory`); with the flags of the design they
  give `BenchTypeOK`.

The refinement `BenchIsSharedMemory` maps the bytes of RAM to words
(`WordsHeld`), the requests of the ports to `pend` and the answers due to `rsp`.
An edge is one `Cycle` of `SharedMemory`: the agents serve the ports one after the
other, fetch first, so that a fetch does not see the store of the same cycle, and
a strobed write of an aligned word touches no other word. `BenchVerdictExact` adds the signature: what
`dump_signature_file` prints, digit by digit, and what `verif_signature_file` reads
back are inverse (`Printed`, `reference_byte`), so that the comparison of the files
is the comparison of the memories; for a reference that is not complete the same
holds of each byte that it has (`Agrees`).

`AccessTraps_proofs`: for every table, every set of cause codes, 0 among them, and
every design. The invariant `Stage` says for each statement what is expected and
which traps have come: quiet, prepared (a trap is expected whose cause is not
set yet, so that only code 0 matches), awaited, come. `TrapStep` is the core: a
trap either fails the test or takes the place of the one awaited, and then no
second one is accepted; it is the one awaited unless it is an interrupt or has
code 0 (`odd`). A stray trap may also swallow the statement that comes next, so
each stage has to hold with and without that statement's effect. `TestSound` is
the action property `OnlyExpectedPasses`.

`ArtyFirmware_proofs`: for all messages, delays and FIFO depths
(`BoardAssumption`), without fairness. `BoardInv` ties the position in the
program to the FIFO (once the status was seen not full it stays so, as only the
program fills it), and to the timer: while the program waits for the first
interrupt, `togo = Delay - age` and the timer's interrupt is down, or the delay is over;
after mtimecmp is set to -1 the registered interrupt may be up for one more
cycle (`wb2`) and is down in `wfi2`. `BoardMessages`, `BoardSleeps`,
`BoardReader` and `BoardDelay` follow; int_ext and int_sw are arbitrary in every
cycle, and what `BoardDelay` and `BoardSleeps` say is that the timer alone wakes
neither WFI wrongly (`WakesByWfi`). They need lemmas on sequences (moving a
head to the end of another sequence, taking a longer prefix).

Only model-checked: liveness (`FetchProgress`, `DataServedOnChipFetch`, `FetchServed`,
`Progress`, `BenchEnds`, `TestEnds`, `BoardEnds`), which is out of the prover's
reach, and the seven properties that the code does not have.

What the proofs found in the models: `SharedMemory` did not allow both ports to be
refused the same unmapped word in one cycle, which the CCX does; its words did not
tell the two benches apart; `TimeoutIsHalfCycles` was wrong for a command line
without TIMEOUT; two cases of a definition of `CoreMdu` overlapped. All were
beyond the small instances, and are corrected. What they found of the code is the
hypotheses they need: `~spoilt` and even targets for the fetch stage,
`UnrollsFit` and `CLMUL_UNROLL # 1` for the multiply/divide unit.

## 5. Plan

Done: the fetch stage, the interconnect with its abstract specification, the
control of execute and writeback, the multiply/divide unit, the test benches with
their memory, the access fault test, the board programs, and the theorems of
section 4. In order:

1. **CoreAes**: the two-cycle handshake of the AES instructions, whose half
   register is not flushed either (core_pipe_exec_crypto_aes64.sv:313).
2. **CoreCsrs**: mstatus (MPP, MPRV, TW), mode, mcause, mtvec and mepc under
   traps, returns and csr instructions, with the three interrupt lines, their
   priority and vectoring; the repeated trap that overwrites MPIE, the csr write
   that an interrupt overrides, the forwarding of mepc to MRET, and
   `MretRestoresMie` for the mode as well.
3. **CoreCounters**: mtime, cycle and instret with their inhibits and their wrap;
   writes of mtime that race its increment.
4. **LSU data path**: byte lanes, strobes, shifts and sign extension against a
   byte-wise reference, as operators over small data.
5. **Composition** of `CoreFetch` and `CorePipe` over the control flow bus, with
   odd jump targets and the consecutive redirects of section 3.
6. **Proofs** for the modules above as they come; of those that are there, the
   refinement of the fetch stage's stream under the composition of item 5, where
   even targets would become a property of execute, and it could be shown which
   redirects can follow each other.
