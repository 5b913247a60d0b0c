--------------------------- MODULE SimBench_proofs ---------------------------
(***************************************************************************)
(* The verdict of the test benches, for every command line, every image,   *)
(* every design and every memory traffic.                                  *)
(***************************************************************************)
EXTENDS SimBench, Induction, SequenceTheorems, FiniteSetTheorems

(* Before the main loop nothing has been retired or decided. *)
Fresh == /\ trs = None /\ dut_trace = <<>> /\ first = None
         /\ sim_finished = FALSE /\ sim_passed = FALSE

(* The exit code of a simulation: 1 if and only if the time is up, and      *)
(* otherwise a design passes only by retiring the pass address first, and   *)
(* is failed with 2 only for retiring the fail address first.               *)
VerdictSound ==
    phase = "exit" /\ opts.exit = None =>
        /\ exit \in 0 .. 3
        /\ exit = 1 => sim_time >= opts.max_sim_time
        /\ exit = 0 => first = opts.pass
        /\ exit = 2 => first = opts.fail /\ first # opts.pass
        /\ exit = 3 => first # None

(* The inductive invariant: the design retires nothing before the end of    *)
(* the reset, and then the flags follow what it has retired.                *)
BenchInv ==
    /\ sim \in Runs /\ sim_time \in Nat
    /\ phase \in {"arguments", "build", "run", "exit"}
    /\ phase \in {"arguments", "build"} => Fresh
    /\ phase \in {"build", "run"} => opts = parsed(sim) /\ opts.exit = None
    /\ phase = "run" /\ resets # 0 => Fresh
    /\ phase = "run" => /\ NoRetirementMissed
                        /\ trs \in sim.pcs \cup {None}
                        /\ first \in {None, opts.pass, opts.fail}
                        /\ sim_finished \in BOOLEAN /\ sim_passed \in BOOLEAN
    /\ VerdictSound

-----------------------------------------------------------------------------
(* What the command line can set. *)
Given(r, o) == {r.argv[i].val : i \in {j \in DOMAIN r.argv : r.argv[j].opt = o}} \cup {None}

Options(r) ==
    [srec : Given(r, "IMEM"), max_sim_time : Nat, pass : Int, fail : Int,
     sig_start : Nat, sig_end : Nat, dump_signature : BOOLEAN,
     verif : Given(r, "SIG_VERIF"), exit : {None, 0, Aborted}]

(* The settings a bench starts with are settings.                          *)
LEMMA DefaultsType ==
    ASSUME NEW r \in Runs
    PROVE  defaults(r.bench) \in Options(r)
BY DEF defaults, Options, Given

(* The time limit changes with TIMEOUT and with nothing else, and only in  *)
(* a command line that is not refused.                                     *)
LEMMA ArgumentType ==
    ASSUME NEW r \in Runs, NEW o \in Options(r), NEW i \in DOMAIN r.argv
    PROVE  /\ argument(r.bench, o, r.argv[i]) \in Options(r)
           /\ argument(r.bench, o, r.argv[i]).exit = None =>
                /\ o.exit = None
                /\ argument(r.bench, o, r.argv[i]).max_sim_time =
                    IF r.argv[i].opt = "TIMEOUT" THEN 10 * r.argv[i].val ELSE o.max_sim_time
<1> DEFINE arg == r.argv[i]
<1>1. arg.opt \in {"IMEM", "SIG_VERIF"} => arg.val \in Given(r, arg.opt)
  BY DEF Given
<1>2. /\ arg.opt \in {"PASS_ADDR", "FAIL_ADDR"} => arg.val \in Int
      /\ arg.opt \in {"TIMEOUT", "SIG_START", "SIG_END"} => arg.val \in Nat
      /\ None # 0 /\ None # Aborted
  BY RunAssumption DEF Aborted
<1> HIDE DEF arg
<1>3. CASE o.exit # None
  BY <1>3 DEF argument
<1>4. CASE o.exit = None /\ arg.opt = "TIMEOUT"
  <2>1. argument(r.bench, o, arg) = [o EXCEPT !.max_sim_time = 10 * arg.val]
    BY <1>4 DEF argument
  <2> QED BY <1>2, <1>4, <2>1 DEF Options, arg
<1>5. CASE o.exit = None /\ arg.opt # "TIMEOUT"
  <2>1. argument(r.bench, o, arg) \in
            {o, [o EXCEPT !.dump_signature = o.dump_signature \/ arg.val # None],
             [o EXCEPT !.exit = Aborted], [o EXCEPT !.exit = 0]}
             \cup (IF arg.opt = "SIG_START" THEN {[o EXCEPT !.sig_start = arg.val]} ELSE {})
             \cup (IF arg.opt = "SIG_END" THEN {[o EXCEPT !.sig_end = arg.val]} ELSE {})
             \cup (IF arg.opt = "SIG_VERIF" THEN {[o EXCEPT !.verif = arg.val]} ELSE {})
             \cup (IF arg.opt \in {"PASS_ADDR", "FAIL_ADDR"}
                   THEN {[o EXCEPT !.pass = arg.val], [o EXCEPT !.fail = arg.val]} ELSE {})
             \cup (IF arg.opt = "IMEM" THEN {[o EXCEPT !.srec = arg.val]} ELSE {})
    BY <1>5 DEF argument, mem_max_stall
  <2> DEFINE x == argument(r.bench, o, arg)
  <2>2. CASE x \in {o, [o EXCEPT !.exit = Aborted], [o EXCEPT !.exit = 0]}
    BY <1>2, <1>5, <2>2 DEF Options, arg
  <2>6. CASE x = [o EXCEPT !.dump_signature = o.dump_signature \/ arg.val # None]
    <3>1. (o.dump_signature \/ arg.val # None) \in BOOLEAN
      OBVIOUS
    <3> QED BY <1>5, <2>6, <3>1 DEF Options, arg
  <2>3. CASE arg.opt = "PASS_ADDR" \/ arg.opt = "FAIL_ADDR"
    BY <1>2, <1>5, <2>1, <2>3, ZenonT(60) DEF Options, arg
  <2>5. CASE arg.opt = "SIG_START" \/ arg.opt = "SIG_END"
    BY <1>2, <1>5, <2>1, <2>5, ZenonT(60) DEF Options, arg
  <2>4. CASE arg.opt = "IMEM" \/ arg.opt = "SIG_VERIF"
    BY <1>1, <1>2, <1>5, <2>1, <2>4, ZenonT(60) DEF Options, arg
  <2> QED BY <2>1, <2>2, <2>3, <2>4, <2>5, <2>6
<1> QED BY <1>3, <1>4, <1>5

(* The loop over the arguments does what it says. *)
LEMMA ParsedSteps ==
    ASSUME NEW r \in Runs
    PROVE  /\ Len(r.argv) \in Nat
           /\ parsed_upto(r)[0] = defaults(r.bench)
           /\ \A k \in 1 .. Len(r.argv) :
                parsed_upto(r)[k] = argument(r.bench, parsed_upto(r)[k - 1], r.argv[k])
           /\ \A k \in 0 .. Len(r.argv) : parsed_upto(r)[k] \in Options(r)
<1> DEFINE N == Len(r.argv)
           step == [k \in 1 .. N |-> [o \in Options(r) |-> argument(r.bench, o, r.argv[k])]]
           Rec(f) == f = [k \in 0 .. N |-> IF k = 0 THEN defaults(r.bench)
                                           ELSE argument(r.bench, f[k - 1], r.argv[k])]
<1>1. N \in Nat /\ DOMAIN r.argv = 1 .. N
  BY RunAssumption
<1>2. step \in [1 .. N -> [Options(r) -> Options(r)]]
  BY <1>1, ArgumentType
<1> HIDE DEF step, N
<1>3. PICK g \in [0 .. N -> Options(r)] : GoesOn(g, N, defaults(r.bench), step)
  BY <1>1, <1>2, DefaultsType, RecursionExists
<1>4. Rec(g)
  <2>1. \A k \in 0 .. N : g[k] = IF k = 0 THEN defaults(r.bench)
                                 ELSE argument(r.bench, g[k - 1], r.argv[k])
    <3>1. \A k \in 1 .. N : k - 1 \in 0 .. N /\ g[k - 1] \in Options(r)
      BY <1>1, <1>3
    <3>2. \A k \in 1 .. N : g[k] = argument(r.bench, g[k - 1], r.argv[k])
      BY <1>3, <3>1 DEF GoesOn, step
    <3> QED BY <1>1, <1>3, <3>2 DEF GoesOn
  <2> QED BY <2>1
<1>5. parsed_upto(r) = CHOOSE f : Rec(f)
  BY DEF parsed_upto, N
<1>6. Rec(parsed_upto(r))
  BY <1>4, <1>5, Zenon
<1>7. /\ parsed_upto(r)[0] = defaults(r.bench)
      /\ \A k \in 1 .. N : parsed_upto(r)[k] = argument(r.bench, parsed_upto(r)[k - 1], r.argv[k])
  BY <1>1, <1>6
<1> DEFINE S == {k \in 0 .. N : parsed_upto(r)[k] \in Options(r)}
<1>8. 0 \in S
  BY <1>1, <1>7, DefaultsType
<1>9. \A n \in 0 .. N - 1 : n \in S => n + 1 \in S
  BY <1>1, <1>7, ArgumentType
<1> HIDE DEF S
<1>10. \A n \in 0 .. N : n \in S
  BY <1>1, <1>8, <1>9, BoundedInduction
<1> QED BY <1>1, <1>7, <1>10 DEF S, N

(* What a command line that is accepted sets: the last TIMEOUT counts. *)
LEMMA ParsedType ==
    ASSUME NEW r \in Runs
    PROVE  /\ parsed(r) \in Options(r)
           /\ parsed(r).exit = None => \E n \in TimeLimit(r) : n \in Nat /\ parsed(r).max_sim_time = 10 * n
<1> DEFINE N == Len(r.argv)
           P == parsed_upto(r)
           At(i) == r.argv[i].opt = "TIMEOUT"
           Limit(k, t) == \/ (\A i \in 1 .. k : ~At(i)) /\ t = 10000
                          \/ \E i \in 1 .. k : /\ At(i) /\ t = 10 * r.argv[i].val
                                               /\ \A j \in 1 .. k : j > i => ~At(j)
           S == {k \in 0 .. N : P[k].exit = None => Limit(k, P[k].max_sim_time)}
<1>1. N \in Nat /\ DOMAIN r.argv = 1 .. N /\ \A k \in 0 .. N : P[k] \in Options(r)
  BY RunAssumption, ParsedSteps
<1>2. 0 \in S
  <2>1. P[0].max_sim_time = 10000
    <3>1. P[0] = defaults(r.bench)
      BY ParsedSteps
    <3>2. defaults(r.bench).max_sim_time = 10000
      BY DEF defaults
    <3> QED BY <3>1, <3>2
  <2> QED BY <1>1, <2>1
<1>3. ASSUME NEW n \in 0 .. N - 1, n \in S
      PROVE  n + 1 \in S
  <2>1. SUFFICES ASSUME P[n + 1].exit = None
                 PROVE  Limit(n + 1, P[n + 1].max_sim_time)
    BY <1>1
  <2>2. n + 1 \in 1 .. N /\ n + 1 \in DOMAIN r.argv /\ P[n] \in Options(r)
    BY <1>1
  <2>3. P[n + 1] = argument(r.bench, P[n], r.argv[n + 1])
    BY <2>2, ParsedSteps
  <2>4. /\ P[n].exit = None
        /\ P[n + 1].max_sim_time = IF At(n + 1) THEN 10 * r.argv[n + 1].val ELSE P[n].max_sim_time
    BY <2>1, <2>2, <2>3, ArgumentType
  <2>5. Limit(n, P[n].max_sim_time)
    BY <1>3, <2>4
  <2>6. 1 .. n + 1 = (1 .. n) \cup {n + 1} /\ \A i \in 1 .. n : ~(i > n + 1) /\ n + 1 > i
    OBVIOUS
  <2>7. CASE At(n + 1)
    <3>1. n + 1 \in 1 .. n + 1 /\ \A j \in 1 .. n + 1 : j > n + 1 => ~At(j)
      BY <2>6
    <3> QED BY <2>4, <2>7, <3>1
  <2>8. CASE ~At(n + 1)
    BY <2>4, <2>5, <2>6, <2>8
  <2> QED BY <2>7, <2>8
<1> HIDE DEF S
<1>4. N \in S
  <2>1. \A n \in 0 .. N : n \in S
    BY <1>1, <1>2, <1>3, BoundedInduction
  <2> QED BY <1>1, <2>1
<1>5. parsed(r) = P[N]
  BY DEF parsed
<1>6. parsed(r) \in Options(r)
  BY <1>1, <1>5
<1>7. ASSUME parsed(r).exit = None
      PROVE  \E n \in TimeLimit(r) : n \in Nat /\ parsed(r).max_sim_time = 10 * n
  <2>1. Limit(N, parsed(r).max_sim_time)
    BY <1>4, <1>5, <1>7 DEF S
  <2>2. CASE (\A i \in 1 .. N : ~At(i)) /\ parsed(r).max_sim_time = 10000
    <3>1. TimeLimit(r) = {1000}
      BY <1>1, <2>2 DEF TimeLimit
    <3> QED BY <2>2, <3>1
  <2>3. ASSUME NEW i \in 1 .. N, At(i), parsed(r).max_sim_time = 10 * r.argv[i].val,
               \A j \in 1 .. N : j > i => ~At(j)
        PROVE  \E n \in TimeLimit(r) : n \in Nat /\ parsed(r).max_sim_time = 10 * n
    <3>1. r.argv[i].val \in TimeLimit(r)
      BY <1>1, <2>3 DEF TimeLimit
    <3>2. r.argv[i].val \in Nat
      BY <1>1, <2>3, RunAssumption
    <3> QED BY <2>3, <3>1, <3>2
  <2> QED BY <2>1, <2>2, <2>3
<1> QED BY <1>6, <1>7

(* No address of a run is mistaken for an absent one.                      *)
LEMMA NoAddressIsNone ==
    ASSUME NEW r \in Runs
    PROVE  None \notin {parsed(r).pass, parsed(r).fail} \cup r.pcs
BY ParsedType, RunAssumption DEF Options

-----------------------------------------------------------------------------
(* A run starts in the invariant of its verdict.                           *)
LEMMA BenchInit == Init => BenchInv
BY DEF Init, BenchInv, Fresh, VerdictSound

(* What a step of half a clock cycle does to the instructions retired. *)
LEMMA HalfCycle ==
    ASSUME dut_step_clk
    PROVE  /\ UNCHANGED <<sim, opts, signature>> /\ sim_time' = sim_time + 10
           /\ f_clk => UNCHANGED <<trs, first>>
           /\ ~f_clk =>
                /\ trs' \in IF resets # 0 THEN {None} ELSE sim.pcs \cup {None}
                /\ first' = IF first = None /\ trs \in {opts.pass, opts.fail} THEN trs ELSE first
BY DEF dut_step_clk, posedge_gclk, dut_edge

(* In reset nothing is retired, so nothing is captured. *)
LEMMA ResetStep ==
    ASSUME BenchInv, reset_step
    PROVE  BenchInv'
<1>1. /\ phase = "run" /\ phase' = "run" /\ Fresh /\ opts = parsed(sim) /\ opts.exit = None
      /\ sim \in Runs
  BY DEF BenchInv, reset_step
<1>2. None \notin {opts.pass, opts.fail}
  BY <1>1, NoAddressIsNone
<1>3. UNCHANGED <<sim, opts, sim_finished, sim_passed>> /\ trs' = None /\ first' = None
  BY <1>1, <1>2, HalfCycle DEF reset_step, Fresh
<1>5. sim_time' \in Nat
  BY HalfCycle DEF reset_step, BenchInv
<1>4. dut_trace' = <<>>
  BY <1>1 DEF reset_step, captured, Fresh
<1> QED BY <1>1, <1>2, <1>3, <1>4, <1>5 DEF BenchInv, Fresh, NoRetirementMissed, VerdictSound

(* A step of the main loop: what is captured is examined at once. *)
LEMMA RunStep ==
    ASSUME BenchInv, run_step
    PROVE  BenchInv'
<1>1. /\ phase = "run" /\ phase' = "run" /\ resets = 0 /\ resets' = 0
      /\ sim \in Runs /\ opts = parsed(sim) /\ opts.exit = None
      /\ sim_finished = FALSE /\ first = None /\ sim_passed = FALSE /\ dut_trace = <<>>
      /\ trs \in sim.pcs \cup {None}
  BY DEF BenchInv, run_step, running, NoRetirementMissed
<1>2. None \notin {opts.pass, opts.fail}
  BY <1>1, NoAddressIsNone
<1>3. UNCHANGED <<sim, opts>> /\ sim_time' \in Nat
  BY HalfCycle DEF run_step, BenchInv
<1>4. trs' \in sim.pcs \cup {None}
  BY <1>1, HalfCycle DEF run_step
<1>5. CASE captured = <<>>
  <2>1. UNCHANGED <<sim_finished, sim_passed>> /\ dut_trace' = <<>>
    BY <1>5 DEF run_step, examine
  <2>2. f_clk \/ trs = None
    BY <1>1, <1>5 DEF captured
  <2>3. first' = None
    BY <1>1, <1>2, <2>2, HalfCycle DEF run_step
  <2> QED BY <1>1, <1>2, <1>3, <1>4, <2>1, <2>3
          DEF BenchInv, NoRetirementMissed, VerdictSound
<1>6. CASE captured # <<>>
  <2>1. ~f_clk /\ trs # None /\ captured = <<trs>>
    BY <1>1, <1>6 DEF captured
  <2>2. /\ sim_finished' = (trs \in {opts.pass, opts.fail})
        /\ sim_passed' = (trs = opts.pass)
        /\ dut_trace' = <<>>
    <3>1. Head(captured) = trs /\ Tail(captured) = <<>>
      BY <2>1
    <3>2. /\ sim_finished' = (sim_finished \/ trs \in {opts.pass, opts.fail})
          /\ sim_passed' = IF trs = opts.pass THEN TRUE
                           ELSE IF trs = opts.fail THEN FALSE ELSE sim_passed
          /\ dut_trace' = <<>>
      BY <1>6, <3>1 DEF run_step, examine
    <3>3. sim_finished' = (trs \in {opts.pass, opts.fail})
      BY <1>1, <3>2
    <3>4. sim_passed' = (trs = opts.pass)
      BY <1>1, <3>2
    <3> QED BY <3>2, <3>3, <3>4
  <2>3. first' = IF trs \in {opts.pass, opts.fail} THEN trs ELSE None
    BY <1>1, <2>1, HalfCycle DEF run_step
  <2>4. sim_finished' <=> first' # None
    BY <2>1, <2>2, <2>3
  <2>5. sim_passed' <=> first' # None /\ first' = opts.pass
    BY <1>2, <2>1, <2>2, <2>3
  <2>6. NoRetirementMissed'
    BY <1>3, <2>2, <2>4, <2>5 DEF NoRetirementMissed
  <2>7. first' \in {None, opts.pass, opts.fail} /\ sim_finished' \in BOOLEAN /\ sim_passed' \in BOOLEAN
    BY <2>2, <2>3
  <2> QED BY <1>1, <1>3, <1>4, <2>6, <2>7 DEF BenchInv, VerdictSound
<1> QED BY <1>5, <1>6

(* The end of main reports what the flags say. *)
LEMMA Finish ==
    ASSUME BenchInv, finish
    PROVE  BenchInv'
<1>1. /\ phase = "run" /\ phase' = "exit" /\ resets = 0 /\ ~running
      /\ UNCHANGED <<sim, opts, sim_time, first>> /\ opts.exit = None /\ sim \in Runs
      /\ NoRetirementMissed /\ opts = parsed(sim)
      /\ first \in {None, opts.pass, opts.fail} /\ sim_finished \in BOOLEAN
      /\ sim_passed \in BOOLEAN /\ sim_time \in Nat
  BY DEF BenchInv, finish, history
<1>2. PICK v : exit' = verdict(v)
  BY DEF finish
<1>3. sim_finished <=> first # None
  BY <1>1 DEF NoRetirementMissed
<1>4. sim_passed <=> first # None /\ first = opts.pass
  BY <1>1 DEF NoRetirementMissed
<1>5. opts.max_sim_time \in Int
  BY <1>1, ParsedType DEF Options
<1>6. ASSUME sim_time >= opts.max_sim_time
      PROVE  VerdictSound'
  BY <1>1, <1>2, <1>6 DEF VerdictSound, verdict
<1>7. ASSUME ~(sim_time >= opts.max_sim_time)
      PROVE  VerdictSound'
  <2>1. sim_finished
    BY <1>1, <1>5, <1>7 DEF running
  <2>2. exit' = IF sim_passed /\ v THEN 0 ELSE IF ~v THEN 3 ELSE 2
    BY <1>2, <1>7 DEF verdict
  <2>3. first # None /\ (sim_passed <=> first = opts.pass)
    BY <1>3, <1>4, <2>1
  <2>4. exit' = 0 => first = opts.pass
    BY <2>2, <2>3
  <2>5. exit' = 2 => first = opts.fail /\ first # opts.pass
    BY <1>1, <2>2, <2>3
  <2>6. exit' \in {0, 2, 3}
    BY <2>2
  <2> QED BY <1>1, <1>7, <2>3, <2>4, <2>5, <2>6 DEF VerdictSound
<1> QED BY <1>1, <1>6, <1>7 DEF BenchInv, NoRetirementMissed

(* Every step of the bench keeps it.                                       *)
LEMMA BenchNext ==
    ASSUME BenchInv, [Next]_vars
    PROVE  BenchInv'
<1>1. CASE process_arguments
  BY <1>1 DEF process_arguments, BenchInv, Fresh, history, VerdictSound
<1>2. CASE build
  BY <1>2 DEF build, BenchInv, Fresh, NoRetirementMissed, VerdictSound
<1>3. CASE reset_step
  BY <1>3, ResetStep
<1>4. CASE run_step
  BY <1>4, RunStep
<1>5. CASE finish
  BY <1>5, Finish
<1>6. CASE UNCHANGED vars
  BY <1>6 DEF vars, benchVars, history, BenchInv, Fresh, NoRetirementMissed, VerdictSound
<1> QED BY <1>1, <1>2, <1>3, <1>4, <1>5, <1>6 DEF Next, exited

(* The invariant holds in every run of either bench. *)
THEOREM BenchInvariant == Spec => []BenchInv
BY BenchInit, BenchNext, PTL DEF Spec

(* No retired instruction is left unexamined, and the flags say which of   *)
(* the two addresses came first (testbench.cpp:38-70).                     *)
THEOREM BenchMissesNothing == Spec => []NoRetirementMissed
<1>1. BenchInv => NoRetirementMissed
  BY DEF BenchInv, NoRetirementMissed
<1> QED BY <1>1, BenchInvariant, PTL

(* The exit code is sound, whatever the signature check says               *)
(* (main.cpp:299-325).                                                     *)
THEOREM BenchVerdictSound == Spec => []VerdictSound
<1>1. BenchInv => VerdictSound
  BY DEF BenchInv
<1> QED BY <1>1, BenchInvariant, PTL

-----------------------------------------------------------------------------
(* The time goes by in half cycles: five in reset, and then until a step   *)
(* ends at the limit or after it.                                          *)
TimeInv ==
    /\ edges \in Nat /\ f_clk \in BOOLEAN /\ resets \in 0 .. 5
    /\ sim_time = 20 * edges - (IF f_clk THEN 10 ELSE 0)
    /\ phase \in {"arguments", "build"} => sim_time = 0 /\ exit = None
    /\ phase = "run" /\ resets # 0 => sim_time = 10 * (5 - resets)
    /\ phase = "run" /\ resets = 0 => \/ sim_time = 50
                                      \/ (sim_time > 50 /\ sim_time < opts.max_sim_time + 10)
    /\ phase = "run" => exit = None
    /\ TimeoutIsHalfCycles

(* The time starts at the first half cycle.                                *)
LEMMA TimeInit == Init => TimeInv
<1> SUFFICES ASSUME Init PROVE TimeInv
  OBVIOUS
<1>1. None # 1
  BY RunAssumption
<1>2. /\ phase = "arguments" /\ exit = None /\ edges = 0 /\ f_clk = FALSE /\ resets = 0
      /\ sim_time = 0
  BY DEF Init
<1>3. TimeoutIsHalfCycles
  BY <1>1, <1>2 DEF TimeoutIsHalfCycles
<1>4. (IF f_clk THEN 10 ELSE 0) = 0 /\ ~f_clk /\ f_clk \in BOOLEAN
  BY <1>2, Zenon
<1>5. sim_time = 20 * edges - 0 /\ edges \in Nat /\ resets \in 0 .. 5
  BY <1>2
<1>6. phase # "run"
  BY <1>2
<1> QED BY <1>2, <1>3, <1>4, <1>5, <1>6, Zenon DEF TimeInv

(* Half a cycle on: an edge is counted as the clock rises. *)
LEMMA TimeStep ==
    ASSUME BenchInv, TimeInv, dut_step_clk
    PROVE  /\ edges' \in Nat /\ f_clk' \in BOOLEAN
           /\ sim_time' = sim_time + 10
           /\ sim_time' = 20 * edges' - (IF f_clk' THEN 10 ELSE 0)
<1>1. f_clk' = ~f_clk /\ sim_time' = sim_time + 10
  BY DEF dut_step_clk
<1>2. CASE f_clk = TRUE
  <2>1. f_clk' = FALSE /\ edges' = edges
    BY <1>1, <1>2 DEF dut_step_clk
  <2> QED BY <1>1, <1>2, <2>1 DEF TimeInv
<1>3. CASE f_clk = FALSE
  <2>1. f_clk' = TRUE /\ edges' = edges + 1
    BY <1>1, <1>3 DEF dut_step_clk, posedge_gclk
  <2> QED BY <1>1, <1>3, <2>1 DEF TimeInv
<1> QED BY <1>2, <1>3 DEF TimeInv

(* Every step keeps the relation of the time, the clock and the phase.     *)
LEMMA TimeNext ==
    ASSUME BenchInv, TimeInv, [Next]_vars
    PROVE  TimeInv'
<1>0. sim \in Runs /\ None # 1
  BY RunAssumption DEF BenchInv
<1>1. CASE process_arguments
  <2>1. /\ phase = "arguments" /\ UNCHANGED <<edges, f_clk, resets, sim_time>>
        /\ exit' = parsed(sim).exit /\ phase' = IF exit' = None THEN "build" ELSE "exit"
    BY <1>1 DEF process_arguments, history
  <2>2. exit' # 1
    BY <1>0, <2>1, ParsedType DEF Options, Aborted
  <2> QED BY <2>1, <2>2 DEF TimeInv, TimeoutIsHalfCycles
<1>2. CASE build
  <2>1. /\ phase = "build" /\ phase' = "run" /\ resets' = 5
        /\ UNCHANGED <<edges, f_clk, sim_time, exit>>
    BY <1>2 DEF build
  <2> QED BY <1>0, <2>1 DEF TimeInv, TimeoutIsHalfCycles
<1>3. CASE reset_step
  <2>1. /\ phase = "run" /\ resets # 0 /\ resets' = resets - 1 /\ dut_step_clk
        /\ UNCHANGED <<phase, exit>>
    BY <1>3 DEF reset_step
  <2>2. resets' \in 0 .. 5 /\ exit' # 1
    BY <1>0, <2>1 DEF TimeInv
  <2> QED BY <2>1, <2>2, TimeStep DEF TimeInv, TimeoutIsHalfCycles
<1>4. CASE run_step
  <2>1. /\ phase = "run" /\ resets = 0 /\ sim_time < opts.max_sim_time /\ dut_step_clk
        /\ UNCHANGED <<phase, exit, resets, opts>>
    BY <1>4, HalfCycle DEF run_step, running
  <2>2. exit' # 1 /\ opts.max_sim_time \in Nat
    BY <1>0, <2>1, ParsedType DEF TimeInv, BenchInv, Options
  <2>3. sim_time' > 50 /\ sim_time' < opts.max_sim_time + 10
    BY <2>1, <2>2, TimeStep DEF TimeInv
  <2> QED BY <2>1, <2>2, <2>3, TimeStep DEF TimeInv, TimeoutIsHalfCycles
<1>5. CASE finish
  <2>1. /\ phase = "run" /\ resets = 0 /\ phase' = "exit"
        /\ UNCHANGED <<sim, edges, f_clk, resets, sim_time, opts>>
        /\ opts = parsed(sim) /\ opts.exit = None /\ opts' = opts
    BY <1>5 DEF finish, history, BenchInv
  <2>2. PICK n \in TimeLimit(sim) : n \in Nat /\ opts.max_sim_time = 10 * n
    BY <1>0, <2>1, ParsedType
  <2>3. exit' = 1 => sim_time >= opts.max_sim_time
    BY <1>5, Finish, <2>1 DEF BenchInv, VerdictSound
  <2>4. ASSUME exit' = 1
        PROVE  2 * edges \in IF n < 5 THEN {5, 6} ELSE {n, n + 1}
    <3>1. sim_time >= 10 * n /\ (sim_time = 50 \/ (sim_time > 50 /\ sim_time < 10 * n + 10))
      BY <2>1, <2>2, <2>3, <2>4 DEF TimeInv
    <3>2. CASE f_clk = TRUE
      BY <3>1, <3>2, <2>2 DEF TimeInv
    <3>3. CASE f_clk = FALSE
      BY <3>1, <3>3, <2>2 DEF TimeInv
    <3> QED BY <3>2, <3>3 DEF TimeInv
  <2>5. TimeoutIsHalfCycles'
    <3>1. TimeLimit(sim)' = TimeLimit(sim)
      BY <2>1
    <3> QED BY <2>1, <2>2, <2>4, <3>1 DEF TimeoutIsHalfCycles
  <2> QED BY <2>1, <2>5 DEF TimeInv
<1>6. CASE UNCHANGED vars
  BY <1>6 DEF vars, benchVars, history, TimeInv, TimeoutIsHalfCycles
<1> QED BY <1>1, <1>2, <1>3, <1>4, <1>5, <1>6 DEF Next, exited

(* A timeout means that the design had the time that the command line      *)
(* gives it: the half cycles of the last TIMEOUT, 1000 without one, and    *)
(* never fewer than the five of the reset (main.cpp:66-72,299-325,         *)
(* testbench.cpp:38-70, dut_wrapper.cpp:82-113).                           *)
THEOREM BenchTimeout == Spec => []TimeoutIsHalfCycles
<1>1. Init => BenchInv /\ TimeInv
  BY BenchInit, TimeInit
<1>2. BenchInv /\ TimeInv /\ [Next]_vars => (BenchInv /\ TimeInv)'
  BY BenchNext, TimeNext
<1>3. TimeInv => TimeoutIsHalfCycles
  BY DEF TimeInv
<1> QED BY <1>1, <1>2, <1>3, PTL DEF Spec

-----------------------------------------------------------------------------
Benches == {"core", "ccx"}

(* What the devices of a bench can hold. *)
RamOf(b)     == bench_ram(b).base .. get_top(bench_ram(b)) - 1
DevStates(b) == [ram : [RamOf(b) -> Byte], tx_buffer : Seq(Byte), console : Seq(Byte)]

(* The facts about the two devices that the proofs need. *)
LEMMA TwoDevices ==
    ASSUME NEW b \in Benches
    PROVE  LET ram == bench_ram(b)
               uart == bench_uart(b)
           IN  /\ ram.kind = "ram" /\ uart.kind = "uart" /\ uart.range = 8
               /\ ram.base \in Nat /\ ram.range \in Nat /\ uart.base \in Nat
               /\ ram.base % 8 = 0 /\ ram.range % 8 = 0 /\ uart.base % 8 = 0
               /\ ram.base + ram.range < uart.base \/ uart.base + 8 < ram.base
               /\ ram # None /\ uart # None
<1>1. bench_ram(b).kind = "ram" /\ bench_uart(b).kind = "uart" /\ bench_uart(b).range = 8
  BY DEF bench_ram, bench_uart, ram_device, uart_device
<1> QED BY <1>1, DeviceAssumption DEF Benches, get_top, Size

(* No device clashes with the other, so both are on the bus. *)
LEMMA BuiltDevices ==
    ASSUME NEW b \in Benches
    PROVE  /\ built(b) = bench_devices(b)
           /\ DOMAIN built(b) = {1, 2}
           /\ \/ built(b)[1] = bench_ram(b) /\ built(b)[2] = bench_uart(b)
              \/ built(b)[1] = bench_uart(b) /\ built(b)[2] = bench_ram(b)
<1>1. PICK d, e : /\ bench_devices(b) = <<d, e>>
                  /\ \/ d = bench_ram(b) /\ e = bench_uart(b)
                     \/ d = bench_uart(b) /\ e = bench_ram(b)
  BY DEF bench_devices
<1>2. ~(d.base <= e.base /\ e.base <= get_top(d)) /\ ~(d.base <= get_top(e) /\ get_top(e) <= get_top(d))
  BY <1>1, TwoDevices DEF get_top
<1>3. add_device(<<>>, d) = <<d>>
  BY DEF add_device
<1>4. add_device(<<d>>, e) = <<d, e>>
  <2>1. DOMAIN <<d>> = {1} /\ <<d>>[1] = d
    OBVIOUS
  <2>3. Append(<<d>>, e) = <<d, e>>
    <3> DEFINE D == {d, e}
    <3>1. <<d>> \in Seq(D) /\ <<d, e>> \in Seq(D) /\ Len(<<d>>) = 1 /\ Len(<<d, e>>) = 2
      OBVIOUS
    <3>2. /\ Append(<<d>>, e) \in Seq(D) /\ Len(Append(<<d>>, e)) = 2
          /\ Append(<<d>>, e)[1] = d /\ Append(<<d>>, e)[2] = e
      BY <3>1, AppendProperties
    <3>3. <<d, e>>[1] = d /\ <<d, e>>[2] = e
      OBVIOUS
    <3>4. \A i \in 1 .. Len(<<d, e>>) : <<d, e>>[i] = Append(<<d>>, e)[i]
      <4>1. 1 .. Len(<<d, e>>) = {1, 2}
        BY <3>1
      <4> QED BY <3>2, <3>3, <4>1, Zenon
    <3> HIDE DEF D
    <3> QED BY <3>1, <3>2, <3>4, SeqEqual, Zenon
  <2>2. ~ \E i \in DOMAIN <<d>> : \/ <<d>>[i].base <= e.base /\ e.base <= get_top(<<d>>[i])
                                  \/ <<d>>[i].base <= get_top(e) /\ get_top(e) <= get_top(<<d>>[i])
    BY <1>2, <2>1, Zenon
  <2> QED BY <2>2, <2>3, Zenon DEF add_device
<1>5. built(b) = <<d, e>>
  BY <1>1, <1>3, <1>4 DEF built
<1> QED BY <1>1, <1>5

(* The bus finds the device of an address. *)
LEMMA GetDevice ==
    ASSUME NEW b \in Benches, NEW a \in Nat
    PROVE  get_device_at(built(b), a) =
               IF a \in RamOf(b) THEN bench_ram(b)
               ELSE IF a \in bench_uart(b).base .. bench_uart(b).base + 7 THEN bench_uart(b)
               ELSE None
<1> DEFINE devs == built(b)
           at == {i \in DOMAIN devs : in_range(devs[i], a)}
<1>1. DOMAIN devs = {1, 2}
  BY BuiltDevices
<1>2. in_range(bench_ram(b), a) <=> a \in RamOf(b)
  BY TwoDevices DEF in_range, get_top, RamOf
<1>3. in_range(bench_uart(b), a) <=> a \in bench_uart(b).base .. bench_uart(b).base + 7
  BY TwoDevices DEF in_range, get_top
<1>4. ~(in_range(bench_uart(b), a) /\ in_range(bench_ram(b), a))
  BY TwoDevices DEF in_range, get_top
<1>5. Min({1}) = 1 /\ Min({2}) = 2
  BY DEF Min
<1>6. get_device_at(devs, a) = IF at = {} THEN None ELSE devs[Min(at)]
  BY DEF get_device_at
<1>7. CASE in_range(bench_ram(b), a)
  <2>1. PICK i \in {1, 2} : devs[i] = bench_ram(b) /\ at = {i}
    BY <1>1, <1>4, <1>7, BuiltDevices
  <2> QED BY <1>2, <1>5, <1>6, <1>7, <2>1
<1>8. CASE in_range(bench_uart(b), a)
  <2>1. PICK i \in {1, 2} : devs[i] = bench_uart(b) /\ at = {i}
    BY <1>1, <1>4, <1>8, BuiltDevices
  <2> QED BY <1>2, <1>3, <1>4, <1>5, <1>6, <1>8, <2>1
<1>9. CASE ~in_range(bench_ram(b), a) /\ ~in_range(bench_uart(b), a)
  <2>1. at = {}
    BY <1>1, <1>9, BuiltDevices
  <2> QED BY <1>2, <1>3, <1>6, <1>9, <2>1
<1> QED BY <1>7, <1>8, <1>9

(* An aligned word lies in a device or outside it. *)
LEMMA AlignedInRange ==
    ASSUME NEW b \in Benches, NEW a \in Nat, a % 8 = 0
    PROVE  /\ a \in RamOf(b) => \A l \in Lanes : a + l \in RamOf(b)
           /\ a \notin RamOf(b) => \A l \in Lanes : a + l \notin RamOf(b)
           /\ a \in RamOf(b) => in_range_of_size(bench_ram(b), a, 8)
           /\ a \in bench_uart(b).base .. bench_uart(b).base + 7 <=> a = bench_uart(b).base
           /\ in_range_of_size(bench_uart(b), bench_uart(b).base, 8)
           /\ bench_uart(b).base \notin RamOf(b)
<1> DEFINE ram == bench_ram(b)
           uart == bench_uart(b)
<1>1. PICK k \in Nat : a = 8 * k
  <2>1. a \div 8 \in Nat /\ a = 8 * (a \div 8)
    OBVIOUS
  <2> QED BY <2>1
<1>2. PICK m \in Nat : ram.base = 8 * m
  <2>1. ram.base \div 8 \in Nat /\ ram.base = 8 * (ram.base \div 8)
    BY TwoDevices
  <2> QED BY <2>1
<1>3. PICK n \in Nat : ram.range = 8 * n
  <2>1. ram.range \div 8 \in Nat /\ ram.range = 8 * (ram.range \div 8)
    BY TwoDevices
  <2> QED BY <2>1
<1>4. PICK u \in Nat : uart.base = 8 * u
  <2>1. uart.base \div 8 \in Nat /\ uart.base = 8 * (uart.base \div 8)
    BY TwoDevices
  <2> QED BY <2>1
<1>5. RamOf(b) = 8 * m .. 8 * m + 8 * n - 1
  BY <1>2, <1>3 DEF RamOf, get_top
<1>6. a \in RamOf(b) => \A l \in Lanes : a + l \in RamOf(b)
  BY <1>1, <1>5 DEF Lanes, Size
<1>7. a \notin RamOf(b) => \A l \in Lanes : a + l \notin RamOf(b)
  BY <1>1, <1>5 DEF Lanes, Size
<1>8. a \in RamOf(b) => in_range_of_size(ram, a, 8)
  BY <1>1, <1>2, <1>3, <1>5 DEF in_range_of_size, get_top
<1>9. a \in uart.base .. uart.base + 7 <=> a = uart.base
  BY <1>1, <1>4
<1>10. in_range_of_size(uart, uart.base, 8)
  BY TwoDevices DEF in_range_of_size, get_top
<1>11. uart.base \notin RamOf(b)
  BY TwoDevices DEF RamOf, get_top
<1> QED BY <1>6, <1>7, <1>8, <1>9, <1>10, <1>11

(* The last element of a concatenation. *)
LEMMA LastOfConcat ==
    ASSUME NEW S, NEW s \in Seq(S), NEW t \in Seq(S), Len(t) \in Nat \ {0}
    PROVE  (s \o t)[Len(s \o t)] = t[Len(t)]
<1>1. Len(s) \in Nat /\ Len(s \o t) = Len(s) + Len(t)
  BY ConcatProperties, LenProperties
<1>2. Len(s) + Len(t) \in 1 .. Len(s) + Len(t) /\ ~(Len(s) + Len(t) <= Len(s))
      /\ (Len(s) + Len(t)) - Len(s) = Len(t)
  BY <1>1
<1>3. (s \o t)[Len(s) + Len(t)] = t[(Len(s) + Len(t)) - Len(s)]
  BY <1>2, ConcatProperties
<1> QED BY <1>1, <1>2, <1>3

(* The console and the line that is not printed yet, as they should be. *)
LinesIntact(s) ==
    /\ NewLine \notin ToSet(s.tx_buffer)
    /\ s.console # <<>> => Last(s.console) = NewLine

(* A character written to the UART comes behind all the others. *)
LEMMA WriteTx ==
    ASSUME NEW b \in Benches, NEW s \in DevStates(b), NEW c \in Byte
    PROVE  /\ write_to_tx_buffer(s, c) \in DevStates(b)
           /\ write_to_tx_buffer(s, c).ram = s.ram
           /\ LET t == write_to_tx_buffer(s, c)
              IN  /\ t.console \o t.tx_buffer = (s.console \o s.tx_buffer) \o <<c>>
                  /\ LinesIntact(s) => LinesIntact(t)
<1> DEFINE t == write_to_tx_buffer(s, c)
           x == s.tx_buffer
<1>0. /\ s.ram \in [RamOf(b) -> Byte] /\ x \in Seq(Byte) /\ s.console \in Seq(Byte)
      /\ s = [ram |-> s.ram, tx_buffer |-> x, console |-> s.console]
  BY DEF DevStates
<1>1. /\ Append(x, c) = x \o <<c>> /\ <<c>> \in Seq(Byte) /\ x \o <<c>> \in Seq(Byte)
      /\ Len(x \o <<c>>) = Len(x) + 1 /\ Len(x) \in Nat
      /\ \A i \in 1 .. Len(x) : (x \o <<c>>)[i] = x[i]
      /\ (x \o <<c>>)[Len(x) + 1] = c
  <2>1. <<c>> \in Seq(Byte) /\ Len(<<c>>) = 1 /\ <<c>>[1] = c
    OBVIOUS
  <2>2. Append(x, c) = x \o <<c>>
    BY <1>0, AppendIsConcat
  <2>3. Append(x, c) \in Seq(Byte)
    BY <1>0, AppendProperties
  <2> QED BY <1>0, <2>1, <2>2, <2>3, AppendProperties, LenProperties
<1>2. s.console \o (x \o <<c>>) = (s.console \o x) \o <<c>>
  BY <1>0, <1>1, ConcatAssociative
<1>3. CASE c = NewLine
  <2>1. t = [ram |-> s.ram, tx_buffer |-> <<>>, console |-> s.console \o (x \o <<c>>)]
    BY <1>0, <1>1, <1>3 DEF write_to_tx_buffer
  <2>2. s.console \o (x \o <<c>>) \in Seq(Byte) /\ <<>> \in Seq(Byte)
    BY <1>0, <1>1, ConcatProperties
  <2>5. t.console = s.console \o (x \o <<c>>) /\ t.tx_buffer = <<>>
    <3> DEFINE y == s.console \o (x \o <<c>>)
    <3> HIDE DEF y, t, x
    <3>1. t = [ram |-> s.ram, tx_buffer |-> <<>>, console |-> y]
      BY <2>1 DEF y
    <3>2. t.console = y /\ t.tx_buffer = <<>>
      BY <3>1
    <3> QED BY <3>2 DEF y
  <2>3. t.console \o t.tx_buffer = s.console \o (x \o <<c>>)
    <3>1. (s.console \o (x \o <<c>>)) \o <<>> = s.console \o (x \o <<c>>)
      BY <2>2, ConcatEmptySeq
    <3> QED BY <2>5, <3>1
  <2>4. LinesIntact(t)
    <3>1. t.console[Len(t.console)] = c
      BY <1>0, <1>1, <2>5, LastOfConcat
    <3>2. NewLine \notin ToSet(t.tx_buffer)
      BY <2>1 DEF ToSet
    <3> QED BY <1>3, <3>1, <3>2 DEF LinesIntact, Last
  <2> QED BY <1>0, <1>2, <2>1, <2>2, <2>3, <2>4 DEF DevStates
<1>4. CASE c # NewLine
  <2>1. t = [ram |-> s.ram, tx_buffer |-> x \o <<c>>, console |-> s.console]
    BY <1>0, <1>1, <1>4 DEF write_to_tx_buffer
  <2>2. ASSUME LinesIntact(s)
        PROVE  LinesIntact(t)
    <3>1. NewLine \notin ToSet(x \o <<c>>)
      BY <1>0, <1>1, <1>4, <2>2 DEF LinesIntact, ToSet
    <3> QED BY <2>1, <2>2, <3>1 DEF LinesIntact
  <2> QED BY <1>0, <1>1, <1>2, <2>1, <2>2 DEF DevStates
<1> QED BY <1>3, <1>4

(* A byte written to a device.                                             *)
LEMMA WriteByte ==
    ASSUME NEW b \in Benches, NEW s \in DevStates(b), NEW a \in Nat, NEW c \in Byte
    PROVE  /\ a \in RamOf(b) =>
                /\ write_byte(s, bench_ram(b), a, c) = [s EXCEPT !.ram[a] = c]
                /\ write_byte(s, bench_ram(b), a, c) \in DevStates(b)
           /\ write_byte(s, bench_uart(b), a, c) =
                IF a = bench_uart(b).base THEN write_to_tx_buffer(s, c) ELSE s
           /\ write_byte(s, bench_uart(b), a, c) \in DevStates(b)
<1>1. ASSUME a \in RamOf(b)
      PROVE  write_byte(s, bench_ram(b), a, c) = [s EXCEPT !.ram[a] = c]
  <2>1. in_range_of_size(bench_ram(b), a, 0)
    BY <1>1, TwoDevices DEF in_range_of_size, RamOf, get_top
  <2> QED BY <2>1, TwoDevices DEF write_byte, ram_write_byte
<1>2. a \in RamOf(b) => [s EXCEPT !.ram[a] = c] \in DevStates(b)
  BY DEF DevStates
<1>3. write_byte(s, bench_uart(b), a, c) =
                IF a = bench_uart(b).base THEN write_to_tx_buffer(s, c) ELSE s
  <2>1. bench_uart(b).base % 4 = 0
    BY TwoDevices
  <2> QED BY <2>1, TwoDevices DEF write_byte, uart_write_byte, addr_tx
<1> QED BY <1>1, <1>2, <1>3, WriteTx

(* The loop over the bytes of a write does what it says. *)
LEMMA WriteSteps ==
    ASSUME NEW b \in Benches, NEW s \in DevStates(b), NEW d, NEW a \in Nat, NEW w \in Wdata,
           \A t \in DevStates(b), l \in Lanes : write_byte(t, d, a + l, w.data[l]) \in DevStates(b)
    PROVE  /\ write_upto(s, d, a, w)[0] = s
           /\ \A k \in 1 .. 8 :
                write_upto(s, d, a, w)[k] =
                    IF k - 1 \in w.strb
                    THEN write_byte(write_upto(s, d, a, w)[k - 1], d, a + k - 1, w.data[k - 1])
                    ELSE write_upto(s, d, a, w)[k - 1]
           /\ write_range(s, d, a, w) = write_upto(s, d, a, w)[8]
<1> DEFINE N == 8
           V == DevStates(b)
           Step(k, t) == IF k - 1 \in w.strb
                         THEN write_byte(t, d, a + k - 1, w.data[k - 1]) ELSE t
           step == [k \in 1 .. N |-> [t \in V |-> Step(k, t)]]
           Rec(f) == f = [k \in 0 .. N |-> IF k = 0 THEN s
                                           ELSE IF k - 1 \in w.strb
                                           THEN write_byte(f[k - 1], d, a + k - 1, w.data[k - 1])
                                           ELSE f[k - 1]]
<1>2. \A k \in 1 .. N, t \in V : Step(k, t) \in V
  <2>1. \A k \in 1 .. N : k - 1 \in Lanes /\ a + (k - 1) = a + k - 1
    BY DEF Lanes, Size
  <2> TAKE k \in 1 .. N, t \in V
  <2>2. write_byte(t, d, a + (k - 1), w.data[k - 1]) \in V
    BY <2>1
  <2> HIDE DEF V
  <2> QED BY <2>1, <2>2
<1> HIDE DEF V, Step
<1>1. step \in [1 .. N -> [V -> V]] /\ s \in V
  BY <1>2 DEF V
<1> HIDE DEF step
<1>3. PICK g \in [0 .. N -> V] : GoesOn(g, N, s, step)
  BY <1>1, RecursionExists
<1>4. Rec(g)
  <2>1. \A k \in 0 .. N : g[k] = IF k = 0 THEN s ELSE Step(k, g[k - 1])
    <3>1. \A k \in 1 .. N : k - 1 \in 0 .. N /\ g[k - 1] \in V
      BY <1>3
    <3>2. \A k \in 1 .. N : g[k] = Step(k, g[k - 1])
      BY <1>3, <3>1 DEF GoesOn, step
    <3> QED BY <1>3, <3>2 DEF GoesOn
  <2> QED BY <2>1 DEF Step
<1>5. write_upto(s, d, a, w) = CHOOSE f : Rec(f)
  BY DEF write_upto, Size
<1>6. Rec(write_upto(s, d, a, w))
  BY <1>4, <1>5, Zenon
<1> QED BY <1>6 DEF write_range, Size

(* A write to RAM changes the bytes that are strobed. *)
Stored(b, s, a, w) ==
    [s EXCEPT !.ram = [x \in RamOf(b) |-> IF x - a \in w.strb THEN w.data[x - a] ELSE s.ram[x]]]

(* A word written to the memory, byte by byte, is the bytes that its       *)
(* strobes select.                                                         *)
LEMMA WriteRam ==
    ASSUME NEW b \in Benches, NEW s \in DevStates(b), NEW a \in RamOf(b), NEW w \in Wdata,
           a % 8 = 0
    PROVE  /\ write_range(s, bench_ram(b), a, w) = Stored(b, s, a, w)
           /\ Stored(b, s, a, w) \in DevStates(b)
<1> DEFINE d == bench_ram(b)
           u == write_upto(s, d, a, w)
           Bytes(k) == [x \in RamOf(b) |-> IF x - a \in w.strb /\ x - a < k THEN w.data[x - a]
                                           ELSE s.ram[x]]
           Mix(k) == [s EXCEPT !.ram = Bytes(k)]
           S == {k \in 0 .. 8 : u[k] = Mix(k)}
<1>0. /\ a \in Nat /\ RamOf(b) \subseteq Nat /\ w.strb \subseteq Lanes
      /\ \A l \in Lanes : w.data[l] \in Byte /\ a + l \in RamOf(b)
      /\ s.ram \in [RamOf(b) -> Byte]
      /\ s = [ram |-> s.ram, tx_buffer |-> s.tx_buffer, console |-> s.console]
      /\ s.tx_buffer \in Seq(Byte) /\ s.console \in Seq(Byte)
  <2>1. a \in Nat /\ RamOf(b) \subseteq Nat
    BY TwoDevices DEF RamOf, get_top
  <2> QED BY <2>1, AlignedInRange DEF Wdata, DevStates
<1> HIDE DEF u, Bytes, Mix, S
<1>8. a \in Nat /\ RamOf(b) \subseteq Nat /\ w.strb \subseteq 0 .. 7
  <2>1. Lanes = 0 .. 7
    BY DEF Lanes, Size
  <2> QED BY <1>0, <2>1, Zenon
<1>1. \A t \in DevStates(b), l \in Lanes :
            /\ write_byte(t, d, a + l, w.data[l]) = [t EXCEPT !.ram[a + l] = w.data[l]]
            /\ write_byte(t, d, a + l, w.data[l]) \in DevStates(b)
  BY <1>0, WriteByte
<1>2. /\ u[0] = s
      /\ \A k \in 1 .. 8 : u[k] = IF k - 1 \in w.strb
                                  THEN write_byte(u[k - 1], d, a + k - 1, w.data[k - 1])
                                  ELSE u[k - 1]
      /\ write_range(s, d, a, w) = u[8]
  <2>1. \A t \in DevStates(b), l \in Lanes : write_byte(t, d, a + l, w.data[l]) \in DevStates(b)
    BY <1>1
  <2> HIDE DEF d
  <2> DEFINE v == write_upto(s, d, a, w)
  <2>2. a \in Nat
    BY <1>8
  <2>3. /\ v[0] = s
        /\ \A k \in 1 .. 8 : v[k] = IF k - 1 \in w.strb
                                    THEN write_byte(v[k - 1], d, a + k - 1, w.data[k - 1])
                                    ELSE v[k - 1]
        /\ write_range(s, d, a, w) = v[8]
    BY <2>1, <2>2, WriteSteps
  <2> QED BY <2>3, Zenon DEF u
<1>3. ASSUME NEW k \in 0 .. 8
      PROVE  /\ Bytes(k) \in [RamOf(b) -> Byte]
             /\ Mix(k) = [ram |-> Bytes(k), tx_buffer |-> s.tx_buffer, console |-> s.console]
             /\ Mix(k) \in DevStates(b)
  <2>1. Bytes(k) \in [RamOf(b) -> Byte]
    BY <1>0 DEF Bytes
  <2>2. Mix(k) = [ram |-> Bytes(k), tx_buffer |-> s.tx_buffer, console |-> s.console]
    BY <1>0 DEF Mix
  <2> QED BY <1>0, <2>1, <2>2 DEF DevStates
<1>4. 0 \in S
  <2>1. \A x \in RamOf(b) : x - a \in w.strb => ~(x - a < 0)
    BY <1>0 DEF Lanes
  <2>2. Bytes(0) = s.ram
    BY <1>0, <2>1 DEF Bytes
  <2> QED BY <1>0, <1>2, <1>3, <2>2 DEF S
<1>5. ASSUME NEW n \in 0 .. 7, n \in S
      PROVE  n + 1 \in S
  <2>1. n \in Lanes /\ n + 1 \in 1 .. 8 /\ (n + 1) - 1 = n /\ a + (n + 1) - 1 = a + n
    BY <1>8 DEF Lanes, Size
  <2>2. u[n] = Mix(n)
    BY <1>5 DEF S
  <2>3. /\ Mix(n + 1) = [ram |-> Bytes(n + 1), tx_buffer |-> s.tx_buffer, console |-> s.console]
        /\ Mix(n) = [ram |-> Bytes(n), tx_buffer |-> s.tx_buffer, console |-> s.console]
        /\ Bytes(n) \in [RamOf(b) -> Byte] /\ Mix(n) \in DevStates(b)
    BY <1>3, <2>1
  <2>4. \A x \in RamOf(b) : (x - a < n + 1 <=> x - a < n \/ x - a = n) /\ (x - a = n <=> x = a + n)
    <3>1. \A x, y \in Nat : (x - y < n + 1 <=> x - y < n \/ x - y = n) /\ (x - y = n <=> x = y + n)
      OBVIOUS
    <3> QED BY <1>8, <3>1
  <2>5. CASE n \in w.strb
    <3>1. u[n + 1] = [Mix(n) EXCEPT !.ram[a + n] = w.data[n]]
      <4>1. u[n + 1] = write_byte(Mix(n), d, a + n, w.data[n])
        BY <1>2, <2>1, <2>2, <2>5
      <4> QED BY <1>1, <2>1, <2>3, <4>1
    <3>2. [Bytes(n) EXCEPT ![a + n] = w.data[n]] = Bytes(n + 1)
      BY <1>0, <2>1, <2>4, <2>5 DEF Bytes
    <3>3. [Mix(n) EXCEPT !.ram[a + n] = w.data[n]] = Mix(n + 1)
      <4>1. [Mix(n) EXCEPT !.ram[a + n] = w.data[n]] =
                [ram |-> [Bytes(n) EXCEPT ![a + n] = w.data[n]],
                 tx_buffer |-> s.tx_buffer, console |-> s.console]
        BY <2>3
      <4> QED BY <2>3, <3>2, <4>1
    <3> QED BY <2>1, <3>1, <3>3 DEF S
  <2>6. CASE n \notin w.strb
    <3>1. u[n + 1] = Mix(n)
      BY <1>2, <2>1, <2>2, <2>6
    <3>2. Bytes(n) = Bytes(n + 1)
      BY <1>0, <2>1, <2>4, <2>6 DEF Bytes
    <3> QED BY <2>1, <2>3, <3>1, <3>2 DEF S
  <2> QED BY <2>5, <2>6
<1>6. u[8] = Mix(8)
  <2>1. \A n \in 0 .. 8 : n \in S
    BY <1>4, <1>5, BoundedInduction
  <2> QED BY <2>1 DEF S
<1>7. Mix(8) = Stored(b, s, a, w)
  <2>1. \A x \in RamOf(b) : x - a \in w.strb => x - a < 8
    BY <1>8
  <2>2. Bytes(8) = [x \in RamOf(b) |-> IF x - a \in w.strb THEN w.data[x - a] ELSE s.ram[x]]
    BY <2>1 DEF Bytes
  <2> QED BY <2>2 DEF Stored, Mix
<1> QED BY <1>2, <1>3, <1>6, <1>7

(* A write to the UART sends the byte of its first lane. *)
LEMMA WriteUart ==
    ASSUME NEW b \in Benches, NEW s \in DevStates(b), NEW w \in Wdata
    PROVE  write_range(s, bench_uart(b), bench_uart(b).base, w) =
                IF 0 \in w.strb THEN write_to_tx_buffer(s, w.data[0]) ELSE s
<1> DEFINE d == bench_uart(b)
           a == d.base
           u == write_upto(s, d, a, w)
           T == IF 0 \in w.strb THEN write_to_tx_buffer(s, w.data[0]) ELSE s
           S == {k \in 0 .. 7 : u[k + 1] = T}
<1> HIDE DEF u, T, S
<1>0. a \in Nat /\ \A l \in Lanes : w.data[l] \in Byte /\ a + l \in Nat /\ (a + l = a <=> l = 0)
  <2>1. a \in Nat /\ \A l \in Lanes : w.data[l] \in Byte
    BY TwoDevices DEF Wdata
  <2> HIDE DEF a
  <2>2. \A l \in Lanes : a + l \in Nat /\ (a + l = a <=> l = 0)
    BY <2>1 DEF Lanes, Size
  <2> QED BY <2>1, <2>2
<1>1. \A t \in DevStates(b), l \in Lanes :
            /\ write_byte(t, d, a + l, w.data[l]) =
                    IF l = 0 THEN write_to_tx_buffer(t, w.data[l]) ELSE t
            /\ write_byte(t, d, a + l, w.data[l]) \in DevStates(b)
  BY <1>0, WriteByte
<1>2. /\ u[0] = s
      /\ \A k \in 1 .. 8 : u[k] = IF k - 1 \in w.strb
                                  THEN write_byte(u[k - 1], d, a + k - 1, w.data[k - 1])
                                  ELSE u[k - 1]
      /\ write_range(s, d, a, w) = u[8]
  BY <1>0, <1>1, WriteSteps DEF u
<1>3. T \in DevStates(b)
  <2>1. w.data[0] \in Byte
    BY <1>0 DEF Lanes, Size
  <2>2. write_to_tx_buffer(s, w.data[0]) \in DevStates(b)
    BY <2>1, WriteTx
  <2> QED BY <2>2 DEF T
<1>4. 0 \in S
  <2>1. u[1] = IF 0 \in w.strb THEN write_byte(s, d, a + 0, w.data[0]) ELSE s
    BY <1>0, <1>2
  <2>2. 0 \in Lanes
    BY DEF Lanes, Size
  <2> QED BY <1>1, <2>1, <2>2 DEF T, S
<1>5. ASSUME NEW n \in 0 .. 6, n \in S
      PROVE  n + 1 \in S
  <2>1. /\ n + 1 \in Lanes /\ n + 2 \in 1 .. 8 /\ u[n + 1] = T /\ (n + 2) - 1 = n + 1 /\ n + 1 # 0
        /\ a + (n + 2) - 1 = a + (n + 1)
    BY <1>0, <1>5 DEF Lanes, Size, S
  <2>2. u[n + 2] = IF n + 1 \in w.strb THEN write_byte(T, d, a + (n + 1), w.data[n + 1]) ELSE T
    BY <1>2, <2>1
  <2>3. u[n + 2] = T
    BY <1>1, <1>3, <2>1, <2>2
  <2> QED BY <2>3 DEF S
<1>6. u[8] = T
  <2>1. \A n \in 0 .. 7 : n \in S
    BY <1>4, <1>5, BoundedInduction
  <2> QED BY <2>1 DEF S
<1> QED BY <1>2, <1>6 DEF T

-----------------------------------------------------------------------------
(* A request of the core. *)
Asks == [adr : {a \in Nat : a % 8 = 0}, wen : {FALSE}, val : {None}]
            \cup [adr : {a \in Nat : a % 8 = 0}, wen : {TRUE}, val : Wdata]

Mapped(b, a) == a \in RamOf(b) \/ a = bench_uart(b).base

(* The word at an address. *)
WordOf(ram, a) == [l \in Lanes |-> IF a + l \in DOMAIN ram THEN ram[a + l] ELSE 0]

(* What a transaction on the bus does. *)
Done(b, s, q) ==
    IF ~q.wen THEN s
    ELSE IF q.adr \in RamOf(b) THEN Stored(b, s, q.adr, q.val)
    ELSE IF q.adr = bench_uart(b).base /\ 0 \in q.val.strb THEN write_to_tx_buffer(s, q.val.data[0])
    ELSE s

(* What the bus answers, and what it leaves behind.                        *)
LEMMA BusRequest ==
    ASSUME NEW b \in Benches, NEW s \in DevStates(b), NEW q \in Asks
    PROVE  LET r == bus_request(built(b), s, q)
           IN  /\ r.err = ~Mapped(b, q.adr)
               /\ r.dev = Done(b, s, q) /\ r.dev \in DevStates(b)
               /\ r.data \in [Lanes -> Byte]
               /\ ~q.wen /\ Mapped(b, q.adr) => r.data = WordOf(s.ram, q.adr)
<1> DEFINE r == bus_request(built(b), s, q)
           a == q.adr
           d == get_device_at(built(b), a)
           uart == bench_uart(b)
<1> SUFFICES /\ r.err = ~Mapped(b, a)
             /\ r.dev = Done(b, s, q) /\ r.dev \in DevStates(b)
             /\ r.data \in [Lanes -> Byte]
             /\ ~q.wen /\ Mapped(b, a) => r.data = WordOf(s.ram, a)
  OBVIOUS
<1> HIDE DEF r, a, d, uart
<1>0. /\ a \in Nat /\ a % 8 = 0 /\ q.wen \in BOOLEAN /\ (q.wen => q.val \in Wdata)
      /\ s.ram \in [RamOf(b) -> Byte] /\ DOMAIN s.ram = RamOf(b)
      /\ Zeros \in [Lanes -> Byte]
  <2>1. a \in Nat /\ a % 8 = 0
    BY DEF Asks, a
  <2>2. q.wen \in BOOLEAN /\ (q.wen => q.val \in Wdata)
    BY DEF Asks
  <2>3. s.ram \in [RamOf(b) -> Byte] /\ DOMAIN s.ram = RamOf(b)
    BY DEF DevStates
  <2>4. Zeros \in [Lanes -> Byte]
    BY DEF Zeros, Byte
  <2> QED BY <2>1, <2>2, <2>3, <2>4
<1>1. d = IF a \in RamOf(b) THEN bench_ram(b) ELSE IF a = uart.base THEN uart ELSE None
  BY <1>0, GetDevice, AlignedInRange DEF d, uart
<1>2. CASE ~Mapped(b, a)
  <2>1. r = [dev |-> s, err |-> TRUE, data |-> Zeros]
    BY <1>1, <1>2 DEF bus_request, Mapped, r, d, a, uart
  <2> QED BY <1>0, <1>2, <2>1 DEF Done, Mapped, a, uart
<1>3. CASE a \in RamOf(b)
  <2>1. d = bench_ram(b) /\ d # None /\ in_range_of_size(d, a, 8) /\ d.kind = "ram"
    BY <1>0, <1>1, <1>3, AlignedInRange, TwoDevices
  <2>2. CASE q.wen
    <3>1. r = [dev |-> write_range(s, d, a, q.val), err |-> FALSE, data |-> Zeros]
      BY <2>1, <2>2 DEF bus_request, Size, r, d, a
    <3>2. write_range(s, d, a, q.val) = Stored(b, s, a, q.val) /\ Stored(b, s, a, q.val) \in DevStates(b)
      BY <1>0, <1>3, <2>1, <2>2, WriteRam
    <3> QED BY <1>0, <1>3, <2>2, <3>1, <3>2 DEF Done, Mapped, a, uart
  <2>3. CASE ~q.wen
    <3>1. r = [dev |-> s, err |-> FALSE, data |-> read_range(s, d, a)]
      BY <2>1, <2>3 DEF bus_request, Size, r, d, a
    <3>2. read_range(s, d, a) = WordOf(s.ram, a)
      BY <1>0, <1>3, <2>1, AlignedInRange DEF read_range, read_byte, ram_read_byte, WordOf
    <3>3. WordOf(s.ram, a) \in [Lanes -> Byte]
      BY <1>0 DEF WordOf, Byte
    <3> QED BY <1>0, <1>3, <2>3, <3>1, <3>2, <3>3 DEF Done, Mapped, a, uart
  <2> QED BY <1>0, <2>2, <2>3
<1>4. CASE a = uart.base
  <2>1. d = uart /\ d # None /\ in_range_of_size(d, a, 8) /\ d.kind = "uart" /\ a \notin RamOf(b)
    BY <1>0, <1>1, <1>4, AlignedInRange, TwoDevices DEF uart
  <2>2. CASE q.wen
    <3>1. r = [dev |-> write_range(s, d, a, q.val), err |-> FALSE, data |-> Zeros]
      BY <2>1, <2>2 DEF bus_request, Size, r, d, a
    <3>2. write_range(s, d, a, q.val) = Done(b, s, q)
      BY <1>0, <1>4, <2>1, <2>2, WriteUart DEF Done, a, uart
    <3>3. Done(b, s, q) \in DevStates(b)
      <4>1. 0 \in q.val.strb => q.val.data[0] \in Byte
        BY <1>0, <2>2 DEF Wdata
      <4> QED BY <2>1, <2>2, <4>1, WriteTx DEF Done, a
    <3> QED BY <1>0, <1>4, <2>2, <3>1, <3>2, <3>3 DEF Mapped, uart
  <2>3. CASE ~q.wen
    <3>1. r = [dev |-> s, err |-> FALSE, data |-> read_range(s, d, a)]
      BY <2>1, <2>3 DEF bus_request, Size, r, d, a
    <3>2. read_range(s, d, a) = Zeros
      BY <2>1 DEF read_range, read_byte, uart_read_byte, Zeros
    <3>3. WordOf(s.ram, a) = Zeros
      BY <1>0, <2>1, AlignedInRange DEF WordOf, Zeros
    <3> QED BY <1>0, <1>4, <2>3, <3>1, <3>2, <3>3 DEF Done, Mapped, a, uart
  <2> QED BY <1>0, <2>2, <2>3
<1> QED BY <1>2, <1>3, <1>4 DEF Mapped, uart

-----------------------------------------------------------------------------
(* What the SREC reader makes of a file: a map from addresses to bytes. *)
Maps == UNION {[D -> Byte] : D \in SUBSET Nat}

(* A byte is its two hexadecimal digits.                                   *)
LEMMA DivMod ==
    ASSUME NEW n \in 0 .. 255
    PROVE  n \div 16 \in Nat /\ n % 16 \in Nat /\ 16 * (n \div 16) + (n % 16) = n
OBVIOUS

(* A byte counter wraps, and keeps what fits.                              *)
LEMMA Wraps ==
    ASSUME NEW n \in Int
    PROVE  n % 256 \in Nat /\ (n \in 0 .. 255 => n % 256 = n)
OBVIOUS

(* A data record is a map of addresses to bytes.                           *)
LEMMA RecordIsMap ==
    ASSUME NEW r, r.count \in 0 .. 255, r.adr \in Nat, r.data \in Seq(Byte), r.sum \in Byte
    PROVE  record_data(r) \in Maps
<1> DEFINE I == IF r.type = 3 THEN 0 .. data_bytes(r) - 1 ELSE {}
           D == {r.adr + i : i \in I}
<1>1. data_bytes(r) \in Nat
  <2> DEFINE n == r.count
             h == n \div 16
             l == n % 16
  <2>1. h \in Nat /\ l \in Nat
    BY DivMod
  <2> HIDE DEF h, l
  <2>2. count_digit(h) \in Nat /\ count_digit(l) \in Nat
    BY <2>1 DEF count_digit
  <2>3. rec_size(r) - 5 \in Int
    BY <2>2 DEF rec_size, h, l
  <2> QED BY <2>3, Wraps DEF data_bytes
<1>2. I \subseteq Nat
  BY <1>1
<1> HIDE DEF I
<1>3. D \subseteq Nat /\ \A a \in D : a - r.adr \in Nat
  BY <1>2
<1>4. \A i \in Nat : line_byte(r, i) \in Byte
  <2>1. Len(r.data) \in Nat /\ \A k \in 1 .. Len(r.data) : r.data[k] \in Byte
    BY ElementOfSeq, LenProperties
  <2>2. Junk \in Byte
    BY JunkAssumption DEF Byte
  <2> QED BY <2>1, <2>2 DEF line_byte
<1>5. record_data(r) = [a \in D |-> line_byte(r, a - r.adr)]
  BY DEF record_data, I
<1> HIDE DEF D
<1>6. record_data(r) \in [D -> Byte]
  BY <1>3, <1>4, <1>5
<1> QED BY <1>3, <1>6 DEF Maps

(* Records add up to a map.                                                *)
LEMMA AddedIsMap ==
    ASSUME NEW d \in Maps, NEW r, record_data(r) \in Maps
    PROVE  added(d, r) \in Maps
<1>1. PICK D \in SUBSET Nat : d \in [D -> Byte]
  BY DEF Maps
<1>2. PICK E \in SUBSET Nat : record_data(r) \in [E -> Byte]
  BY DEF Maps
<1>3. added(d, r) \in [D \cup E -> Byte]
  BY <1>1, <1>2 DEF added
<1> QED BY <1>3 DEF Maps

(* The loop over the lines of a file does what it says. *)
LEMMA SrecSteps ==
    ASSUME NEW file, IsFile(file, Byte)
    PROVE  /\ srec_upto(file)[0] = <<>>
           /\ \A k \in 1 .. Len(file) :
                srec_upto(file)[k] = added(srec_upto(file)[k - 1], file[k])
           /\ \A k \in 0 .. Len(file) : srec_upto(file)[k] \in Maps
           /\ \A k \in 1 .. Len(file) : record_data(file[k]) \in Maps
<1> DEFINE N == Len(file)
           step == [k \in 1 .. N |-> [d \in Maps |-> added(d, file[k])]]
           Rec(f) == f = [k \in 0 .. N |-> IF k = 0 THEN <<>> ELSE added(f[k - 1], file[k])]
<1>1. N \in Nat /\ DOMAIN file = 1 .. N
  BY DEF IsFile
<1>2. \A k \in 1 .. N : record_data(file[k]) \in Maps
  BY <1>1, RecordIsMap DEF IsFile
<1>3. step \in [1 .. N -> [Maps -> Maps]]
  BY <1>2, AddedIsMap
<1>4. <<>> \in Maps
  <2>1. <<>> \in [{} -> Byte]
    OBVIOUS
  <2> QED BY <2>1 DEF Maps
<1> HIDE DEF step, N
<1>5. PICK g \in [0 .. N -> Maps] : GoesOn(g, N, <<>>, step)
  BY <1>1, <1>3, <1>4, RecursionExists
<1>6. Rec(g)
  <2>1. \A k \in 1 .. N : k - 1 \in 0 .. N /\ g[k - 1] \in Maps
    BY <1>1, <1>5
  <2>2. \A k \in 1 .. N : g[k] = added(g[k - 1], file[k])
    BY <1>5, <2>1 DEF GoesOn, step
  <2>3. \A k \in 0 .. N : g[k] = IF k = 0 THEN <<>> ELSE added(g[k - 1], file[k])
    BY <1>1, <1>5, <2>2 DEF GoesOn
  <2> QED BY <2>3
<1>7. srec_upto(file) = CHOOSE f : Rec(f)
  BY DEF srec_upto, N
<1>8. Rec(srec_upto(file))
  BY <1>6, <1>7, Zenon
<1>9. /\ srec_upto(file)[0] = <<>>
      /\ \A k \in 1 .. N : srec_upto(file)[k] = added(srec_upto(file)[k - 1], file[k])
  BY <1>1, <1>8
<1> DEFINE S == {k \in 0 .. N : srec_upto(file)[k] \in Maps}
<1>10. 0 \in S
  BY <1>1, <1>4, <1>9
<1>11. \A n \in 0 .. N - 1 : n \in S => n + 1 \in S
  BY <1>1, <1>2, <1>9, AddedIsMap
<1> HIDE DEF S
<1>12. \A n \in 0 .. N : n \in S
  BY <1>1, <1>10, <1>11, BoundedInduction
<1> QED BY <1>2, <1>9, <1>12 DEF S, N

(* The records that say something about an address. *)
Covers(r, a) == r.type = 3 /\ a >= r.adr /\ a < r.adr + Len(r.data)

(* A record that can be read adds its data. *)
LEMMA ReadableRecord ==
    ASSUME NEW r, r.count \in 0 .. 255, r.adr \in Nat, r.data \in Seq(Byte), r.sum \in Byte,
           r.count = Len(r.data) + 5, r.count % 16 # 10, r.count \div 16 # 10
    PROVE  /\ \A a \in Nat : a \in DOMAIN record_data(r) <=> Covers(r, a)
           /\ \A a \in DOMAIN record_data(r) : record_data(r)[a] = r.data[a - r.adr + 1]
<1>1. Len(r.data) \in Nat
  BY LenProperties
<1>2. data_bytes(r) = Len(r.data)
  <2>1. rec_size(r) = r.count
    <3> DEFINE h == r.count \div 16
               l == r.count % 16
    <3>1. count_digit(h) = h /\ count_digit(l) = l
      BY DEF count_digit
    <3>2. 16 * h + l = r.count
      BY DivMod
    <3> QED BY <3>1, <3>2 DEF rec_size
  <2> DEFINE m == Len(r.data)
             c == r.count
  <2>2. m \in 0 .. 255 /\ c - 5 = m
    <3>1. c = m + 5 /\ c \in 0 .. 255 /\ m \in Nat
      BY <1>1
    <3> HIDE DEF m, c
    <3> QED BY <3>1
  <2>3. data_bytes(r) = (c - 5) % 256
    BY <2>1 DEF data_bytes
  <2> HIDE DEF c
  <2>4. m % 256 = m
    <3> HIDE DEF m
    <3> QED BY <2>2, Wraps
  <2> QED BY <2>2, <2>3, <2>4
<1> DEFINE I == IF r.type = 3 THEN 0 .. Len(r.data) - 1 ELSE {}
           D == {r.adr + i : i \in I}
<1>3. record_data(r) = [a \in D |-> line_byte(r, a - r.adr)]
  BY <1>2 DEF record_data
<1>4. \A a \in Nat : a \in D <=> Covers(r, a)
  <2> TAKE a \in Nat
  <2>1. a \in D => Covers(r, a)
    BY <1>1 DEF Covers
  <2>2. ASSUME Covers(r, a) PROVE a \in D
    <3>1. a - r.adr \in I /\ a = r.adr + (a - r.adr)
      BY <1>1, <2>2 DEF Covers
    <3> QED BY <3>1
  <2> QED BY <2>1, <2>2
<1>5. \A a \in D : a - r.adr < Len(r.data) /\ a - r.adr \in Nat
  BY <1>1
<1> HIDE DEF D
<1>6. \A a \in D : line_byte(r, a - r.adr) = r.data[a - r.adr + 1]
  BY <1>5 DEF line_byte
<1> QED BY <1>3, <1>4, <1>6

(* After k records the map has what the last of them that covers an        *)
(* address says.                                                           *)
LEMMA SrecSays ==
    ASSUME NEW file, IsFile(file, Byte), Readable(file), NEW a \in Nat
    PROVE  IF Says(file, a) = {} THEN a \notin DOMAIN srec_data(file)
           ELSE a \in DOMAIN srec_data(file) /\ Says(file, a) = {srec_data(file)[a]}
<1> DEFINE N == Len(file)
           d == srec_upto(file)
           C(i) == Covers(file[i], a)
           Last1(k, i) == C(i) /\ \A j \in 1 .. k : C(j) => j <= i
           Right(k) == \/ (\A i \in 1 .. k : ~C(i)) /\ a \notin DOMAIN d[k]
                       \/ \E i \in 1 .. k : /\ Last1(k, i) /\ a \in DOMAIN d[k]
                                            /\ d[k][a] = file[i].data[a - file[i].adr + 1]
           S == {k \in 0 .. N : Right(k)}
<1>1. N \in Nat /\ DOMAIN file = 1 .. N
  BY DEF IsFile
<1>2. \A k \in 1 .. N :
        /\ a \in DOMAIN record_data(file[k]) <=> C(k)
        /\ C(k) => record_data(file[k])[a] = file[k].data[a - file[k].adr + 1]
  BY <1>1, ReadableRecord DEF IsFile, Readable
<1> HIDE DEF d, C, Last1
<1>3. /\ d[0] = <<>> /\ \A k \in 1 .. N : d[k] = added(d[k - 1], file[k])
  BY SrecSteps DEF d
<1>4. 0 \in S
  <2>1. a \notin DOMAIN d[0]
    BY <1>3
  <2> QED BY <1>1, <2>1
<1>5. ASSUME NEW n \in 0 .. N - 1, n \in S
      PROVE  n + 1 \in S
  <2>1. n \in Nat /\ n + 1 \in 1 .. N /\ n + 1 \in 0 .. N /\ (n + 1) - 1 = n
        /\ 1 .. n + 1 = (1 .. n) \cup {n + 1} /\ \A i \in 1 .. n : i <= n + 1
    BY <1>1
  <2>2. d[n + 1] = added(d[n], file[n + 1])
    BY <1>3, <2>1
  <2>3. /\ a \in DOMAIN d[n + 1] <=> a \in DOMAIN d[n] \/ C(n + 1)
        /\ a \in DOMAIN d[n + 1] => d[n + 1][a] = IF C(n + 1) THEN record_data(file[n + 1])[a] ELSE d[n][a]
    BY <1>2, <2>1, <2>2 DEF added
  <2>4. CASE C(n + 1)
    <3>1. Last1(n + 1, n + 1)
      BY <2>1, <2>4 DEF Last1
    <3>2. a \in DOMAIN d[n + 1] /\ d[n + 1][a] = file[n + 1].data[a - file[n + 1].adr + 1]
      BY <1>2, <2>1, <2>3, <2>4
    <3> QED BY <2>1, <3>1, <3>2
  <2>5. CASE ~C(n + 1)
    <3>1. Right(n)
      BY <1>5
    <3>2. CASE (\A i \in 1 .. n : ~C(i)) /\ a \notin DOMAIN d[n]
      BY <2>1, <2>3, <2>5, <3>2
    <3>3. ASSUME NEW i \in 1 .. n, Last1(n, i), a \in DOMAIN d[n],
                 d[n][a] = file[i].data[a - file[i].adr + 1]
          PROVE  n + 1 \in S
      <4>1. Last1(n + 1, i) /\ i \in 1 .. n + 1
        BY <2>1, <2>5, <3>3 DEF Last1
      <4> QED BY <2>1, <2>3, <2>5, <3>3, <4>1
    <3> QED BY <3>1, <3>2, <3>3
  <2> QED BY <2>4, <2>5
<1>6. Right(N)
  <2> HIDE DEF S
  <2>1. \A n \in 0 .. N : n \in S
    BY <1>1, <1>4, <1>5, BoundedInduction
  <2> QED BY <1>1, <2>1 DEF S
<1> DEFINE of == {i \in DOMAIN file : C(i)}
           last == CHOOSE i \in of : \A j \in of : j <= i
<1>7. Says(file, a) = IF of = {} THEN {} ELSE {file[last].data[a - file[last].adr + 1]}
  BY DEF Says, C, Covers
<1>8. srec_data(file) = d[N]
  BY DEF srec_data, d
<1>9. CASE (\A i \in 1 .. N : ~C(i)) /\ a \notin DOMAIN d[N]
  <2>1. of = {}
    BY <1>1, <1>9
  <2> QED BY <1>7, <1>8, <1>9, <2>1
<1>10. ASSUME NEW i \in 1 .. N, Last1(N, i), a \in DOMAIN d[N],
              d[N][a] = file[i].data[a - file[i].adr + 1]
       PROVE  Says(file, a) = {srec_data(file)[a]} /\ a \in DOMAIN srec_data(file)
  <2>1. i \in of /\ \A j \in of : j <= i
    BY <1>1, <1>10 DEF Last1
  <2>2. of \subseteq Nat
    BY <1>1
  <2> HIDE DEF of
  <2>3. last \in of /\ \A j \in of : j <= last
    BY <2>1
  <2> HIDE DEF last
  <2>4. last = i
    BY <2>1, <2>2, <2>3
  <2> QED BY <1>7, <1>8, <1>10, <2>1, <2>4 DEF last
<1> QED BY <1>6, <1>9, <1>10

(* Memory after the constructors: zeros, and nothing printed. *)
LEMMA EmptyDevices ==
    ASSUME NEW b \in Benches
    PROVE  /\ empty_dev(built(b)) = [ram |-> [a \in RamOf(b) |-> 0], tx_buffer |-> <<>>, console |-> <<>>]
           /\ empty_dev(built(b)) \in DevStates(b)
           /\ LinesIntact(empty_dev(built(b)))
<1> DEFINE devs == built(b)
           R == {j \in DOMAIN devs : devs[j].kind = "ram"}
           D == UNION {devs[i].base .. get_top(devs[i]) - 1 : i \in R}
           e == [ram |-> [a \in RamOf(b) |-> 0], tx_buffer |-> <<>>, console |-> <<>>]
<1>1. PICK i \in {1, 2} : R = {i} /\ devs[i] = bench_ram(b)
  <2>1. bench_ram(b).kind = "ram" /\ bench_uart(b).kind # "ram"
    BY TwoDevices
  <2> QED BY <2>1, BuiltDevices
<1>2. D = RamOf(b)
  <2> HIDE DEF R
  <2> QED BY <1>1 DEF RamOf
<1>3. empty_dev(devs) = e
  BY <1>2 DEF empty_dev
<1>4. e \in DevStates(b)
  <2>1. [a \in RamOf(b) |-> 0] \in [RamOf(b) -> Byte]
    BY DEF Byte
  <2>2. <<>> \in Seq(Byte)
    OBVIOUS
  <2> QED BY <2>1, <2>2 DEF DevStates
<1>5. LinesIntact(e)
  BY DEF LinesIntact, ToSet
<1> QED BY <1>3, <1>4, <1>5

(* What the loader puts into the memory. *)
LEMMA LoadedMemory ==
    ASSUME NEW b \in Benches, NEW srec, srec = None \/ IsFile(srec, Byte)
    PROVE  /\ loaded(b, srec) \in DevStates(b)
           /\ LinesIntact(loaded(b, srec))
           /\ srec # None => \A a \in RamOf(b) :
                loaded(b, srec).ram[a] = IF a \in DOMAIN srec_data(srec) THEN srec_data(srec)[a] ELSE 0
<1> DEFINE devs == built(b)
           e == empty_dev(devs)
           m == srec_data(srec)
           u == bench_uart(b).base
           after(a) == bus_write_byte(devs, e, a, m[a])
           tx == {a \in DOMAIN m : \E i \in DOMAIN devs : devs[i].kind = "uart" /\ a = addr_tx(devs[i])}
           s == IF tx = {} THEN e ELSE after(Min(tx))
           ram == [a \in DOMAIN e.ram |-> IF a \in DOMAIN m THEN after(a).ram[a] ELSE s.ram[a]]
<1>1. CASE srec = None
  BY <1>1, EmptyDevices DEF loaded
<1>2. CASE srec # None
  <2>0. /\ e \in DevStates(b) /\ LinesIntact(e) /\ e.ram = [a \in RamOf(b) |-> 0]
        /\ DOMAIN e.ram = RamOf(b)
    BY EmptyDevices
  <2>1. PICK D \in SUBSET Nat : m \in [D -> Byte]
    <3>1. IsFile(srec, Byte) /\ Len(srec) \in Nat
      BY <1>2 DEF IsFile
    <3>2. Len(srec) \in 0 .. Len(srec)
      BY <3>1
    <3>3. m \in Maps
      BY <3>1, <3>2, SrecSteps DEF srec_data
    <3> QED BY <3>3 DEF Maps
  <2>2. loaded(b, srec) = [s EXCEPT !.ram = ram]
    BY <1>2 DEF loaded, load_srec_file
  <2> HIDE DEF e, m
  <2>3. \A a \in DOMAIN m : a \in RamOf(b) => after(a).ram[a] = m[a]
    <3> TAKE a \in DOMAIN m
    <3>1. SUFFICES ASSUME a \in RamOf(b) PROVE after(a).ram[a] = m[a]
      OBVIOUS
    <3>2. a \in Nat /\ m[a] \in Byte
      BY <2>1
    <3>3. after(a) = [e EXCEPT !.ram[a] = m[a]]
      BY <2>0, <3>1, <3>2, GetDevice, TwoDevices, WriteByte DEF bus_write_byte
    <3>4. e.ram \in [RamOf(b) -> Byte] /\ e = [ram |-> e.ram, tx_buffer |-> e.tx_buffer, console |-> e.console]
      BY <2>0 DEF DevStates
    <3>5. after(a).ram = [e.ram EXCEPT ![a] = m[a]]
      <4> DEFINE f == after(a)
      <4> HIDE DEF f
      <4>1. f = [e EXCEPT !.ram[a] = m[a]]
        BY <3>3 DEF f
      <4>2. f.ram = [e.ram EXCEPT ![a] = m[a]]
        BY <3>4, <4>1
      <4> QED BY <4>2 DEF f
    <3> QED BY <3>1, <3>4, <3>5
  <2>4. s \in DevStates(b) /\ s.ram = e.ram /\ LinesIntact(s)
    <3>1. tx = DOMAIN m \cap {u}
      <4>1. bench_ram(b).kind # "uart" /\ bench_uart(b).kind = "uart" /\ addr_tx(bench_uart(b)) = u
        BY TwoDevices DEF addr_tx
      <4> QED BY <4>1, BuiltDevices
    <3> HIDE DEF tx
    <3>2. CASE tx = {}
      BY <2>0, <3>2
    <3>3. CASE tx # {}
      <4>1. tx = {u} /\ u \in DOMAIN m
        BY <3>1, <3>3
      <4>2. u \in Nat /\ m[u] \in Byte
        BY <2>1, <4>1
      <4>3. Min(tx) = u
        BY <4>1, <4>2 DEF Min
      <4>4. get_device_at(devs, u) = bench_uart(b) /\ bench_uart(b) # None
        <5>1. u \notin RamOf(b) /\ u \in u .. u + 7
          BY <4>2, TwoDevices DEF RamOf, get_top
        <5> QED BY <4>2, <5>1, GetDevice, TwoDevices
      <4>5. after(u) = write_to_tx_buffer(e, m[u])
        BY <2>0, <4>2, <4>4, WriteByte DEF bus_write_byte
      <4>6. s = write_to_tx_buffer(e, m[u])
        BY <3>3, <4>3, <4>5
      <4> HIDE DEF s
      <4> QED BY <2>0, <4>2, <4>6, WriteTx
    <3> QED BY <3>2, <3>3
  <2> HIDE DEF s, after
  <2>5. ram = [a \in RamOf(b) |-> IF a \in DOMAIN m THEN m[a] ELSE 0]
    BY <2>0, <2>3, <2>4
  <2>6. ram \in [RamOf(b) -> Byte]
    <3> HIDE DEF ram
    <3>1. 0 \in Byte
      BY DEF Byte
    <3> QED BY <2>1, <2>5, <3>1
  <2> HIDE DEF ram
  <2> DEFINE t == [s EXCEPT !.ram = ram]
  <2>7. t = [ram |-> ram, tx_buffer |-> s.tx_buffer, console |-> s.console]
    BY <2>4 DEF DevStates
  <2>8. s.tx_buffer \in Seq(Byte) /\ s.console \in Seq(Byte)
    BY <2>4 DEF DevStates
  <2> HIDE DEF t
  <2>9. t \in DevStates(b) /\ t.ram = ram /\ t.tx_buffer = s.tx_buffer /\ t.console = s.console
    BY <2>6, <2>7, <2>8 DEF DevStates
  <2>10. LinesIntact(t)
    BY <2>4, <2>9 DEF LinesIntact
  <2>11. loaded(b, srec) = t
    BY <2>2 DEF t
  <2> QED BY <2>5, <2>9, <2>10, <2>11 DEF m
<1> QED BY <1>1, <1>2

-----------------------------------------------------------------------------
(* The ports of a bench, and the one of them that writes: fetch only reads. *)
PortsOf(b) == IF b = "core" THEN {"imem", "dmem"} ELSE {"mem"}
Writer(b)  == IF b = "core" THEN "dmem" ELSE "mem"

(* The agents of a bench, in the order in which they are served.           *)
LEMMA Agents ==
    ASSUME NEW b \in Benches
    PROVE  LET ps == agents(b)
           IN  /\ Len(ps) \in {1, 2} /\ DOMAIN ps = 1 .. Len(ps)
               /\ ToSet(ps) = PortsOf(b) /\ PortsOf(b) \subseteq Ports
               /\ ps[Len(ps)] = Writer(b)
               /\ \A k \in 1 .. Len(ps) - 1 : ps[k] = "imem"
<1>1. CASE b = "core"
  <2>1. agents(b) = <<"imem", "dmem">>
    BY <1>1 DEF agents
  <2>2. DOMAIN <<"imem", "dmem">> = 1 .. 2 /\ Len(<<"imem", "dmem">>) = 2
    OBVIOUS
  <2>3. ToSet(<<"imem", "dmem">>) = {"imem", "dmem"}
    BY DEF ToSet
  <2> QED BY <1>1, <2>1, <2>2, <2>3 DEF PortsOf, Writer, Ports
<1>2. CASE b = "ccx"
  <2>1. agents(b) = <<"mem">>
    BY <1>2 DEF agents
  <2>2. DOMAIN <<"mem">> = 1 .. 1 /\ Len(<<"mem">>) = 1
    OBVIOUS
  <2>3. ToSet(<<"mem">>) = {"mem"}
    BY DEF ToSet
  <2>4. PortsOf(b) = {"mem"} /\ Writer(b) = "mem" /\ {"mem"} \subseteq Ports
    BY <1>2 DEF PortsOf, Writer, Ports
  <2>5. <<"mem">>[1] = "mem" /\ \A k \in 1 .. 1 - 1 : FALSE
    OBVIOUS
  <2> QED BY <2>1, <2>2, <2>3, <2>4, <2>5
<1> QED BY <1>1, <1>2 DEF Benches

(* What the core of a run may ask for.                                     *)
LEMMA RunRequests ==
    ASSUME NEW r \in Runs, NEW p \in Ports
    PROVE  /\ r.bench \in Benches
           /\ None \notin r.requests[p]
           /\ \A q \in r.requests[p] : q \in Asks /\ (p = "imem" => ~q.wen)
<1>1. r.bench \in Benches
  BY RunAssumption DEF Benches
<1>2. None \notin r.requests[p]
  BY RequestAssumption
<1>3. ASSUME NEW q \in r.requests[p]
      PROVE  q \in Asks /\ (p = "imem" => ~q.wen)
  <2>1. /\ \/ q \in [adr : Nat, wen : {FALSE}, val : {None}]
           \/ p # "imem" /\ q \in [adr : Nat, wen : {TRUE}, val : Wdata]
        /\ q.adr % 8 = 0
    BY RequestAssumption DEF Size
  <2> QED BY <2>1 DEF Asks
<1> QED BY <1>1, <1>2, <1>3

(* What is on the ports. *)
PortsOK ==
    /\ \A p \in Ports : req[p] \in sim.requests[p] \cup {None}
    /\ \A p \in Ports \ PortsOf(sim.bench) : req[p] = None
    /\ n_mem \in [Ports -> [gnt : BOOLEAN, err : BOOLEAN, rdata : [Lanes -> Byte]]]

(* The bench after build. *)
Live == /\ sim \in Runs /\ PortsOK
        /\ devices = built(sim.bench) /\ dev \in DevStates(sim.bench)

(* What the devices hold after an edge. *)
After(b) == IF taken(Writer(b)) THEN Done(b, dev, req[Writer(b)]) ELSE dev

(* A request that is taken is one of its port.                             *)
LEMMA Taken ==
    ASSUME Live, NEW p \in Ports, taken(p)
    PROVE  req[p] \in Asks /\ p \in PortsOf(sim.bench) /\ (p = "imem" => ~req[p].wen)
BY RunRequests DEF Live, PortsOK, taken

(* The devices after an edge are devices.                                  *)
LEMMA AfterType ==
    ASSUME Live
    PROVE  After(sim.bench) \in DevStates(sim.bench)
<1>1. sim.bench \in Benches /\ Writer(sim.bench) \in Ports /\ dev \in DevStates(sim.bench)
  BY RunRequests DEF Live, Writer, Ports
<1>2. taken(Writer(sim.bench)) => req[Writer(sim.bench)] \in Asks
  BY <1>1, Taken
<1> QED BY <1>1, <1>2, BusRequest DEF After

(* All agents but the last one read, so every one of them finds the        *)
(* devices as they were before the edge.                                   *)
LEMMA AgentsSample ==
    ASSUME Live
    PROVE  LET ps == agents(sim.bench)
           IN  /\ Upto(ps)[Len(ps)] = After(sim.bench)
               /\ \A k \in DOMAIN ps : Upto(ps)[k - 1] = dev
<1> DEFINE b == sim.bench
           ps == agents(b)
           N == Len(ps)
           w == Writer(b)
           g == [k \in 0 .. N |-> IF k = N THEN After(b) ELSE dev]
           Rec(f) == f = [k \in 0 .. N |->
                            IF k = 0 THEN dev
                            ELSE IF taken(ps[k]) THEN bus_request(devices, f[k - 1], req[ps[k]]).dev
                            ELSE f[k - 1]]
<1>1. b \in Benches /\ dev \in DevStates(b) /\ devices = built(b) /\ "imem" \in Ports /\ w \in Ports
  BY RunRequests DEF Live, Writer, Ports
<1>2. N \in {1, 2} /\ ps[N] = w /\ (\A k \in 1 .. N - 1 : ps[k] = "imem") /\ DOMAIN ps = 1 .. N
  BY <1>1, Agents
<1>3. taken("imem") => bus_request(devices, dev, req["imem"]).dev = dev
  BY <1>1, Taken, BusRequest DEF Done
<1>4. taken(w) => bus_request(devices, dev, req[w]).dev = Done(b, dev, req[w])
  BY <1>1, Taken, BusRequest
<1> HIDE DEF b, ps, N, w
<1>5. \A k \in 0 .. N : g[k] = IF k = 0 THEN dev
                               ELSE IF taken(ps[k]) THEN bus_request(devices, g[k - 1], req[ps[k]]).dev
                               ELSE g[k - 1]
  <2>1. g[0] = dev
    BY <1>2
  <2>2. ASSUME NEW k \in 1 .. N
        PROVE  g[k] = IF taken(ps[k]) THEN bus_request(devices, g[k - 1], req[ps[k]]).dev ELSE g[k - 1]
    <3>1. g[k - 1] = dev
      BY <1>2
    <3>2. CASE k = N
      BY <1>2, <1>4, <3>1, <3>2 DEF After, w
    <3>3. CASE k # N
      <4>1. k \in 1 .. N - 1 /\ ps[k] = "imem" /\ g[k] = dev
        BY <1>2, <3>3
      <4> QED BY <1>3, <3>1, <4>1
    <3> QED BY <3>2, <3>3
  <2> QED BY <1>2, <2>1, <2>2
<1>6. Rec(g)
  <2> HIDE DEF g
  <2>1. g = [k \in 0 .. N |-> g[k]]
    BY DEF g
  <2> QED BY <1>5, <2>1
<1>7. Upto(ps) = CHOOSE f : Rec(f)
  BY DEF Upto, N
<1> HIDE DEF g
<1>8. Rec(Upto(ps))
  BY <1>6, <1>7, Zenon
<1> DEFINE u == Upto(ps)
<1> HIDE DEF u
<1>9. \A k \in 0 .. N : u[k] = IF k = 0 THEN dev
                               ELSE IF taken(ps[k]) THEN bus_request(devices, u[k - 1], req[ps[k]]).dev
                               ELSE u[k - 1]
  BY <1>8 DEF u
<1>10. u[0] = dev
  BY <1>2, <1>9
<1>11. \A k \in 1 .. N : u[k - 1] = dev
  <2>1. CASE N = 1
    BY <1>10, <2>1
  <2>2. CASE N = 2
    <3>1. u[1] = dev
      BY <1>2, <1>3, <1>9, <1>10, <2>2
    <3> QED BY <1>10, <2>2, <3>1
  <2> QED BY <1>2, <2>1, <2>2
<1>12. u[N] = After(b)
  <2>1. u[N] = IF taken(ps[N]) THEN bus_request(devices, u[N - 1], req[ps[N]]).dev ELSE u[N - 1]
    BY <1>2, <1>9
  <2> QED BY <1>2, <1>4, <1>11, <2>1 DEF After, w
<1> QED BY <1>2, <1>11, <1>12 DEF u, b, ps, N

(* What the design stores to the UART at an edge. *)
Sending(b) ==
    LET w == Writer(b)
    IN  /\ taken(w) /\ req[w].wen /\ 0 \in req[w].val.strb
        /\ req[w].adr = bench_uart(b).base

(* The byte that the agents send in a cycle is the one the writer stores   *)
(* in the transmit register.                                               *)
LEMMA AgentsSend ==
    ASSUME Live
    PROVE  sends(agents(sim.bench)) =
                IF Sending(sim.bench) THEN <<req[Writer(sim.bench)].val.data[0]>> ELSE <<>>
<1> DEFINE b == sim.bench
           ps == agents(b)
           N == Len(ps)
           w == Writer(b)
           uart == {devices[i] : i \in {j \in DOMAIN devices : devices[j].kind = "uart"}}
           sending(p) == /\ taken(p) /\ req[p].wen /\ 0 \in req[p].val.strb
                         /\ \E u \in uart : req[p].adr = u.base
           T == IF Sending(b) THEN <<req[w].val.data[0]>> ELSE <<>>
           g == [k \in 0 .. N |-> IF k = N THEN T ELSE <<>>]
           Rec(t) == t = [k \in 0 .. N |->
                            IF k = 0 THEN <<>>
                            ELSE IF sending(ps[k]) THEN Append(t[k - 1], req[ps[k]].val.data[0])
                            ELSE t[k - 1]]
<1>1. b \in Benches /\ devices = built(b) /\ "imem" \in Ports /\ w \in Ports
  BY RunRequests DEF Live, Writer, Ports
<1>2. N \in {1, 2} /\ ps[N] = w /\ (\A k \in 1 .. N - 1 : ps[k] = "imem")
  BY <1>1, Agents
<1>3. uart = {bench_uart(b)}
  <2>1. bench_ram(b).kind # "uart" /\ bench_uart(b).kind = "uart"
    BY <1>1, TwoDevices
  <2> QED BY <1>1, <2>1, BuiltDevices
<1>4. ~sending("imem")
  BY <1>1, Taken
<1>5. sending(w) <=> Sending(b)
  <2> HIDE DEF uart
  <2> QED BY <1>3 DEF Sending
<1> HIDE DEF b, ps, N, w, sending
<1>6. \A k \in 0 .. N : g[k] = IF k = 0 THEN <<>>
                               ELSE IF sending(ps[k]) THEN Append(g[k - 1], req[ps[k]].val.data[0])
                               ELSE g[k - 1]
  <2>1. g[0] = <<>>
    BY <1>2
  <2>2. ASSUME NEW k \in 1 .. N
        PROVE  /\ k # 0
               /\ g[k] = IF sending(ps[k]) THEN Append(g[k - 1], req[ps[k]].val.data[0]) ELSE g[k - 1]
    <3>0. k # 0
      BY <1>2
    <3>1. g[k - 1] = <<>>
      BY <1>2
    <3>2. CASE k = N
      <4>1. Append(<<>>, req[w].val.data[0]) = <<req[w].val.data[0]>>
        OBVIOUS
      <4>2. g[k] = T /\ ps[k] = w
        BY <1>2, <3>2
      <4> HIDE DEF g
      <4> QED BY <1>5, <3>0, <3>1, <4>1, <4>2
    <3>3. CASE k # N
      <4>1. k \in 1 .. N - 1 /\ ps[k] = "imem" /\ g[k] = <<>>
        BY <1>2, <3>3
      <4> HIDE DEF g
      <4> QED BY <1>4, <3>0, <3>1, <4>1
    <3> QED BY <3>2, <3>3
  <2>3. \A k \in 0 .. N : k = 0 \/ k \in 1 .. N
    BY <1>2
  <2> HIDE DEF g
  <2> QED BY <2>1, <2>2, <2>3, Zenon
<1>7. Rec(g)
  <2> HIDE DEF g
  <2>1. g = [k \in 0 .. N |-> g[k]]
    BY DEF g
  <2> QED BY <1>6, <2>1
<1> HIDE DEF g, T
<1> DEFINE t == CHOOSE f : Rec(f)
<1>8. sends(ps) = t[N]
  BY DEF sends, N, sending
<1>9. Rec(t)
  BY <1>7, Zenon
<1> HIDE DEF t
<1>10. \A k \in 0 .. N : t[k] = IF k = 0 THEN <<>>
                                ELSE IF sending(ps[k]) THEN Append(t[k - 1], req[ps[k]].val.data[0])
                                ELSE t[k - 1]
  BY <1>9
<1>11. t[N - 1] = <<>>
  <2>1. t[0] = <<>>
    BY <1>2, <1>10
  <2>2. CASE N = 1
    BY <2>1, <2>2
  <2>3. CASE N = 2
    BY <1>2, <1>4, <1>10, <2>1, <2>3
  <2> QED BY <1>2, <2>2, <2>3
<1>12. t[N] = T
  <2>1. t[N] = IF sending(w) THEN Append(<<>>, req[w].val.data[0]) ELSE <<>>
    <3>1. N \in 0 .. N /\ N # 0
      BY <1>2
    <3>2. t[N] = IF sending(ps[N]) THEN Append(t[N - 1], req[ps[N]].val.data[0]) ELSE t[N - 1]
      BY <1>10, <3>1, Zenon
    <3> QED BY <1>2, <1>11, <3>2, Zenon
  <2>2. Append(<<>>, req[w].val.data[0]) = <<req[w].val.data[0]>>
    OBVIOUS
  <2> QED BY <1>5, <2>1, <2>2 DEF T
<1> QED BY <1>8, <1>12 DEF b, ps, T, w

(* What comes out of the UART is what was sent to it. *)
LinesOK == dev.console \o dev.tx_buffer = sent /\ LinesIntact(dev)

(* The ports after an edge: a granted request is answered from the memory  *)
(* before the edge, and one that is not granted stays.                     *)
LEMMA EdgePorts ==
    ASSUME Live, posedge_gclk
    PROVE  /\ dev' = After(sim.bench)
           /\ n_mem' \in [Ports -> [gnt : BOOLEAN, err : BOOLEAN, rdata : [Lanes -> Byte]]]
           /\ \A p \in Ports : taken(p) =>
                /\ n_mem'[p].err = ~Mapped(sim.bench, req[p].adr)
                /\ ~req[p].wen /\ Mapped(sim.bench, req[p].adr) =>
                        n_mem'[p].rdata = WordOf(dev.ram, req[p].adr)
<1> DEFINE b == sim.bench
           ps == agents(b)
           Type == [gnt : BOOLEAN, err : BOOLEAN, rdata : [Lanes -> Byte]]
           at(p) == CHOOSE k \in DOMAIN ps : ps[k] = p
<1>1. PICK gnt \in [ToSet(ps) -> BOOLEAN], noise \in [ToSet(ps) -> Noise] : posedge_clk(ps, gnt, noise)
  BY DEF posedge_gclk
<1>2. /\ b \in Benches /\ dev \in DevStates(b) /\ devices = built(b)
      /\ n_mem \in [Ports -> Type] /\ DOMAIN n_mem = Ports
  BY RunRequests DEF Live, PortsOK, Ports
<1>3. DOMAIN ps = 1 .. Len(ps) /\ ToSet(ps) = PortsOf(b) /\ PortsOf(b) \subseteq Ports
  BY <1>2, Agents
<1>4. dev' = After(b)
  BY <1>1, AgentsSample DEF posedge_clk
<1>5. \A p \in Ports : p \in PortsOf(b) <=> \E k \in DOMAIN ps : ps[k] = p
  BY <1>3 DEF ToSet
<1>6. ASSUME NEW p \in PortsOf(b)
      PROVE  /\ n_mem'[p] \in Type
             /\ taken(p) =>
                    /\ n_mem'[p].err = ~Mapped(b, req[p].adr)
                    /\ ~req[p].wen /\ Mapped(b, req[p].adr) => n_mem'[p].rdata = WordOf(dev.ram, req[p].adr)
  <2> DEFINE k == at(p)
             a == answer(ps, k, noise[p])
             r == bus_request(devices, dev, req[p])
  <2>1. k \in DOMAIN ps /\ ps[k] = p
    BY <1>3, <1>5
  <2>2. n_mem'[p] = [gnt |-> gnt[p], err |-> a.err, rdata |-> a.rdata]
    BY <1>1, <1>2, <1>3, <1>5 DEF posedge_clk
  <2>7. gnt[p] \in BOOLEAN
    BY <1>3
  <2> HIDE DEF k
  <2>3. Upto(ps)[k - 1] = dev
    BY <2>1, AgentsSample
  <2>4. a = IF taken(p) THEN [err |-> r.err, rdata |-> IF req[p].wen THEN n_mem[p].rdata ELSE r.data]
            ELSE noise[p]
    BY <2>1, <2>3 DEF answer
  <2> HIDE DEF a, r
  <2>5. CASE taken(p)
    <3>1. req[p] \in Asks
      BY <1>3, <2>5, Taken
    <3>2. /\ r.err = ~Mapped(b, req[p].adr) /\ r.data \in [Lanes -> Byte]
          /\ ~req[p].wen /\ Mapped(b, req[p].adr) => r.data = WordOf(dev.ram, req[p].adr)
      BY <1>2, <3>1, BusRequest DEF r
    <3>3. n_mem[p].rdata \in [Lanes -> Byte]
      BY <1>2, <1>3
    <3>4. a.err = r.err /\ a.rdata = IF req[p].wen THEN n_mem[p].rdata ELSE r.data
      BY <2>4, <2>5
    <3>5. n_mem'[p].err = r.err /\ n_mem'[p].rdata = a.rdata /\ n_mem'[p].gnt = gnt[p]
      BY <2>2, <3>4
    <3>6. n_mem'[p] \in Type
      BY <2>2, <2>7, <3>2, <3>3, <3>4
    <3> QED BY <3>2, <3>4, <3>5, <3>6
  <2>6. CASE ~taken(p)
    <3>1. noise[p] \in [err : BOOLEAN, rdata : [Lanes -> Byte]]
      BY <1>3, RequestAssumption
    <3> QED BY <2>2, <2>4, <2>6, <2>7, <3>1
  <2> QED BY <2>5, <2>6
<1>7. ASSUME NEW p \in Ports
      PROVE  n_mem'[p] \in Type
  <2>1. CASE p \in PortsOf(b)
    BY <1>6, <2>1
  <2>2. CASE p \notin PortsOf(b)
    <3>1. n_mem'[p] = n_mem[p]
      BY <1>1, <1>2, <1>5, <2>2 DEF posedge_clk
    <3> QED BY <1>2, <3>1
  <2> QED BY <2>1, <2>2
<1>8. n_mem' \in [Ports -> Type]
  <2>1. n_mem' = [p \in Ports |-> n_mem'[p]]
    BY <1>1, <1>2 DEF posedge_clk
  <2> QED BY <1>7, <2>1
<1>9. ASSUME NEW p \in Ports, taken(p)
      PROVE  /\ n_mem'[p].err = ~Mapped(b, req[p].adr)
             /\ ~req[p].wen /\ Mapped(b, req[p].adr) => n_mem'[p].rdata = WordOf(dev.ram, req[p].adr)
  <2>1. p \in PortsOf(b)
    BY <1>9, Taken
  <2> QED BY <1>6, <1>9, <2>1
<1> QED BY <1>4, <1>8, <1>9

(* What the core asks for after an edge: what it asked before, if that was *)
(* not taken.                                                              *)
LEMMA EdgeRequests ==
    ASSUME Live, posedge_gclk
    PROVE  /\ \A p \in Ports : req'[p] \in sim.requests[p] \cup {None}
           /\ \A p \in Ports \ PortsOf(sim.bench) : req'[p] = None
           /\ resets # 0 => \A p \in Ports : req'[p] = None
           /\ resets = 0 => \A p \in Ports : req[p] # None /\ ~taken(p) => req'[p] = req[p]
<1> DEFINE reset == resets # 0
           wants(p) == IF reset \/ p \notin ToSet(agents(sim.bench)) THEN {None}
                       ELSE IF held(p) THEN {req[p]}
                       ELSE sim.requests[p] \cup {None}
<1>1. PICK i \in wants("imem"), d \in wants("dmem"), m \in wants("mem") :
            req' = [imem |-> i, dmem |-> d, mem |-> m]
  BY DEF posedge_gclk, dut_edge
<1>2. \A p \in Ports : req'[p] \in wants(p)
  BY <1>1 DEF Ports
<1>3. ToSet(agents(sim.bench)) = PortsOf(sim.bench)
  BY Agents, RunRequests DEF Live, Ports
<1>4. \A p \in Ports : req[p] \in sim.requests[p] \cup {None}
  BY DEF Live, PortsOK
<1>5. \A p \in Ports : req[p] # None /\ ~taken(p) => held(p) /\ p \in PortsOf(sim.bench)
  BY DEF Live, PortsOK, held, taken
<1> QED BY <1>2, <1>3, <1>4, <1>5

(* The console after an edge. *)
LEMMA EdgeLines ==
    ASSUME Live, LinesOK, posedge_gclk
    PROVE  LinesOK'
<1> DEFINE b == sim.bench
           w == Writer(b)
           q == req[w]
           c == q.val.data[0]
<1>1. b \in Benches /\ dev \in DevStates(b) /\ w \in Ports
  BY RunRequests DEF Live, Writer, Ports
<1>2. dev' = After(b)
  BY EdgePorts
<1>3. sent' = sent \o (IF Sending(b) THEN <<c>> ELSE <<>>)
  BY AgentsSend DEF posedge_gclk
<1>4. taken(w) => q \in Asks
  BY <1>1, Taken
<1>5. dev.console \o dev.tx_buffer = sent /\ LinesIntact(dev) /\ sent \in Seq(Byte)
  <2>1. dev.console \in Seq(Byte) /\ dev.tx_buffer \in Seq(Byte)
    BY <1>1 DEF DevStates
  <2> QED BY <2>1, ConcatProperties DEF LinesOK
<1> HIDE DEF b, w, q
<1>6. CASE Sending(b)
  <2>1. taken(w) /\ q.wen /\ 0 \in q.val.strb /\ q.adr = bench_uart(b).base
    BY <1>6 DEF Sending, w, q
  <2>2. c \in Byte /\ q.adr \notin RamOf(b)
    <3>1. q.val \in Wdata
      BY <1>4, <2>1 DEF Asks
    <3>2. c \in Byte
      BY <2>1, <3>1 DEF Wdata
    <3>3. bench_uart(b).base \notin RamOf(b)
      BY <1>1, TwoDevices DEF RamOf, get_top
    <3> QED BY <2>1, <3>2, <3>3
  <2>3. dev' = write_to_tx_buffer(dev, c)
    BY <1>2, <2>1, <2>2 DEF After, Done, w, q
  <2>4. sent' = sent \o <<c>>
    BY <1>3, <1>6
  <2> HIDE DEF c
  <2> DEFINE t == write_to_tx_buffer(dev, c)
  <2>5. t.console \o t.tx_buffer = sent \o <<c>> /\ LinesIntact(t)
    BY <1>1, <1>5, <2>2, WriteTx
  <2> HIDE DEF t
  <2>6. dev' = t
    BY <2>3 DEF t
  <2> QED BY <2>4, <2>5, <2>6 DEF LinesOK, LinesIntact
<1>7. CASE ~Sending(b)
  <2>1. sent' = sent
    BY <1>3, <1>5, <1>7, ConcatEmptySeq
  <2>2. dev'.console = dev.console /\ dev'.tx_buffer = dev.tx_buffer
    <3>1. CASE dev' = dev
      BY <3>1
    <3>2. CASE dev' = Stored(b, dev, q.adr, q.val)
      BY <1>1, <3>2 DEF Stored, DevStates
    <3>3. dev' = dev \/ dev' = Stored(b, dev, q.adr, q.val)
      BY <1>2, <1>7 DEF After, Done, Sending, w, q
    <3> QED BY <3>1, <3>2, <3>3
  <2> QED BY <1>5, <2>1, <2>2 DEF LinesOK, LinesIntact
<1> QED BY <1>6, <1>7

(* The bench before build. *)
Idle == /\ devices = <<>> /\ dev = empty_dev(<<>>)
        /\ \A p \in Ports : req[p] = None /\ asked[p] = None

(* The inductive invariant of the memory: the devices are those of the     *)
(* bench, the ports carry what they may, nothing is asked for in reset,    *)
(* and before the first edge memory holds the image.                       *)
MemInv ==
    /\ sim \in Runs /\ PortsOK
    /\ phase \in {"arguments", "build"} => Idle
    /\ phase = "run" => Live /\ LinesOK
    /\ phase = "exit" => Idle \/ (Live /\ LinesOK)
    /\ phase = "run" /\ resets # 0 => \A p \in Ports : req[p] = None
    /\ phase = "run" /\ edges = 0 => dev = loaded(sim.bench, opts.srec)

(* The image of a run is a file or absent.                                 *)
LEMMA ParsedImage ==
    ASSUME NEW r \in Runs
    PROVE  parsed(r).srec = None \/ IsFile(parsed(r).srec, Byte)
<1>1. parsed(r).srec \in Given(r, "IMEM")
  BY ParsedType DEF Options
<1> QED BY <1>1, RunAssumption DEF Given

(* The memory starts with nothing read or written.                         *)
LEMMA MemInit == Init => MemInv
<1> SUFFICES ASSUME Init PROVE MemInv
  OBVIOUS
<1>1. /\ sim \in Runs /\ phase = "arguments" /\ devices = <<>> /\ dev = empty_dev(<<>>)
      /\ req = [p \in Ports |-> None] /\ asked = [p \in Ports |-> None]
      /\ n_mem = [p \in Ports |-> [gnt |-> FALSE, err |-> FALSE, rdata |-> Zeros]]
  BY DEF Init
<1>2. Zeros \in [Lanes -> Byte]
  BY DEF Zeros, Byte
<1>3. PortsOK
  BY <1>1, <1>2 DEF PortsOK
<1> QED BY <1>1, <1>3 DEF MemInv, Idle

(* The constructors and the loader. *)
LEMMA MemBuild ==
    ASSUME BenchInv, MemInv, build
    PROVE  MemInv'
<1> DEFINE b == sim.bench
<1>1. /\ sim \in Runs /\ phase = "build" /\ phase' = "run" /\ Idle /\ PortsOK
      /\ opts = parsed(sim) /\ UNCHANGED <<sim, opts, req>> /\ resets' = 5
  BY DEF MemInv, BenchInv, build
<1>2. b \in Benches
  BY <1>1, RunRequests DEF Ports
<1>3. devices' = built(b) /\ dev' = loaded(b, opts.srec) /\ sent' = dev'.console \o dev'.tx_buffer
  BY DEF build
<1>4. dev' \in DevStates(b) /\ LinesIntact(dev')
  BY <1>1, <1>2, <1>3, ParsedImage, LoadedMemory
<1>5. n_mem' \in [Ports -> [gnt : BOOLEAN, err : BOOLEAN, rdata : [Lanes -> Byte]]]
  <2>1. PICK gnt \in [Ports -> BOOLEAN], n \in Noise :
            n_mem' = [p \in Ports |-> [gnt |-> gnt[p] /\ p \in ToSet(agents(b)),
                                       err |-> n.err, rdata |-> n.rdata]]
    BY DEF build
  <2>2. n \in [err : BOOLEAN, rdata : [Lanes -> Byte]]
    BY RequestAssumption
  <2>3. n.err \in BOOLEAN /\ n.rdata \in [Lanes -> Byte]
    BY <2>2
  <2>4. \A p \in Ports : (gnt[p] /\ p \in ToSet(agents(b))) \in BOOLEAN
    OBVIOUS
  <2> QED BY <2>1, <2>3, <2>4
<1>6. PortsOK'
  BY <1>1, <1>5 DEF PortsOK
<1>7. Live' /\ LinesOK'
  BY <1>1, <1>3, <1>4, <1>6 DEF Live, LinesOK, LinesIntact
<1> QED BY <1>1, <1>3, <1>6, <1>7 DEF MemInv, Idle

(* Half a clock cycle. *)
LEMMA MemStep ==
    ASSUME MemInv, phase = "run", phase' = "run", dut_step_clk,
           resets # 0 \/ resets' = 0, edges \in Nat, f_clk \in BOOLEAN
    PROVE  MemInv'
<1>1. Live /\ LinesOK /\ PortsOK /\ sim \in Runs /\ UNCHANGED <<sim, opts, devices>> /\ f_clk' = ~f_clk
  BY DEF MemInv, dut_step_clk
<1>2. CASE f_clk
  <2>1. UNCHANGED <<dev, n_mem, req, edges, asked, sent>>
    BY <1>1, <1>2 DEF dut_step_clk
  <2>2. PortsOK' /\ Live' /\ LinesOK'
    BY <1>1, <2>1 DEF PortsOK, Live, LinesOK, LinesIntact
  <2>3. edges' = 0 => dev' = loaded(sim.bench, opts.srec)'
    BY <1>1, <2>1 DEF MemInv
  <2>4. resets' # 0 => \A p \in Ports : req'[p] = None
    BY <2>1 DEF MemInv
  <2> QED BY <1>1, <2>2, <2>3, <2>4 DEF MemInv
<1>3. CASE ~f_clk
  <2>1. posedge_gclk /\ edges' = edges + 1
    BY <1>1, <1>3 DEF dut_step_clk, posedge_gclk
  <2>2. dev' \in DevStates(sim.bench)
    BY <1>1, <2>1, EdgePorts, AfterType
  <2>3. PortsOK'
    BY <1>1, <2>1, EdgePorts, EdgeRequests DEF PortsOK
  <2>4. Live' /\ LinesOK'
    BY <1>1, <2>1, <2>2, <2>3, EdgeLines DEF Live
  <2>5. edges' # 0
    BY <2>1
  <2>6. resets' # 0 => \A p \in Ports : req'[p] = None
    BY <1>1, <2>1, EdgeRequests
  <2> QED BY <1>1, <2>3, <2>4, <2>5, <2>6 DEF MemInv
<1> QED BY <1>2, <1>3

(* Every step keeps what the memory, the console and the answers are known *)
(* to hold.                                                                *)
LEMMA MemNext ==
    ASSUME BenchInv, TimeInv, MemInv, [Next]_vars
    PROVE  MemInv'
<1>0. edges \in Nat /\ f_clk \in BOOLEAN
  BY DEF TimeInv
<1>1. CASE process_arguments
  <2>1. /\ phase = "arguments" /\ phase' \in {"build", "exit"}
        /\ UNCHANGED <<sim, devices, dev, req, n_mem, asked>>
    BY <1>1 DEF process_arguments, memVars, history
  <2> QED BY <2>1 DEF MemInv, Idle, PortsOK
<1>2. CASE build
  BY <1>2, MemBuild
<1>3. CASE reset_step
  BY <1>0, <1>3, MemStep DEF reset_step
<1>4. CASE run_step
  BY <1>0, <1>4, MemStep DEF run_step, running
<1>5. CASE finish
  <2>1. /\ phase = "run" /\ phase' = "exit"
        /\ UNCHANGED <<sim, devices, dev, req, n_mem, asked, sent>>
    BY <1>5 DEF finish, memVars, history
  <2> QED BY <2>1 DEF MemInv, PortsOK, Live, LinesOK, LinesIntact
<1>6. CASE UNCHANGED vars
  BY <1>6 DEF vars, memVars, benchVars, history, MemInv, Idle, PortsOK, Live, LinesOK, LinesIntact
<1> QED BY <1>1, <1>2, <1>3, <1>4, <1>5, <1>6 DEF Next, exited

(* All three invariants together. *)
FullInv == BenchInv /\ TimeInv /\ MemInv

(* In every run of either bench the clock and the trace are in step, the   *)
(* time is what the command line gives, the devices hold what was loaded   *)
(* and written, and the ports carry requests of the run (testbench.cpp,    *)
(* dut_wrapper.cpp, core_mem_agent.cpp, memory_bus.cpp).                   *)
THEOREM BenchMemory == Spec => []FullInv
<1>1. Init => FullInv
  BY BenchInit, TimeInit, MemInit DEF FullInv
<1>2. FullInv /\ [Next]_vars => FullInv'
  BY BenchNext, TimeNext, MemNext DEF FullInv
<1> QED BY <1>1, <1>2, PTL DEF Spec

(* Every character comes out once and in order (memory_device_uart.cpp). *)
THEOREM BenchConsole == Spec => []ConsoleIsWhatWasSent
<1>1. FullInv => ConsoleIsWhatWasSent
  BY DEF FullInv, MemInv, BenchInv, Idle, LinesOK, LinesIntact, ConsoleIsWhatWasSent
<1> QED BY <1>1, BenchMemory, PTL

(* The design starts with the image of a well formed SREC file in its      *)
(* memory: the data of the last record for each address, and zeros         *)
(* elsewhere (srec.cpp:13-95, main.cpp:165-177).                           *)
THEOREM BenchImage == Spec => []LoadedImage
<1>1. FullInv => LoadedImage
  <2> SUFFICES ASSUME FullInv, phase = "run", edges = 0, opts.srec # None, Readable(opts.srec),
                      NEW a \in DOMAIN dev.ram
               PROVE  {dev.ram[a]} = IF Says(opts.srec, a) = {} THEN {0} ELSE Says(opts.srec, a)
    BY DEF LoadedImage
  <2>1. /\ dev = loaded(sim.bench, opts.srec) /\ opts = parsed(sim) /\ sim \in Runs
        /\ dev \in DevStates(sim.bench)
    BY DEF FullInv, BenchInv, MemInv, Live
  <2>2. IsFile(opts.srec, Byte) /\ sim.bench \in Benches
    BY <2>1, ParsedImage, RunRequests DEF Ports
  <2>3. a \in RamOf(sim.bench) /\ a \in Nat
    BY <2>1, <2>2, TwoDevices DEF DevStates, RamOf, get_top
  <2>4. dev.ram[a] = IF a \in DOMAIN srec_data(opts.srec) THEN srec_data(opts.srec)[a] ELSE 0
    BY <2>1, <2>2, <2>3, LoadedMemory
  <2> QED BY <2>2, <2>3, <2>4, SrecSays
<1> QED BY <1>1, BenchMemory, PTL

-----------------------------------------------------------------------------
(* What is left of the types. *)
FlagInv ==
    /\ trs \in sim.pcs \cup {None} /\ dut_trace \in Seq(sim.pcs)
    /\ sim_finished \in BOOLEAN /\ sim_passed \in BOOLEAN
    /\ exit \in {None, 0, 1, 2, 3, Aborted}

(* Every step keeps the flags.                                             *)
LEMMA FlagNext ==
    ASSUME FullInv, FlagInv, [Next]_vars
    PROVE  FlagInv'
<1>0. BenchInv' /\ TimeInv'
  BY BenchNext, TimeNext DEF FullInv
<1>1. CASE process_arguments
  <2>1. /\ sim \in Runs /\ UNCHANGED <<sim, trs, dut_trace, sim_finished, sim_passed>>
        /\ exit' = parsed(sim).exit
    BY <1>1 DEF process_arguments, FullInv, BenchInv
  <2>2. exit' \in {None, 0, Aborted}
    BY <2>1, ParsedType DEF Options
  <2> QED BY <2>1, <2>2 DEF FlagInv
<1>2. CASE phase' = "run"
  BY <1>0, <1>2 DEF BenchInv, TimeInv, NoRetirementMissed, FlagInv
<1>3. CASE finish
  <2>1. /\ UNCHANGED <<sim, opts, trs, dut_trace, sim_finished>>
        /\ sim_passed' \in BOOLEAN /\ phase' = "exit" /\ phase = "run"
    BY <1>3 DEF finish
  <2>2. opts.exit = None
    BY <2>1 DEF FullInv, BenchInv
  <2>3. exit' \in 0 .. 3
    BY <1>0, <2>1, <2>2 DEF BenchInv, VerdictSound
  <2> QED BY <2>1, <2>3 DEF FlagInv
<1>4. CASE UNCHANGED vars
  BY <1>4 DEF vars, benchVars, FlagInv
<1>5. build \/ reset_step \/ run_step => phase' = "run"
  BY DEF build, reset_step, run_step, running
<1> QED BY <1>1, <1>2, <1>3, <1>4, <1>5 DEF Next, exited

(* The invariants give the types.                                          *)
LEMMA TypesOK ==
    ASSUME FullInv, FlagInv
    PROVE  TypeOK
<1>1. /\ sim \in Runs /\ phase \in {"arguments", "build", "run", "exit"}
      /\ edges \in Nat /\ f_clk \in BOOLEAN /\ resets \in 0 .. 5 /\ sim_time \in Nat
      /\ sim_time = 20 * edges - (IF f_clk THEN 10 ELSE 0)
  BY DEF FullInv, BenchInv, TimeInv
<1>2. /\ f_clk = (sim_time % 20 = 10)
      /\ 2 * edges = sim_time \div 10 + (IF f_clk THEN 1 ELSE 0)
  <2>1. CASE f_clk = TRUE
    <3>1. sim_time = 20 * edges - 10
      BY <1>1, <2>1
    <3>2. sim_time % 20 = 10 /\ sim_time \div 10 = 2 * edges - 1
      BY <1>1, <3>1
    <3>3. f_clk = (sim_time % 20 = 10)
      BY <2>1, <3>2, Zenon
    <3>4. 2 * edges = (2 * edges - 1) + 1
      BY <1>1
    <3> QED BY <2>1, <3>2, <3>3, <3>4
  <2>2. CASE f_clk = FALSE
    <3>1. sim_time = 20 * edges
      BY <1>1, <2>2
    <3>2. sim_time % 20 = 0 /\ sim_time \div 10 = 2 * edges
      BY <1>1, <3>1
    <3> QED BY <1>1, <2>2, <3>2
  <2> QED BY <1>1, <2>1, <2>2
<1>3. /\ \A p \in Ports : req[p] \in sim.requests[p] \cup {None}
      /\ n_mem \in [Ports -> [gnt : BOOLEAN, err : BOOLEAN, rdata : [Lanes -> Byte]]]
  BY DEF FullInv, MemInv, PortsOK
<1>4. \A a \in DOMAIN dev.ram : dev.ram[a] \in Byte
  <2>1. CASE dev = empty_dev(<<>>)
    BY <2>1 DEF empty_dev, Byte
  <2>2. CASE dev \in DevStates(sim.bench)
    BY <2>2 DEF DevStates
  <2> QED BY <1>1, <2>1, <2>2 DEF FullInv, MemInv, Idle, Live
<1> QED BY <1>1, <1>2, <1>3, <1>4 DEF TypeOK, FlagInv

(* The state of the bench is what its declarations say, with a clock that  *)
(* keeps time and ports that carry the requests of the run                 *)
(* (testbench.cpp:38-70, dut_wrapper.cpp:82-113, core_mem_agent.cpp).      *)
THEOREM BenchTypeOK == Spec => []TypeOK
<1>1. Init => FullInv /\ FlagInv
  <2>1. ASSUME Init PROVE FlagInv
    <3>1. /\ trs = None /\ dut_trace = <<>> /\ exit = None
          /\ sim_finished = FALSE /\ sim_passed = FALSE
      BY <2>1 DEF Init
    <3>2. <<>> \in Seq(sim.pcs)
      OBVIOUS
    <3> QED BY <3>1, <3>2 DEF FlagInv
  <2> QED BY <2>1, BenchInit, TimeInit, MemInit DEF FullInv
<1>2. FullInv /\ FlagInv /\ [Next]_vars => (FullInv /\ FlagInv)'
  BY FlagNext, BenchNext, TimeNext, MemNext DEF FullInv
<1>3. FullInv /\ FlagInv => TypeOK
  BY TypesOK
<1> QED BY <1>1, <1>2, <1>3, PTL DEF Spec

-----------------------------------------------------------------------------
(* The words that the ports see. *)
LEMMA WordFacts ==
    ASSUME NEW b \in Benches, NEW a \in Nat
    PROVE  /\ RamWord(<<b, a>>) <=> a \in RamOf(b)
           /\ UartWord(<<b, a>>) <=> a = bench_uart(b).base
           /\ ~(RamWord(<<b, a>>) \/ UartWord(<<b, a>>)) <=> ~Mapped(b, a)
<1>1. <<b, a>>[1] = b /\ <<b, a>>[2] = a
  OBVIOUS
<1>2. RamWord(<<b, a>>) <=> a \in RamOf(b)
  <2>1. RamOf(b) = bench_ram(b).base .. bench_ram(b).base + bench_ram(b).range - 1
    BY TwoDevices DEF RamOf, get_top
  <2>2. RamWord(<<b, a>>) <=> a \in bench_ram(b).base .. bench_ram(b).base + bench_ram(b).range - 1
    BY <1>1, Zenon DEF RamWord
  <2> QED BY <2>1, <2>2, Zenon
<1>3. UartWord(<<b, a>>) <=> a = bench_uart(b).base
  BY <1>1 DEF UartWord
<1> QED BY <1>2, <1>3 DEF Mapped

(* A word of the shared memory is at an aligned address of a bench.        *)
LEMMA WordsAligned ==
    ASSUME NEW w \in Words
    PROVE  /\ w = <<w[1], w[2]>> /\ w[1] \in Benches /\ w[2] \in Nat /\ w[2] % 8 = 0
<1>1. PICK r \in Runs : w \in {<<r.bench, q.adr>> : q \in UNION {r.requests[p] : p \in Ports}}
  BY DEF Words
<1>2. PICK p \in Ports : \E q \in r.requests[p] : w = <<r.bench, q.adr>>
  BY <1>1
<1> PICK q \in r.requests[p] : w = <<r.bench, q.adr>>
  BY <1>2
<1>3. q \in Asks /\ r.bench \in Benches
  BY RunRequests
<1>4. q.adr \in Nat /\ q.adr % 8 = 0
  BY <1>3 DEF Asks
<1> QED BY <1>3, <1>4

(* A request of a bench is one of the shared memory.                       *)
LEMMA WordsAsked ==
    ASSUME NEW r \in Runs, NEW p \in Ports, NEW q \in r.requests[p]
    PROVE  [q EXCEPT !.adr = <<r.bench, @>>] \in SM!Requests
<1>1. <<r.bench, q.adr>> \in Words
  BY DEF Words
<1>2. q \in Asks
  BY RunRequests
<1>3. CASE q \in [adr : {a \in Nat : a % 8 = 0}, wen : {FALSE}, val : {None}]
  BY <1>1, <1>3 DEF SM!Requests
<1>4. CASE q \in [adr : {a \in Nat : a % 8 = 0}, wen : {TRUE}, val : Wdata]
  BY <1>1, <1>4 DEF SM!Requests
<1> QED BY <1>2, <1>3, <1>4 DEF Asks

(* A word of the memory is eight bytes.                                    *)
LEMMA WordType ==
    ASSUME NEW b \in Benches, NEW ram \in [RamOf(b) -> Byte], NEW a \in Nat
    PROVE  WordOf(ram, a) \in [Lanes -> Byte]
BY DEF WordOf, Byte

(* A transaction changes the strobed bytes of its own word: the words are  *)
(* aligned, so no two of them overlap.                                     *)
LEMMA DoneWord ==
    ASSUME NEW b \in Benches, NEW s \in DevStates(b), NEW q \in Asks, NEW a \in Nat, a % 8 = 0
    PROVE  WordOf(Done(b, s, q).ram, a) =
                IF q.wen /\ q.adr = a /\ Mapped(b, a) THEN Strobed(<<b, a>>, WordOf(s.ram, a), q.val)
                ELSE WordOf(s.ram, a)
<1> DEFINE x == q.adr
           old == WordOf(s.ram, a)
           v == q.val
<1>1. x \in Nat /\ x % 8 = 0 /\ (q.wen => v \in Wdata)
  BY DEF Asks
<1>2. s.ram \in [RamOf(b) -> Byte] /\ DOMAIN s.ram = RamOf(b) /\ RamOf(b) \subseteq Nat
  <2>1. RamOf(b) \subseteq Nat
    BY TwoDevices DEF RamOf, get_top
  <2> QED BY <2>1 DEF DevStates
<1>3. CASE q.wen /\ x \in RamOf(b)
  <2> DEFINE new == Stored(b, s, x, v).ram
  <2>1. new = [y \in RamOf(b) |-> IF y - x \in v.strb THEN v.data[y - x] ELSE s.ram[y]]
    BY DEF Stored, DevStates
  <2>2. Done(b, s, q).ram = new
    BY <1>3 DEF Done
  <2>3. v.strb \subseteq Lanes
    BY <1>1, <1>3 DEF Wdata
  <2>4. CASE x = a
    <3>1. Mapped(b, a) /\ RamWord(<<b, a>>)
      BY <1>3, <2>4, WordFacts DEF Mapped
    <3>2. \A l \in Lanes : a + l \in RamOf(b)
      BY <1>3, <2>4, AlignedInRange
    <3>3. \A l \in Lanes : (a + l) - x = l
      BY <1>1, <2>4 DEF Lanes, Size
    <3>4. \A l \in Lanes : new[a + l] = IF l \in v.strb THEN v.data[l] ELSE s.ram[a + l]
      BY <2>1, <3>2, <3>3
    <3>5. DOMAIN new = RamOf(b)
      BY <2>1
    <3> HIDE DEF new
    <3>6. WordOf(new, a) = [l \in Lanes |-> IF l \in v.strb THEN v.data[l] ELSE s.ram[a + l]]
      BY <3>2, <3>4, <3>5 DEF WordOf
    <3>7. \A l \in Lanes : old[l] = s.ram[a + l]
      BY <1>2, <3>2 DEF WordOf
    <3>8. Strobed(<<b, a>>, old, v) = [l \in Lanes |-> IF l \in v.strb THEN v.data[l] ELSE s.ram[a + l]]
      BY <3>1, <3>7 DEF Strobed
    <3> QED BY <1>3, <2>2, <2>4, <3>1, <3>6, <3>8
  <2>5. CASE x # a
    <3>1. \A l \in Lanes : (a + l) - x \notin Lanes
      <4>1. PICK i \in Nat : a = 8 * i
        <5>1. a \div 8 \in Nat /\ a = 8 * (a \div 8)
          OBVIOUS
        <5> QED BY <5>1
      <4>2. PICK j \in Nat : x = 8 * j
        <5>1. x \div 8 \in Nat /\ x = 8 * (x \div 8)
          BY <1>1
        <5> HIDE DEF x
        <5> QED BY <5>1
      <4>3. i # j
        BY <2>5, <4>1, <4>2
      <4> HIDE DEF x
      <4> QED BY <4>1, <4>2, <4>3 DEF Lanes, Size
    <3>2. \A l \in Lanes : a + l \in RamOf(b) => new[a + l] = s.ram[a + l]
      BY <2>1, <2>3, <3>1
    <3>3. DOMAIN new = RamOf(b)
      BY <2>1
    <3> HIDE DEF new
    <3>4. WordOf(new, a) = old
      BY <1>2, <3>2, <3>3 DEF WordOf
    <3> QED BY <2>2, <2>5, <3>4
  <2> QED BY <2>4, <2>5
<1>4. CASE ~(q.wen /\ x \in RamOf(b))
  <2>1. Done(b, s, q).ram = s.ram
    <3>1. CASE q.wen /\ x = bench_uart(b).base /\ 0 \in v.strb
      <4>1. Done(b, s, q) = write_to_tx_buffer(s, v.data[0])
        BY <1>4, <3>1 DEF Done
      <4>2. v.data[0] \in Byte
        BY <1>1, <3>1 DEF Wdata, Lanes, Size
      <4> QED BY <4>1, <4>2, WriteTx
    <3>2. CASE ~(q.wen /\ x = bench_uart(b).base /\ 0 \in v.strb)
      BY <1>4, <3>2 DEF Done
    <3> QED BY <3>1, <3>2
  <2>2. ASSUME q.wen, x = a, Mapped(b, a)
        PROVE  Strobed(<<b, a>>, old, v) = old
    <3>1. ~RamWord(<<b, a>>)
      BY <1>4, <2>2, WordFacts
    <3>2. Strobed(<<b, a>>, old, v) = [l \in Lanes |-> old[l]]
      BY <3>1 DEF Strobed
    <3>3. old = [l \in Lanes |-> old[l]]
      BY DEF WordOf
    <3> QED BY <3>2, <3>3
  <2> QED BY <2>1, <2>2
<1> QED BY <1>3, <1>4

(* What the ports see before and after an edge. *)
LEMMA WordsSeen ==
    ASSUME Live
    PROVE  WordsHeld = [w \in Words |-> IF w[1] = sim.bench THEN WordOf(dev.ram, w[2]) ELSE Zeros]
<1>1. devices # <<>>
  BY BuiltDevices, RunRequests DEF Live, Ports
<1>2. \A a : Contents(a) = WordOf(dev.ram, a)
  BY <1>1 DEF Contents, WordOf
<1> QED BY <1>2 DEF WordsHeld

(* A rising edge is a cycle of the shared memory in which the ports that   *)
(* are granted are served.                                                 *)
LEMMA EdgeImplements ==
    ASSUME FullInv, Live, Live', UNCHANGED <<sim, devices>>, phase = "run", posedge_gclk
    PROVE  SM!Next
<1> DEFINE b == sim.bench
           wr == Writer(b)
<1>G. PICK G : G = {p \in Ports : taken(p)}
  OBVIOUS
<1>e. PICK e : e = [p \in Ports |-> taken(p) /\ ~Mapped(b, req[p].adr)]
  OBVIOUS
<1>0. /\ b \in Benches /\ wr \in Ports /\ sim \in Runs /\ sim' = sim
      /\ dev \in DevStates(b) /\ PortsOK /\ PortsOK'
  BY RunRequests DEF Live, Writer, Ports
<1>1. \A p \in G : /\ p \in Ports /\ taken(p) /\ req[p] # None /\ req[p] \in Asks
                   /\ req[p] \in sim.requests[p] /\ (req[p].wen => p = wr)
  <2> SUFFICES ASSUME NEW p \in G
               PROVE  /\ p \in Ports /\ taken(p) /\ req[p] # None /\ req[p] \in Asks
                      /\ req[p] \in sim.requests[p] /\ (req[p].wen => p = wr)
    OBVIOUS
  <2>1. p \in Ports /\ taken(p) /\ req[p] # None
    BY <1>G DEF taken
  <2>2. req[p] \in Asks /\ p \in PortsOf(b) /\ (p = "imem" => ~req[p].wen)
    BY <2>1, Taken
  <2>3. req[p] \in sim.requests[p]
    BY <1>0, <2>1 DEF PortsOK
  <2> QED BY <2>1, <2>2, <2>3 DEF PortsOf, Writer
<1>2. \A p \in G : /\ Asking[p].adr = <<b, req[p].adr>>
                   /\ Asking[p].wen = req[p].wen /\ Asking[p].val = req[p].val
                   /\ Asking[p] \in SM!Requests /\ <<b, req[p].adr>> \in Words
  <2> SUFFICES ASSUME NEW p \in G
               PROVE  /\ Asking[p].adr = <<b, req[p].adr>>
                      /\ Asking[p].wen = req[p].wen /\ Asking[p].val = req[p].val
                      /\ Asking[p] \in SM!Requests /\ <<b, req[p].adr>> \in Words
    OBVIOUS
  <2>1. Asking[p] = [req[p] EXCEPT !.adr = <<b, @>>]
    BY <1>1 DEF Asking
  <2>2. Asking[p] \in SM!Requests
    BY <1>0, <1>1, <2>1, WordsAsked
  <2>3. /\ Asking[p].adr = <<b, req[p].adr>>
        /\ Asking[p].wen = req[p].wen /\ Asking[p].val = req[p].val
    BY <1>1, <2>1 DEF Asks
  <2>4. Asking[p].adr \in Words
    BY <2>2 DEF SM!Requests
  <2> QED BY <2>2, <2>3, <2>4
<1>3. e \in [Ports -> BOOLEAN] /\ \A p \in G : e[p] = ~Mapped(b, req[p].adr)
  BY <1>e, <1>1
<1>4. ASSUME NEW p \in G
      PROVE  e[p] \in SM!Errors(Asking[p])
  <2> DEFINE U == {w \in Words : ~RamWord(w) /\ ~UartWord(w)}
  <2>1. Asking[p].adr \in U <=> ~Mapped(b, req[p].adr)
    <3>1. req[p].adr \in Nat
      BY <1>1 DEF Asks
    <3>2. <<b, req[p].adr>> \in U <=> ~Mapped(b, req[p].adr)
      BY <1>0, <1>2, <3>1, WordFacts
    <3> QED BY <1>2, <3>2
  <2>2. SM!Errors(Asking[p]) = IF Asking[p].adr \in U THEN {TRUE} ELSE {FALSE}
    BY DEF SM!Errors
  <2> HIDE DEF U
  <2> QED BY <1>3, <2>1, <2>2
<1>5. ASSUME NEW p \in G, NEW q \in G, p # q
      PROVE  ~(Asking[p].wen /\ Asking[q].wen)
  BY <1>1, <1>2, <1>5
<1>6. WordsHeld' = [w \in Words |-> SM!After(w, G, e)]
  <2>1. /\ WordsHeld = [w \in Words |-> IF w[1] = b THEN WordOf(dev.ram, w[2]) ELSE Zeros]
        /\ WordsHeld' = [w \in Words |-> IF w[1] = b THEN WordOf(After(b).ram, w[2]) ELSE Zeros]
    <3>1. WordsHeld' = [w \in Words |-> IF w[1] = b THEN WordOf(dev'.ram, w[2]) ELSE Zeros]
      <4>1. devices' # <<>>
        BY <1>0, BuiltDevices DEF Live
      <4>2. \A a : Contents(a)' = WordOf(dev'.ram, a)
        BY <4>1 DEF Contents, WordOf
      <4> QED BY <1>0, <4>2 DEF WordsHeld
    <3>2. dev' = After(b)
      BY EdgePorts
    <3> QED BY <3>1, <3>2, WordsSeen
  <2> SUFFICES ASSUME NEW w \in Words
               PROVE  (IF w[1] = b THEN WordOf(After(b).ram, w[2]) ELSE Zeros) = SM!After(w, G, e)
    BY <2>1
  <2> DEFINE W == {p \in G : Asking[p].adr = w /\ Asking[p].wen /\ ~e[p]}
  <2>2. SM!After(w, G, e) = IF W = {} THEN WordsHeld[w]
                            ELSE Strobed(w, WordsHeld[w], Asking[CHOOSE p \in W : TRUE].val)
    BY DEF SM!After
  <2>3. w = <<w[1], w[2]>> /\ w[1] \in Benches /\ w[2] \in Nat /\ w[2] % 8 = 0
    BY WordsAligned
  <2>4. \A p \in W : p = wr /\ w[1] = b
    <3> SUFFICES ASSUME NEW p \in W PROVE p = wr /\ w[1] = b
      OBVIOUS
    <3>1. p \in G /\ w = <<b, req[p].adr>> /\ req[p].wen
      BY <1>2
    <3>2. w[1] = b
      BY <3>1
    <3> QED BY <1>1, <3>1, <3>2
  <2>5. W # {} => (CHOOSE p \in W : TRUE) = wr /\ wr \in W
    BY <2>4
  <2>6. CASE w[1] # b
    <3>1. W = {}
      BY <2>4, <2>6
    <3> QED BY <2>1, <2>2, <2>6, <3>1
  <2>7. CASE w[1] = b /\ taken(wr)
    <3> DEFINE q == req[wr]
               a == w[2]
    <3>1. wr \in G /\ q \in Asks
      BY <1>0, <1>G, <1>1, <2>7
    <3>2. wr \in W <=> q.wen /\ q.adr = a /\ Mapped(b, a)
      <4>1. w = <<b, a>>
        BY <2>3, <2>7
      <4>2. <<b, q.adr>> = w <=> q.adr = a
        BY <4>1
      <4>3. wr \in W <=> <<b, q.adr>> = w /\ q.wen /\ Mapped(b, q.adr)
        BY <1>2, <1>3, <3>1
      <4> QED BY <4>2, <4>3
    <3>3. WordsHeld[w] = WordOf(dev.ram, a)
      BY <2>1, <2>7
    <3>4. After(b) = Done(b, dev, q)
      BY <2>7 DEF After
    <3>5. WordOf(After(b).ram, a) =
                IF wr \in W THEN Strobed(<<b, a>>, WordOf(dev.ram, a), q.val) ELSE WordOf(dev.ram, a)
      BY <1>0, <2>3, <3>1, <3>2, <3>4, DoneWord
    <3>6. w = <<b, a>>
      BY <2>3, <2>7
    <3>7. Asking[wr].val = q.val
      BY <1>2, <3>1
    <3>8. wr \notin W => W = {}
      BY <2>5
    <3> HIDE DEF W, q, wr, a
    <3>9. CASE wr \in W
      <4>1. W # {} /\ (CHOOSE p \in W : TRUE) = wr
        BY <2>5, <3>9
      <4>2. SM!After(w, G, e) = Strobed(<<b, a>>, WordOf(dev.ram, a), q.val)
        BY <2>2, <3>3, <3>6, <3>7, <4>1
      <4> QED BY <2>7, <3>5, <3>9, <4>2 DEF a
    <3>10. CASE wr \notin W
      BY <2>2, <2>7, <3>3, <3>5, <3>8, <3>10 DEF a
    <3> QED BY <3>9, <3>10
  <2>8. CASE w[1] = b /\ ~taken(wr)
    <3>1. W = {}
      BY <1>1, <2>4, <2>8
    <3>2. After(b) = dev
      BY <2>8 DEF After
    <3> QED BY <2>1, <2>2, <2>8, <3>1, <3>2
  <2> QED BY <2>6, <2>7, <2>8
<1>7. Answered' = [p \in Ports |-> IF p \in G THEN SM!Answer(Asking[p], e[p]) ELSE None]
  <2>1. asked' = [p \in Ports |-> IF taken(p) THEN req[p] ELSE None]
    BY DEF posedge_gclk
  <2> SUFFICES ASSUME NEW p \in Ports
               PROVE  (IF asked'[p] = None THEN None
                       ELSE [err  |-> n_mem'[p].err,
                             data |-> IF asked'[p].wen \/ n_mem'[p].err THEN None ELSE n_mem'[p].rdata])
                      = IF p \in G THEN SM!Answer(Asking[p], e[p]) ELSE None
    BY DEF Answered
  <2>2. CASE p \in G
    <3>1. asked'[p] = req[p] /\ req[p] # None
      BY <1>1, <2>1, <2>2
    <3>2. n_mem'[p].err = ~Mapped(b, req[p].adr) /\ e[p] = ~Mapped(b, req[p].adr)
      BY <1>1, <1>3, <2>2, EdgePorts
    <3>3. ~(req[p].wen \/ e[p]) => n_mem'[p].rdata = WordsHeld[Asking[p].adr]
      <4>1. ASSUME ~req[p].wen, Mapped(b, req[p].adr)
            PROVE  n_mem'[p].rdata = WordsHeld[Asking[p].adr]
        <5>1. n_mem'[p].rdata = WordOf(dev.ram, req[p].adr)
          BY <1>1, <2>2, <4>1, EdgePorts
        <5>2. WordsHeld[<<b, req[p].adr>>] = WordOf(dev.ram, req[p].adr)
          BY <1>2, <2>2, WordsSeen
        <5> QED BY <1>2, <2>2, <5>1, <5>2
      <4> QED BY <3>2, <4>1
    <3>4. SM!Answer(Asking[p], e[p]) =
                [err |-> e[p], data |-> IF req[p].wen \/ e[p] THEN None ELSE WordsHeld[Asking[p].adr]]
      BY <1>2, <2>2 DEF SM!Answer
    <3>5. n_mem'[p].err = e[p]
      BY <3>2
    <3> QED BY <2>2, <3>1, <3>3, <3>4, <3>5
  <2>3. CASE p \notin G
    BY <1>G, <2>1, <2>3
  <2> QED BY <2>2, <2>3
<1>8. Asking' \in [Ports -> SM!Requests \cup {None}]
  <2> SUFFICES ASSUME NEW p \in Ports
               PROVE  Asking'[p] \in SM!Requests \cup {None}
    BY DEF Asking
  <2>1. req'[p] \in sim.requests[p] \cup {None}
    BY EdgeRequests
  <2>2. Asking'[p] = IF req'[p] = None THEN None ELSE [req'[p] EXCEPT !.adr = <<b, @>>]
    BY <1>0 DEF Asking
  <2> QED BY <1>0, <2>1, <2>2, WordsAsked
<1>9. \A p \in Ports \ G : Asking[p] # None => Asking'[p] = Asking[p]
  <2> SUFFICES ASSUME NEW p \in Ports \ G, Asking[p] # None
               PROVE  Asking'[p] = Asking[p]
    OBVIOUS
  <2>1. req[p] # None /\ ~taken(p)
    BY <1>G DEF Asking
  <2>2. resets = 0
    BY <2>1 DEF FullInv, MemInv
  <2>3. req'[p] = req[p]
    BY <2>1, <2>2, EdgeRequests
  <2> QED BY <1>0, <2>3 DEF Asking
<1>10. SM!Cycle(G, e)
  BY <1>4, <1>5, <1>6, <1>7, <1>8, <1>9 DEF SM!Cycle
<1>11. G \in SUBSET {p \in Ports : Asking[p] # None}
  <2>1. None \notin SM!Requests
    <3>1. Words \subseteq {"core", "ccx"} \X Nat
      <4> SUFFICES ASSUME NEW w \in Words PROVE w \in {"core", "ccx"} \X Nat
        OBVIOUS
      <4> DEFINE i == w[1]
                 j == w[2]
      <4>1. w = <<i, j>> /\ i \in {"core", "ccx"} /\ j \in Nat
        BY WordsAligned DEF Benches
      <4> HIDE DEF i, j
      <4> QED BY <4>1
    <3> QED BY <3>1, RequestAssumption DEF SM!Requests
  <2> QED BY <1>1, <1>2, <2>1
<1> QED BY <1>3, <1>10, <1>11 DEF SM!Next

(* The memory holds the image of the run from the start. *)
LEMMA InitImplements == Init => SM!Init
<1> SUFFICES ASSUME Init PROVE SM!Init
  OBVIOUS
<1> DEFINE ram == loaded(sim.bench, parsed(sim).srec).ram
<1>1. /\ sim \in Runs /\ devices = <<>>
      /\ req = [p \in Ports |-> None] /\ asked = [p \in Ports |-> None]
  BY DEF Init
<1>2. sim.bench \in Benches
  BY <1>1, RunRequests DEF Ports
<1>3. ram \in [RamOf(sim.bench) -> Byte]
  BY <1>1, <1>2, ParsedImage, LoadedMemory DEF DevStates
<1>4. Image[sim] = ram
  BY <1>1 DEF Image
<1> HIDE DEF ram
<1>5. \A a : Contents(a) = WordOf(ram, a)
  BY <1>1, <1>4 DEF Contents, WordOf
<1>6. WordsHeld \in [Words -> [Lanes -> Byte]]
  <2>1. Zeros \in [Lanes -> Byte]
    BY DEF Zeros, Byte
  <2>2. \A w \in Words : w[2] \in Nat
    BY WordsAligned
  <2>3. \A w \in Words : Contents(w[2]) \in [Lanes -> Byte]
    BY <1>2, <1>3, <1>5, <2>2, WordType
  <2> QED BY <2>1, <2>3 DEF WordsHeld
<1>7. Asking = [p \in Ports |-> None] /\ Answered = [p \in Ports |-> None]
  BY <1>1 DEF Asking, Answered
<1> QED BY <1>6, <1>7 DEF SM!Init

(* What the ports see depends on these variables only. *)
LEMMA SeenUnchanged ==
    ASSUME UNCHANGED <<sim, devices, dev, req, n_mem, asked>>
    PROVE  UNCHANGED SM!vars
<1>1. \A a : Contents(a)' = Contents(a)
  BY DEF Contents
<1>2. WordsHeld' = WordsHeld
  BY <1>1 DEF WordsHeld
<1>3. Asking' = Asking /\ Answered' = Answered
  BY DEF Asking, Answered
<1> QED BY <1>2, <1>3 DEF SM!vars

(* The loader puts into the memory what the ports see from the start. *)
LEMMA BuildImplements ==
    ASSUME FullInv, build
    PROVE  UNCHANGED SM!vars
<1> DEFINE ram == loaded(sim.bench, parsed(sim).srec).ram
<1>1. /\ phase = "build" /\ sim \in Runs /\ opts = parsed(sim)
      /\ devices = <<>> /\ \A p \in Ports : req[p] = None /\ asked[p] = None
  BY DEF build, FullInv, BenchInv, MemInv, Idle
<1>2. /\ devices' = built(sim.bench) /\ dev'.ram = ram /\ UNCHANGED <<sim, req, asked>>
  BY <1>1 DEF build
<1>3. devices' # <<>>
  BY <1>1, <1>2, BuiltDevices, RunRequests DEF Ports
<1>4. Image[sim] = ram
  BY <1>1 DEF Image
<1> HIDE DEF ram
<1>5. \A a : Contents(a)' = Contents(a)
  <2>1. \A a : Contents(a) = WordOf(ram, a)
    BY <1>1, <1>4 DEF Contents, WordOf
  <2>2. \A a : Contents(a)' = WordOf(ram, a)
    BY <1>2, <1>3 DEF Contents, WordOf
  <2> QED BY <2>1, <2>2
<1>6. WordsHeld' = WordsHeld
  BY <1>2, <1>5 DEF WordsHeld
<1>7. Asking' = Asking
  BY <1>2 DEF Asking
<1>8. Answered' = Answered
  BY <1>1, <1>2 DEF Answered
<1> QED BY <1>6, <1>7, <1>8 DEF SM!vars

(* A step of half a cycle is a cycle of the shared memory or nothing. *)
LEMMA HalfImplements ==
    ASSUME FullInv, FullInv', dut_step_clk, phase = "run", phase' = "run"
    PROVE  [SM!Next]_SM!vars
<1>1. Live /\ Live' /\ UNCHANGED <<sim, devices>> /\ f_clk' = ~f_clk
  BY DEF FullInv, MemInv, dut_step_clk
<1>2. CASE f_clk
  <2>1. UNCHANGED <<sim, devices, dev, req, n_mem, asked>>
    BY <1>1, <1>2 DEF dut_step_clk
  <2> QED BY <2>1, SeenUnchanged
<1>3. CASE ~f_clk
  <2>1. posedge_gclk
    BY <1>1, <1>3 DEF dut_step_clk
  <2> QED BY <1>1, <2>1, EdgeImplements
<1> QED BY <1>2, <1>3

(* The test benches implement one shared memory: what a port is answered   *)
(* is what was last written to the word through either port, or the loaded *)
(* image (core_mem_agent.cpp:39-100, memory_bus.cpp:60-109,                *)
(* memory_device_ram.cpp, main.cpp:165-177).                               *)
THEOREM BenchIsSharedMemory == Spec => ImplementsSharedMemory
<1>1. FullInv /\ FullInv' /\ [Next]_vars => [SM!Next]_SM!vars
  <2> SUFFICES ASSUME FullInv, FullInv', [Next]_vars PROVE [SM!Next]_SM!vars
    OBVIOUS
  <2>1. CASE process_arguments \/ finish
    <3>1. UNCHANGED <<sim, devices, dev, req, n_mem, asked>>
      BY <2>1 DEF process_arguments, finish, memVars, history
    <3> QED BY <3>1, SeenUnchanged
  <2>2. CASE build
    BY <2>2, BuildImplements
  <2>3. CASE reset_step \/ run_step
    BY <2>3, HalfImplements DEF reset_step, run_step, running
  <2>4. CASE UNCHANGED vars
    <3>1. UNCHANGED <<sim, devices, dev, req, n_mem, asked>>
      BY <2>4 DEF vars, memVars, benchVars, history
    <3> QED BY <3>1, SeenUnchanged
  <2> QED BY <2>1, <2>2, <2>3, <2>4 DEF Next, exited
<1> QED BY <1>1, InitImplements, BenchMemory, PTL DEF Spec, SM!Spec, ImplementsSharedMemory

-----------------------------------------------------------------------------
(* Printing a digit and reading it are inverse.                            *)
LEMMA HexDigits ==
    /\ \A d \in 0 .. 15 : hex_char(d) \in HexCodes /\ a2h(hex_char(d)) = d
    /\ \A c \in HexCodes : a2h(c) \in 0 .. 15 /\ hex_char(a2h(c)) = c /\ a2h(c) # EOF
BY DEF HexCodes, hex_char, a2h, EOF

(* The places of the two digits of a byte in the file, nine characters for *)
(* a word of four bytes.                                                   *)
LEMMA NineAtATime ==
    ASSUME NEW w \in Nat, NEW i \in 0 .. 8
    PROVE  (9 * w + i) \div 9 = w /\ (9 * w + i) % 9 = i
OBVIOUS

(* The word and the place of a byte.                                       *)
LEMMA FourAtATime ==
    ASSUME NEW w \in Nat, NEW i \in 0 .. 3
    PROVE  (4 * w + i) \div 4 = w /\ (4 * w + i) % 4 = i
OBVIOUS

(* The byte and the place of a digit.                                      *)
LEMMA TwoAtATime ==
    ASSUME NEW i \in 0 .. 3
    PROVE  /\ (2 * i) \div 2 = i /\ (2 * i) % 2 = 0
           /\ (2 * i + 1) \div 2 = i /\ (2 * i + 1) % 2 = 1
OBVIOUS

(* The two digits of a byte, and the byte of two digits.                   *)
LEMMA Nibbles ==
    /\ \A b \in 0 .. 255 : b \div 16 \in 0 .. 15 /\ b % 16 \in 0 .. 15 /\ 16 * (b \div 16) + (b % 16) = b
    /\ \A x, y \in 0 .. 15 : (16 * x + y) \div 16 = x /\ (16 * x + y) % 16 = y
OBVIOUS

(* The signature of n words with the bytes B. *)
Printed(n, B) ==
    [c \in 1 .. 9 * n |->
        LET word == (c - 1) \div 9
            pos  == (c - 1) % 9
            b    == B[4 * word + pos \div 2 + 1]
        IN  IF pos = 8 THEN NewLine ELSE hex_char(IF pos % 2 = 0 THEN b \div 16 ELSE b % 16)]

(* Where the digits of a byte are printed.                                 *)
LEMMA PrintedDigits ==
    ASSUME NEW n \in Nat, NEW B, NEW w \in 0 .. n - 1
    PROVE  /\ 9 * w + 9 \in 1 .. 9 * n /\ Printed(n, B)[9 * w + 9] = NewLine
           /\ \A i \in 0 .. 3 :
                /\ 9 * w + 2 * i + 1 \in 1 .. 9 * n /\ 9 * w + 2 * i + 2 \in 1 .. 9 * n
                /\ Printed(n, B)[9 * w + 2 * i + 1] = hex_char(B[4 * w + i + 1] \div 16)
                /\ Printed(n, B)[9 * w + 2 * i + 2] = hex_char(B[4 * w + i + 1] % 16)
<1>1. 9 * w + 9 \in 1 .. 9 * n /\ Printed(n, B)[9 * w + 9] = NewLine
  <2>1. 9 * w + 9 \in 1 .. 9 * n /\ (9 * w + 9) - 1 = 9 * w + 8
    OBVIOUS
  <2>2. ((9 * w + 9) - 1) % 9 = 8
    BY <2>1, NineAtATime
  <2> QED BY <2>1, <2>2 DEF Printed
<1>2. ASSUME NEW i \in 0 .. 3
      PROVE  /\ 9 * w + 2 * i + 1 \in 1 .. 9 * n
             /\ Printed(n, B)[9 * w + 2 * i + 1] = hex_char(B[4 * w + i + 1] \div 16)
  <2> DEFINE c == 9 * w + 2 * i + 1
  <2>1. c \in 1 .. 9 * n /\ c - 1 = 9 * w + 2 * i /\ 2 * i \in 0 .. 8 /\ 2 * i # 8
    OBVIOUS
  <2>2. (c - 1) \div 9 = w /\ (c - 1) % 9 = 2 * i
    BY <2>1, NineAtATime
  <2>3. (2 * i) \div 2 = i /\ (2 * i) % 2 = 0
    BY TwoAtATime
  <2> HIDE DEF c
  <2>4. Printed(n, B)[c] = hex_char(B[4 * w + i + 1] \div 16)
    BY <2>1, <2>2, <2>3 DEF Printed
  <2> QED BY <2>1, <2>4 DEF c
<1>3. ASSUME NEW i \in 0 .. 3
      PROVE  /\ 9 * w + 2 * i + 2 \in 1 .. 9 * n
             /\ Printed(n, B)[9 * w + 2 * i + 2] = hex_char(B[4 * w + i + 1] % 16)
  <2> DEFINE c == 9 * w + 2 * i + 2
  <2>1. /\ c \in 1 .. 9 * n /\ c - 1 = 9 * w + (2 * i + 1) /\ 2 * i + 1 \in 0 .. 8 /\ 2 * i + 1 # 8
    OBVIOUS
  <2>2. (c - 1) \div 9 = w /\ (c - 1) % 9 = 2 * i + 1
    BY <2>1, NineAtATime
  <2>3. (2 * i + 1) \div 2 = i /\ (2 * i + 1) % 2 = 1
    BY TwoAtATime
  <2> HIDE DEF c
  <2>4. Printed(n, B)[c] = hex_char(B[4 * w + i + 1] % 16)
    BY <2>1, <2>2, <2>3 DEF Printed
  <2> QED BY <2>1, <2>4 DEF c
<1> QED BY <1>1, <1>2, <1>3

(* The first digit is not disturbed by the second.                         *)
LEMMA OrZero == \A x \in 0 .. 15 : or4(x, 0) = x
BY DEF or4

(* What the reader makes of two digits, wherever the file ends. *)
LEMMA ReferenceDigits ==
    ASSUME NEW file, NEW w \in Nat, NEW i \in 0 .. 3,
           9 * w + 2 * i + 1 \in DOMAIN file, 9 * w + 2 * i + 2 \in DOMAIN file,
           file[9 * w + 2 * i + 1] \in HexCodes, file[9 * w + 2 * i + 2] \in HexCodes
    PROVE  /\ place(4 * w + i + 1) = 9 * w + 2 * i + 1
           /\ reference_byte(file, 4 * w + i + 1) =
                16 * a2h(file[9 * w + 2 * i + 1]) + a2h(file[9 * w + 2 * i + 2])
<1> DEFINE k == 4 * w + i + 1
           c == 9 * w + 2 * i + 1
           x == a2h(file[c])
           y == a2h(file[c + 1])
<1>1. k - 1 = 4 * w + i /\ c + 1 = 9 * w + 2 * i + 2
  OBVIOUS
<1>2. (k - 1) \div 4 = w /\ (k - 1) % 4 = i
  BY <1>1, FourAtATime
<1>3. x \in 0 .. 15 /\ y \in 0 .. 15
  BY <1>1, HexDigits
<1>4. place(k) = c
  BY <1>2 DEF place
<1>5. c \in DOMAIN file /\ c + 1 \in DOMAIN file
  BY <1>1
<1>6. reference_byte(file, k) = 16 * or4(x % 16, (y % 256) \div 16) + ((y % 256) % 16)
  <2> HIDE DEF k, c
  <2> QED BY <1>4, <1>5 DEF reference_byte
<1>7. x % 16 = x /\ (y % 256) \div 16 = 0 /\ (y % 256) % 16 = y
  <2> HIDE DEF x, y
  <2> QED BY <1>3
<1>8. reference_byte(file, k) = 16 * x + y
  <2> HIDE DEF x, y, k
  <2> QED BY <1>3, <1>6, <1>7, OrZero
<1> QED BY <1>1, <1>4, <1>8

(* Bytes, digits and line ends have their places in a signature.           *)
LEMMA Places ==
    ASSUME NEW n \in Nat, NEW w \in 0 .. n - 1, NEW i \in 0 .. 3
    PROVE  /\ 4 * w + i + 1 \in 1 .. 4 * n
           /\ 9 * w + 2 * i + 1 \in 1 .. 9 * n /\ (9 * w + 2 * i + 1) % 9 # 0
           /\ 9 * w + 2 * i + 2 \in 1 .. 9 * n /\ (9 * w + 2 * i + 2) % 9 # 0
           /\ 9 * w + 9 \in 1 .. 9 * n /\ (9 * w + 9) % 9 = 0
OBVIOUS

(* Every byte is a byte of a word. *)
LEMMA BytesOfWords ==
    ASSUME NEW n \in Nat, NEW k \in 1 .. 4 * n
    PROVE  \E w \in 0 .. n - 1, i \in 0 .. 3 : k = 4 * w + i + 1
<1>1. (k - 1) \div 4 \in 0 .. n - 1 /\ (k - 1) % 4 \in 0 .. 3 /\ k = 4 * ((k - 1) \div 4) + ((k - 1) % 4) + 1
  OBVIOUS
<1> QED BY <1>1

(* Every character is the end of a line or one of the digits of a byte. *)
LEMMA CharsOfWords ==
    ASSUME NEW n \in Nat, NEW c \in 1 .. 9 * n
    PROVE  \E w \in 0 .. n - 1 :
                \/ c = 9 * w + 9
                \/ \E i \in 0 .. 3 : c = 9 * w + 2 * i + 1 \/ c = 9 * w + 2 * i + 2
<1> DEFINE w == (c - 1) \div 9
           p == (c - 1) % 9
<1>1. w \in 0 .. n - 1 /\ p \in 0 .. 8 /\ c = 9 * w + p + 1
  OBVIOUS
<1> HIDE DEF w, p
<1>2. p = 8 \/ \E i \in 0 .. 3 : p = 2 * i \/ p = 2 * i + 1
  BY <1>1
<1>3. CASE p = 8
  BY <1>1, <1>3
<1>4. ASSUME NEW i \in 0 .. 3, p = 2 * i \/ p = 2 * i + 1
      PROVE  c = 9 * w + 2 * i + 1 \/ c = 9 * w + 2 * i + 2
  BY <1>1, <1>4
<1> QED BY <1>1, <1>2, <1>3, <1>4

(* Two digits that are read as a byte of memory are the digits of that     *)
(* byte.                                                                   *)
LEMMA DigitsRead ==
    ASSUME NEW n \in Nat, NEW B \in [1 .. 4 * n -> 0 .. 255], NEW file,
           NEW w \in 0 .. n - 1, NEW i \in 0 .. 3,
           9 * w + 2 * i + 1 \in DOMAIN file, 9 * w + 2 * i + 2 \in DOMAIN file,
           file[9 * w + 2 * i + 1] \in HexCodes, file[9 * w + 2 * i + 2] \in HexCodes,
           B[4 * w + i + 1] = reference_byte(file, 4 * w + i + 1)
    PROVE  /\ file[9 * w + 2 * i + 1] = Printed(n, B)[9 * w + 2 * i + 1]
           /\ file[9 * w + 2 * i + 2] = Printed(n, B)[9 * w + 2 * i + 2]
<1> DEFINE b == B[4 * w + i + 1]
           x == file[9 * w + 2 * i + 1]
           y == file[9 * w + 2 * i + 2]
<1>1. x \in HexCodes /\ y \in HexCodes /\ b = 16 * a2h(x) + a2h(y)
  <2>1. w \in Nat
    OBVIOUS
  <2> QED BY <2>1, ReferenceDigits
<1>2. /\ Printed(n, B)[9 * w + 2 * i + 1] = hex_char(b \div 16)
      /\ Printed(n, B)[9 * w + 2 * i + 2] = hex_char(b % 16)
  BY PrintedDigits
<1> HIDE DEF b, x, y
<1>3. a2h(x) \in 0 .. 15 /\ a2h(y) \in 0 .. 15 /\ hex_char(a2h(x)) = x /\ hex_char(a2h(y)) = y
  BY <1>1, HexDigits
<1>4. b \div 16 = a2h(x) /\ b % 16 = a2h(y)
  <2> DEFINE u == a2h(x)
             v == a2h(y)
  <2>1. u \in 0 .. 15 /\ v \in 0 .. 15 /\ b = 16 * u + v
    BY <1>1, <1>3, Zenon
  <2> HIDE DEF u, v
  <2>2. b \div 16 = u /\ b % 16 = v
    BY <2>1, Nibbles
  <2> QED BY <2>2, Zenon DEF u, v
<1>5. hex_char(b \div 16) = x /\ hex_char(b % 16) = y
  BY <1>3, <1>4, Zenon
<1>6. x = Printed(n, B)[9 * w + 2 * i + 1] /\ y = Printed(n, B)[9 * w + 2 * i + 2]
  BY <1>2, <1>5, Zenon
<1> QED BY <1>6, Zenon DEF x, y

(* A complete file agrees byte by byte if and only if it is the signature. *)
LEMMA PrintedIsRead ==
    ASSUME NEW n \in Nat, NEW B \in [1 .. 4 * n -> 0 .. 255], NEW file,
           file = [c \in 1 .. 9 * n |-> file[c]],
           \A c \in 1 .. 9 * n : IF c % 9 = 0 THEN file[c] = NewLine ELSE file[c] \in HexCodes
    PROVE  (\A k \in 1 .. 4 * n : B[k] = reference_byte(file, k)) <=> file = Printed(n, B)
<1>0. DOMAIN file = 1 .. 9 * n
  OBVIOUS
<1>1. ASSUME NEW w \in 0 .. n - 1, NEW i \in 0 .. 3
      PROVE  /\ file[9 * w + 2 * i + 1] \in HexCodes /\ file[9 * w + 2 * i + 2] \in HexCodes
             /\ B[4 * w + i + 1] \in 0 .. 255 /\ 4 * w + i + 1 \in 1 .. 4 * n
             /\ 9 * w + 2 * i + 1 \in DOMAIN file /\ 9 * w + 2 * i + 2 \in DOMAIN file
  <2>1. /\ 4 * w + i + 1 \in 1 .. 4 * n
        /\ 9 * w + 2 * i + 1 \in 1 .. 9 * n /\ (9 * w + 2 * i + 1) % 9 # 0
        /\ 9 * w + 2 * i + 2 \in 1 .. 9 * n /\ (9 * w + 2 * i + 2) % 9 # 0
    BY Places
  <2> QED BY <1>0, <2>1
<1>2. ASSUME file = Printed(n, B), NEW k \in 1 .. 4 * n
      PROVE  B[k] = reference_byte(file, k)
  <2>1. PICK w \in 0 .. n - 1 : \E i \in 0 .. 3 : k = 4 * w + i + 1
    BY BytesOfWords
  <2>2. PICK i \in 0 .. 3 : k = 4 * w + i + 1
    BY <2>1
  <2> DEFINE b == B[4 * w + i + 1]
             x == file[9 * w + 2 * i + 1]
             y == file[9 * w + 2 * i + 2]
  <2>3. x = hex_char(b \div 16) /\ y = hex_char(b % 16)
    BY <1>2, PrintedDigits
  <2>4. b \div 16 \in 0 .. 15 /\ b % 16 \in 0 .. 15 /\ 16 * (b \div 16) + (b % 16) = b
    BY <1>1, Nibbles
  <2>5. reference_byte(file, k) = 16 * a2h(x) + a2h(y)
    <3>1. w \in Nat
      OBVIOUS
    <3> QED BY <1>1, <2>2, <3>1, ReferenceDigits
  <2>6. a2h(x) = b \div 16 /\ a2h(y) = b % 16
    BY <2>3, <2>4, HexDigits
  <2> QED BY <2>2, <2>4, <2>5, <2>6
<1>3. ASSUME \A k \in 1 .. 4 * n : B[k] = reference_byte(file, k)
      PROVE  file = Printed(n, B)
  <2>1. ASSUME NEW w \in 0 .. n - 1, NEW i \in 0 .. 3
        PROVE  /\ file[9 * w + 2 * i + 1] = Printed(n, B)[9 * w + 2 * i + 1]
               /\ file[9 * w + 2 * i + 2] = Printed(n, B)[9 * w + 2 * i + 2]
    <3>1. /\ 9 * w + 2 * i + 1 \in DOMAIN file /\ 9 * w + 2 * i + 2 \in DOMAIN file
          /\ file[9 * w + 2 * i + 1] \in HexCodes /\ file[9 * w + 2 * i + 2] \in HexCodes
      BY <1>1, Zenon
    <3>2. 4 * w + i + 1 \in 1 .. 4 * n
      BY <1>1, Zenon
    <3>3. B[4 * w + i + 1] = reference_byte(file, 4 * w + i + 1)
      BY <1>3, <3>2, Zenon
    <3> QED BY <3>1, <3>3, DigitsRead, Zenon
  <2>2. ASSUME NEW w \in 0 .. n - 1
        PROVE  file[9 * w + 9] = Printed(n, B)[9 * w + 9]
    <3>1. 9 * w + 9 \in 1 .. 9 * n /\ (9 * w + 9) % 9 = 0
      BY Places
    <3>2. Printed(n, B)[9 * w + 9] = NewLine
      BY PrintedDigits
    <3> QED BY <3>1, <3>2
  <2>3. ASSUME NEW c \in 1 .. 9 * n
        PROVE  file[c] = Printed(n, B)[c]
    <3>1. PICK w \in 0 .. n - 1 :
                \/ c = 9 * w + 9
                \/ \E i \in 0 .. 3 : c = 9 * w + 2 * i + 1 \/ c = 9 * w + 2 * i + 2
      BY CharsOfWords
    <3> QED BY <2>1, <2>2, <3>1
  <2>4. Printed(n, B) = [c \in 1 .. 9 * n |-> Printed(n, B)[c]]
    BY DEF Printed
  <2> QED BY <2>3, <2>4
<1> QED BY <1>2, <1>3

(* Every place of a signature has a digit or a line end.                   *)
LEMMA PrintedComplete ==
    ASSUME NEW n \in Nat, NEW B \in [1 .. 4 * n -> 0 .. 255], NEW c \in 1 .. 9 * n
    PROVE  IF c % 9 = 0 THEN Printed(n, B)[c] = NewLine ELSE Printed(n, B)[c] \in HexCodes
<1>1. PICK w \in 0 .. n - 1 :
            \/ c = 9 * w + 9
            \/ \E i \in 0 .. 3 : c = 9 * w + 2 * i + 1 \/ c = 9 * w + 2 * i + 2
  BY CharsOfWords
<1>2. CASE c = 9 * w + 9
  <2>1. c % 9 = 0
    BY <1>2, Places
  <2>2. Printed(n, B)[c] = NewLine
    BY <1>2, PrintedDigits
  <2> QED BY <2>1, <2>2
<1>3. ASSUME NEW i \in 0 .. 3, c = 9 * w + 2 * i + 1 \/ c = 9 * w + 2 * i + 2
      PROVE  c % 9 # 0 /\ Printed(n, B)[c] \in HexCodes
  <2> DEFINE b == B[4 * w + i + 1]
  <2>1. 4 * w + i + 1 \in 1 .. 4 * n /\ c % 9 # 0
    BY <1>3, Places
  <2>2. b \in 0 .. 255
    BY <2>1
  <2>3. Printed(n, B)[c] \in {hex_char(b \div 16), hex_char(b % 16)}
    <3>1. /\ Printed(n, B)[9 * w + 2 * i + 1] = hex_char(b \div 16)
          /\ Printed(n, B)[9 * w + 2 * i + 2] = hex_char(b % 16)
      BY PrintedDigits
    <3> QED BY <1>3, <3>1
  <2> HIDE DEF b
  <2>4. b \div 16 \in 0 .. 15 /\ b % 16 \in 0 .. 15
    BY <2>2, Nibbles
  <2>5. hex_char(b \div 16) \in HexCodes /\ hex_char(b % 16) \in HexCodes
    BY <2>4, HexDigits
  <2> QED BY <2>1, <2>3, <2>5
<1> QED BY <1>1, <1>2, <1>3

(* The bus reads bytes.                                                    *)
LEMMA ReadByte ==
    ASSUME NEW b \in Benches, NEW s \in DevStates(b), NEW a \in Nat
    PROVE  bus_read_byte(built(b), s, a) \in 0 .. 255
<1> DEFINE d == get_device_at(built(b), a)
<1>1. CASE a \in RamOf(b)
  <2>1. d = bench_ram(b) /\ d # None /\ d.kind = "ram"
    BY <1>1, GetDevice, TwoDevices
  <2>2. s.ram[a] \in 0 .. 255
    BY <1>1 DEF DevStates, Byte
  <2> HIDE DEF d
  <2>3. bus_read_byte(built(b), s, a) = s.ram[a]
    BY <2>1 DEF bus_read_byte, read_byte, ram_read_byte, d
  <2> QED BY <2>2, <2>3
<1>2. CASE a \notin RamOf(b)
  <2>1. d = None \/ (d # None /\ d.kind # "ram")
    BY <1>2, GetDevice, TwoDevices
  <2> HIDE DEF d
  <2>2. bus_read_byte(built(b), s, a) \in {0, 255}
    BY <2>1 DEF bus_read_byte, read_byte, uart_read_byte, d
  <2> QED BY <2>2
<1> QED BY <1>1, <1>2

(* The signature that is in memory, and how it is compared. *)
LEMMA SignatureChecked ==
    ASSUME Live, opts \in Options(sim)
    PROVE  /\ verif_signature_file(dump_signature_file)
           /\ opts.verif # None /\ Complete(opts.verif) =>
                (verif_signature_file(opts.verif) <=> opts.verif = dump_signature_file)
           /\ verif_signature_file(opts.verif) => Agrees(opts.verif)
<1> DEFINE n == Cardinality(signature_words)
           B == signature_bytes
           dump == dump_signature_file
<1>1. sim \in Runs /\ sim.bench \in Benches /\ dev \in DevStates(sim.bench) /\ devices = built(sim.bench)
  BY RunRequests DEF Live, Ports
<1>2. opts.sig_start \in Nat /\ opts.sig_end \in Nat
  BY DEF Options
<1>3. n \in Nat
  <2>1. IsFiniteSet(opts.sig_start .. opts.sig_end - 1)
    <3>1. opts.sig_start \in Int /\ opts.sig_end - 1 \in Int
      BY <1>2
    <3> QED BY <3>1, FS_Interval, Zenon
  <2>2. IsFiniteSet(signature_words)
    BY <2>1, FS_Subset DEF signature_words
  <2> QED BY <2>2, FS_CardinalityType
<1> HIDE DEF n
<1>4. B \in [1 .. 4 * n -> 0 .. 255]
  <2> DEFINE at(k) == opts.sig_start + 4 * ((k - 1) \div 4) + 3 - ((k - 1) % 4)
  <2>1. B = [k \in 1 .. 4 * n |-> bus_read_byte(devices, dev, at(k))]
    BY DEF signature_bytes, n
  <2>2. \A k \in 1 .. 4 * n : at(k) \in Nat
    <3> SUFFICES ASSUME NEW k \in 1 .. 4 * n PROVE at(k) \in Nat
      OBVIOUS
    <3>1. (k - 1) \div 4 \in Nat /\ (k - 1) % 4 \in 0 .. 3
      BY <1>3
    <3> QED BY <1>2, <3>1
  <2> HIDE DEF at
  <2> QED BY <1>1, <2>1, <2>2, ReadByte
<1>5. dump = Printed(n, B)
  BY DEF dump_signature_file, Printed, n
<1> HIDE DEF B, dump
<1>6. dump = [c \in 1 .. 9 * n |-> dump[c]] /\ DOMAIN dump = 1 .. 9 * n
  BY <1>5 DEF Printed
<1>7. \A c \in 1 .. 9 * n : IF c % 9 = 0 THEN dump[c] = NewLine ELSE dump[c] \in HexCodes
  BY <1>3, <1>4, <1>5, PrintedComplete
<1>8. DOMAIN B = 1 .. 4 * n
  BY <1>4
<1>9. \A file : verif_signature_file(file) <=> \A k \in 1 .. 4 * n : B[k] = reference_byte(file, k)
  BY <1>8 DEF verif_signature_file, B
<1>10. verif_signature_file(dump)
  <2>1. (\A k \in 1 .. 4 * n : B[k] = reference_byte(dump, k)) <=> dump = Printed(n, B)
    BY <1>3, <1>4, <1>6, <1>7, PrintedIsRead
  <2> QED BY <1>5, <1>9, <2>1
<1>11. ASSUME opts.verif # None, Complete(opts.verif)
       PROVE  verif_signature_file(opts.verif) <=> opts.verif = dump
  <2> DEFINE file == opts.verif
  <2>1. file \in Given(sim, "SIG_VERIF")
    BY DEF Options
  <2>2. PICK i \in DOMAIN sim.argv : sim.argv[i].opt = "SIG_VERIF" /\ file = sim.argv[i].val
    BY <1>11, <2>1 DEF Given
  <2>3. file \in Seq(Int)
    <3>1. sim.argv[i].val \in Seq(Int) \cup {None}
      BY <1>1, <2>2, RunAssumption
    <3> QED BY <1>11, <2>2, <3>1
  <2>4. Len(dump) = 9 * n
    <3>1. dump \in Seq({dump[c] : c \in 1 .. 9 * n})
      BY <1>3, <1>6
    <3>2. Len(dump) \in Nat /\ DOMAIN dump = 1 .. Len(dump)
      BY <3>1, LenProperties
    <3> QED BY <1>3, <1>6, <3>2
  <2>5. DOMAIN file = 1 .. 9 * n
    BY <1>11, <2>3, <2>4, LenProperties DEF Complete, dump
  <2>6. \A c \in 1 .. 9 * n : IF c % 9 = 0 THEN file[c] = NewLine ELSE file[c] \in HexCodes
    BY <1>11, <2>5 DEF Complete, HexCodes
  <2>7. file = [c \in 1 .. 9 * n |-> file[c]]
    <3>1. PICK m \in Nat : file \in [1 .. m -> Int]
      BY <2>3, SeqDef
    <3> HIDE DEF file
    <3> QED BY <2>5, <3>1
  <2> HIDE DEF file
  <2>8. (\A k \in 1 .. 4 * n : B[k] = reference_byte(file, k)) <=> file = Printed(n, B)
    BY <1>3, <1>4, <2>6, <2>7, PrintedIsRead
  <2> QED BY <1>5, <1>9, <2>8 DEF file
<1>12. ASSUME verif_signature_file(opts.verif)
       PROVE  Agrees(opts.verif)
  <2> DEFINE file == opts.verif
  <2>1. \A k \in 1 .. 4 * n : B[k] = reference_byte(file, k)
    BY <1>9, <1>12
  <2>2. ASSUME NEW k \in 1 .. 4 * n,
               \A c \in {place(k), place(k) + 1} : c \in DOMAIN file /\ file[c] \in HexCodes
        PROVE  \A c \in {place(k), place(k) + 1} : file[c] = dump[c]
    <3>1. PICK w \in 0 .. n - 1 : \E i \in 0 .. 3 : k = 4 * w + i + 1
      BY <1>3, BytesOfWords
    <3>2. PICK i \in 0 .. 3 : k = 4 * w + i + 1
      BY <3>1
    <3> DEFINE c == 9 * w + 2 * i + 1
    <3>3. place(k) = c /\ place(k) + 1 = 9 * w + 2 * i + 2
      <4>1. w \in Nat /\ k - 1 = 4 * w + i
        BY <1>3, <3>2
      <4>2. (k - 1) \div 4 = w /\ (k - 1) % 4 = i
        BY <4>1, FourAtATime
      <4> QED BY <4>1, <4>2 DEF place
    <3>4. /\ c \in DOMAIN file /\ 9 * w + 2 * i + 2 \in DOMAIN file
          /\ file[c] \in HexCodes /\ file[9 * w + 2 * i + 2] \in HexCodes
      BY <2>2, <3>3
    <3>5. B[4 * w + i + 1] = reference_byte(file, 4 * w + i + 1)
      BY <2>1, <3>2
    <3> HIDE DEF file
    <3>6. file[c] = dump[c] /\ file[9 * w + 2 * i + 2] = dump[9 * w + 2 * i + 2]
      BY <1>3, <1>4, <1>5, <3>4, <3>5, DigitsRead
    <3> QED BY <3>3, <3>6
  <2> QED BY <1>8, <2>2 DEF Agrees, B, dump
<1> QED BY <1>10, <1>11, <1>12 DEF dump

(* What the verdict says of the signature depends on these variables only. *)
LEMMA VerdictUnchanged ==
    ASSUME UNCHANGED <<opts, devices, dev>>
    PROVE  /\ dump_signature_file' = dump_signature_file
           /\ SignatureAsExpected' = SignatureAsExpected
           /\ (opts.verif = None \/ Complete(opts.verif))' = (opts.verif = None \/ Complete(opts.verif))
           /\ Agrees(opts.verif)' = Agrees(opts.verif)
<1>1. signature_words' = signature_words
  BY DEF signature_words
<1>2. signature_bytes' = signature_bytes
  BY <1>1 DEF signature_bytes
<1>3. dump_signature_file' = dump_signature_file
  BY <1>1, <1>2 DEF dump_signature_file
<1>4. SignatureAsExpected' = SignatureAsExpected
  BY <1>3 DEF SignatureAsExpected
<1>5. (opts.verif = None \/ Complete(opts.verif))' = (opts.verif = None \/ Complete(opts.verif))
  BY <1>3 DEF Complete
<1>6. Agrees(opts.verif)' = Agrees(opts.verif)
  BY <1>2, <1>3 DEF Agrees
<1> QED BY <1>3, <1>4, <1>5, <1>6

(* The verdict is exact when the run ends.                                 *)
LEMMA FinishExact ==
    ASSUME FullInv, finish
    PROVE  VerdictExact'
<1> DEFINE v == opts.verif = None \/ verif_signature_file(opts.verif)
           late == sim_time >= opts.max_sim_time
<1>1. /\ phase = "run" /\ resets = 0 /\ ~running /\ phase' = "exit"
      /\ signature' = (IF opts.dump_signature THEN dump_signature_file ELSE None)
      /\ exit' = verdict(v)
      /\ UNCHANGED <<opts, devices, dev, sim_time, first, sim>>
  BY DEF finish, memVars, history
<1>2. /\ sim \in Runs /\ opts = parsed(sim) /\ Live /\ NoRetirementMissed
      /\ first \in {None, opts.pass, opts.fail} /\ sim_finished \in BOOLEAN
      /\ sim_passed \in BOOLEAN /\ sim_time \in Nat
  BY <1>1 DEF FullInv, BenchInv, MemInv
<1>3. opts \in Options(sim) /\ opts.max_sim_time \in Nat
  BY <1>2, ParsedType DEF Options
<1>4. /\ verif_signature_file(dump_signature_file)
      /\ opts.verif # None /\ Complete(opts.verif) =>
            (verif_signature_file(opts.verif) <=> opts.verif = dump_signature_file)
      /\ verif_signature_file(opts.verif) => Agrees(opts.verif)
  BY <1>2, <1>3, SignatureChecked
<1>5. ~late => first # None /\ (sim_passed <=> first = opts.pass)
  <2>1. ~late => sim_finished
    BY <1>1, <1>2, <1>3 DEF running
  <2> QED BY <1>1, <1>2, <2>1 DEF NoRetirementMissed
<1>6. opts.verif = None \/ Complete(opts.verif) => (v <=> SignatureAsExpected)
  BY <1>4 DEF SignatureAsExpected
<1>7. opts.dump_signature /\ opts.verif = signature' => v
  BY <1>1, <1>4
<1>14. v /\ opts.verif # None => Agrees(opts.verif)
  BY <1>4
<1> HIDE DEF v
<1>8. exit' = (IF late THEN 1 ELSE IF sim_passed /\ v THEN 0 ELSE IF ~v THEN 3 ELSE 2)
  BY <1>1 DEF verdict
<1> HIDE DEF late
<1>9. /\ exit' = 1 <=> late
      /\ exit' = 0 <=> ~late /\ sim_passed /\ v
      /\ exit' = 3 <=> ~late /\ ~v
  BY <1>8
<1>10. late' = late
  BY <1>1 DEF late
<1>11. /\ exit' = 1 => late'
       /\ exit' # 1 => first' # None
  BY <1>1, <1>5, <1>9, <1>10
<1>12. ASSUME (opts.verif = None \/ Complete(opts.verif))'
       PROVE  /\ exit' = 0 <=> exit' # 1 /\ first' = opts'.pass /\ SignatureAsExpected'
              /\ exit' = 3 <=> exit' # 1 /\ ~SignatureAsExpected'
  <2>1. v <=> SignatureAsExpected'
    BY <1>1, <1>6, <1>12, VerdictUnchanged
  <2> QED BY <1>1, <1>5, <1>9, <2>1
<1>13. opts'.dump_signature /\ opts'.verif = signature' => exit' # 3
  BY <1>1, <1>7, <1>9
<1>15. exit' = 0 /\ opts'.verif # None => Agrees(opts.verif)'
  BY <1>1, <1>9, <1>14, VerdictUnchanged
<1> QED BY <1>11, <1>12, <1>13, <1>15 DEF VerdictExact, late

(* Every step keeps the verdict exact.                                     *)
LEMMA ExactNext ==
    ASSUME FullInv, VerdictExact, [Next]_vars
    PROVE  VerdictExact'
<1>1. CASE process_arguments
  BY <1>1 DEF process_arguments, VerdictExact
<1>2. CASE build \/ reset_step \/ run_step
  <2>1. phase' = "run"
    BY <1>2 DEF build, reset_step, run_step, running
  <2> QED BY <2>1 DEF VerdictExact
<1>3. CASE finish
  BY <1>3, FinishExact
<1>4. CASE UNCHANGED vars
  <2>1. UNCHANGED <<opts, devices, dev, phase, exit, sim_time, first, signature>>
    BY <1>4 DEF vars, memVars, benchVars, history
  <2> QED BY <2>1, VerdictUnchanged DEF VerdictExact
<1> QED BY <1>1, <1>2, <1>3, <1>4 DEF Next, exited

(* The exit code of main says what happened, the comparison of the         *)
(* signature with its reference in hex digits included: the conversions of *)
(* dump_signature_file and verif_signature_file undo each other            *)
(* (core main.cpp:180-325).                                                *)
THEOREM BenchVerdictExact == Spec => []VerdictExact
<1>1. Init => VerdictExact
  BY DEF Init, VerdictExact
<1>2. FullInv /\ VerdictExact /\ [Next]_vars => VerdictExact'
  BY ExactNext
<1> QED BY <1>1, <1>2, BenchMemory, PTL DEF Spec

=============================================================================
