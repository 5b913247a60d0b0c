------------------------------ MODULE Software ------------------------------
(***************************************************************************)
(* The programs of the repository, of which one runs: a test bench on the  *)
(* host, the access fault test on the core complex in its bench, or a      *)
(* program on the board.                                                   *)
(***************************************************************************)
EXTENDS SimBench, AccessTraps, ArtyFirmware

VARIABLE running_program    \* "bench", "test" or "board"

allVars == <<running_program, vars, testVars, boardVars>>

(* What does not run stays as it is, the bench with an empty memory. *)
Bench(A) == running_program = "bench" /\ A /\ UNCHANGED <<running_program, testVars, boardVars>>
Test(A)  == running_program = "test" /\ A /\ UNCHANGED <<running_program, vars, boardVars>>
Board(A) == running_program = "board" /\ A /\ UNCHANGED <<running_program, vars, testVars>>

SoftwareInit ==
    /\ running_program \in {"bench", "test", "board"} /\ Init /\ TestInit /\ BoardInit
    /\ running_program = "bench" \/ sim = CHOOSE r \in Runs : parsed(r).srec = None
    /\ running_program = "test" \/ design = "right"
    /\ running_program = "board" \/ (prog = "hello" /\ ~other_int)

SoftwareNext == Bench(Next) \/ Test(TestNext) \/ Board(BoardNext)

(* The host executes instructions: main comes to its loop, whatever it     *)
(* loads, and does not stop in it.                                         *)
HostRuns ==
    /\ []<>(running_program = "bench" => phase \notin {"arguments", "build"})
    /\ WF_allVars(Bench(reset_step \/ run_step \/ finish))

(* So does the core, and what the programs of the board wait for happens   *)
(* in the end.                                                             *)
SoftwareSpec ==
    /\ SoftwareInit /\ [][SoftwareNext]_allVars
    /\ HostRuns
    /\ WF_allVars(Test(TestNext))
    /\ \A f \in InTheEnd : WF_allVars(Board(Part(f)))

----------------------------------------------------------------------------
(* Each program reaches its end, whatever the design, the memory and the   *)
(* UART do: the bench returns, the test decides, the board says hello.     *)
BenchEnds == running_program = "bench" => Terminates
TestEnds  == running_program = "test" => TestDecides
BoardEnds == running_program = "board" => SaysHello

=============================================================================
