----------------------------- MODULE AccessTraps -----------------------------
(***************************************************************************)
(* The unit test of access faults (verif/ccx/unit/access-traps): for each  *)
(* address of a table a load and then a store, each of which must fault or *)
(* must not.                                                               *)
(*                                                                         *)
(* The test runs on the core complex in its test bench, or on a design     *)
(* that may be wrong: any access may trap or not, with any cause, and a    *)
(* trap, an exception or an interrupt, may come before any step of the     *)
(* program.  The trap handler runs to its end undisturbed, and the         *)
(* program's statements take effect in the order they are written.         *)
(***************************************************************************)
EXTENDS Integers, Sequences

CONSTANTS
    Table,          \* test_main: a sequence of records adr, readable, writeable
    Faults(_, _),   \* Faults(adr, store): does the access fault in a right design?
    Codes           \* cause codes

VARIABLES
    design,         \* "right" or "any"
    entry, store,   \* the entry of the table; its load or its store
    pc,             \* the next statement
    expect_trap, expect_cause, trap_seen,
    mtvec,          \* the trap handler: "boot", "test_fail" or "custom"
    result,         \* "pass", "fail" or "none"
    traps,          \* history: the traps during this access
    odd             \* history: a trap of the test was an interrupt or had code 0

testVars == <<design, entry, store, pc, expect_trap, expect_cause, trap_seen,
              mtvec, result, traps, odd>>

LdAccess == 5
StAccess == 7

ASSUME TableAssumption ==
    /\ Table \in Seq([adr : Int, readable : BOOLEAN, writeable : BOOLEAN])
    /\ Len(Table) > 0
    /\ {LdAccess, StAccess} \subseteq Codes /\ Codes \subseteq Nat

(* What mcause holds. *)
Traps == [code : Codes, interrupt : BOOLEAN]

allowed == IF store THEN Table[entry].writeable ELSE Table[entry].readable

access_cause == IF store THEN StAccess ELSE LdAccess

(* The trap that an access calls for if it is not allowed. *)
access_fault == [code |-> access_cause, interrupt |-> FALSE]

----------------------------------------------------------------------------
(* Mutant: the expectation is not withdrawn after a trap. *)
test_trap_handler_again(t) ==
    /\ IF expect_trap = 0 \/ t.code # expect_cause
       THEN result' = "fail" /\ UNCHANGED trap_seen
       ELSE trap_seen' = 1 /\ UNCHANGED result
    /\ UNCHANGED <<expect_trap, expect_cause>>

(* The test for an interrupt, "cause < 0", looks at the sign of an int, and *)
(* the interrupt bit of mcause is bit 63: only the code is compared.  The   *)
(* stepping over of an instruction is in access and in stray_trap.          *)
test_trap_handler(t) ==
    IF expect_trap = 0 \/ t.code # expect_cause
    THEN result' = "fail" /\ UNCHANGED <<expect_trap, expect_cause, trap_seen>>
    ELSE /\ expect_trap' = 0
         /\ expect_cause' = 0
         /\ trap_seen' = trap_seen + 1
         /\ UNCHANGED result

(* A trap goes to mtvec. *)
trap(t) ==
    /\ traps' = Append(traps, t)
    /\ odd' = (odd \/ t.interrupt \/ t.code = 0)
    /\ IF mtvec = "custom" THEN test_trap_handler(t)
       ELSE result' = "fail" /\ UNCHANGED <<expect_trap, expect_cause, trap_seen>>

----------------------------------------------------------------------------
(* test_address_load and test_address_store, up to the access. *)
set_mtvec ==
    /\ pc = "mtvec"
    /\ mtvec' = IF allowed THEN "test_fail" ELSE "custom"
    /\ pc' = "expect"
    /\ UNCHANGED <<design, entry, store, expect_trap, expect_cause, trap_seen, result, traps, odd>>

set_expect_trap ==
    /\ pc = "expect"
    /\ expect_trap' = IF allowed THEN 0 ELSE 1
    /\ pc' = "cause"
    /\ UNCHANGED <<design, entry, store, expect_cause, trap_seen, mtvec, result, traps, odd>>

set_expect_cause ==
    /\ pc = "cause"
    /\ expect_cause' = IF allowed THEN -1 ELSE access_cause
    /\ pc' = "access"
    /\ UNCHANGED <<design, entry, store, expect_trap, trap_seen, mtvec, result, traps, odd>>

no_trap == UNCHANGED <<expect_trap, expect_cause, trap_seen, result, traps, odd>>

(* The handler steps over the instruction that faults. *)
access ==
    /\ pc = "access"
    /\ IF design = "right"
       THEN IF Faults(Table[entry].adr, store) THEN trap(access_fault) ELSE no_trap
       ELSE no_trap \/ \E t \in Traps : trap(t)
    /\ pc' = "check"
    /\ UNCHANGED <<design, entry, store, mtvec>>

(* After the access. *)
check ==
    /\ pc = "check"
    /\ IF ~allowed /\ trap_seen # 1 THEN result' = "fail" /\ UNCHANGED pc
                                    ELSE pc' = "clear" /\ UNCHANGED result
    /\ UNCHANGED <<design, entry, store, expect_trap, expect_cause, trap_seen, mtvec, traps, odd>>

(* Mutant: trap_seen is not cleared. *)
clear_keeps ==
    /\ pc = "clear"
    /\ pc' = "restore"
    /\ UNCHANGED <<design, entry, store, expect_trap, expect_cause, trap_seen, mtvec, result, traps, odd>>

clear ==
    /\ pc = "clear"
    /\ trap_seen' = 0
    /\ pc' = "restore"
    /\ UNCHANGED <<design, entry, store, expect_trap, expect_cause, mtvec, result, traps, odd>>

(* Mutant: the trap handler of the boot code is not restored. *)
old_mtvec_lost == mtvec
old_mtvec      == "boot"

(* mtvec as it was, and the next access, or test_pass. *)
restore ==
    /\ pc = "restore"
    /\ mtvec' = old_mtvec
    /\ traps' = <<>>
    /\ pc' = "mtvec"
    /\ store' = ~store
    /\ entry' = IF store /\ entry < Len(Table) THEN entry + 1 ELSE entry
    /\ result' = IF store /\ entry = Len(Table) THEN "pass" ELSE "none"
    /\ UNCHANGED <<design, expect_trap, expect_cause, trap_seen, odd>>

(* The statement after the next one. *)
Then == [mtvec |-> "expect", expect |-> "cause", cause |-> "access",
         access |-> "check", check |-> "clear", clear |-> "restore",
         restore |-> "restore"]

(* A trap that no access of the test causes.  If the handler accepts it,   *)
(* it steps over an instruction of the next statement, which then may or   *)
(* may not have its effect.  (It accepts none before the last statement.)  *)
stray_trap ==
    /\ design = "any"
    /\ \E t \in Traps : trap(t)
    /\ pc' \in IF result' = "fail" THEN {pc} ELSE {pc, Then[pc]}
    /\ UNCHANGED <<design, entry, store, mtvec>>

----------------------------------------------------------------------------
(* boot.S has set mtvec and disabled the interrupts. *)
TestInit ==
    /\ design \in {"right", "any"}
    /\ entry = 1 /\ store = FALSE /\ pc = "mtvec"
    /\ expect_trap = 0 /\ expect_cause = 0 /\ trap_seen = 0
    /\ mtvec = "boot" /\ result = "none" /\ traps = <<>> /\ odd = FALSE

(* test_pass and test_fail are loops. *)
ended == result # "none" /\ UNCHANGED testVars

TestNext ==
    \/ result = "none" /\ (\/ set_mtvec \/ set_expect_trap \/ set_expect_cause
                            \/ access \/ check \/ clear \/ restore \/ stray_trap)
    \/ ended

TestSpec == TestInit /\ [][TestNext]_testVars

----------------------------------------------------------------------------
(* The traps that an access calls for. *)
AsExpected == traps = IF allowed THEN <<>> ELSE <<access_fault>>

(* The program's variables have their types; the handler that the boot     *)
(* code installed is back between two accesses.                            *)
TestTypeOK ==
    /\ design \in {"right", "any"}
    /\ entry \in 1 .. Len(Table) /\ store \in BOOLEAN
    /\ pc \in DOMAIN Then
    /\ expect_trap \in {0, 1} /\ expect_cause \in Codes \cup {0, -1} /\ trap_seen \in {0, 1}
    /\ mtvec \in {"boot", "test_fail", "custom"}
    /\ pc = "mtvec" => mtvec = "boot"
    /\ result \in {"none", "pass", "fail"}
    /\ traps \in Seq(Traps) /\ odd \in BOOLEAN

(* The test leaves an access behind and goes on. *)
GoesOn == result = "none" /\ result' # "fail" /\ (entry' # entry \/ store' # store)

(* access-traps.c:23-58, 92-111: the test goes on only from an access that *)
(* trapped as often as its table calls for: once or not at all, wherever   *)
(* the traps came.  And they were the right ones, unless a trap of the     *)
(* test was an interrupt or had code 0.                                    *)
OnlyExpectedPasses ==
    [][GoesOn => /\ Len(traps) = IF allowed THEN 0 ELSE 1
                 /\ odd \/ AsExpected]_testVars

(* access-traps.c:32-35: an interrupt fails the test.  Not so: the timer   *)
(* interrupt has code 7, as the store access fault has, and the bit that   *)
(* tells them apart is lost in the conversion to int.  Nor does a trap of  *)
(* code 0 (a misaligned jump) between lines 87 and 88, where expect_cause  *)
(* is still 0.  TLC refutes this property in both ways.                    *)
WrongTrapsFail == [][GoesOn => AsExpected]_testVars

(* The core complex as it is passes its test, and every design ends it.    *)
TestDecides == <>(IF design = "right" THEN result = "pass" ELSE result # "none")

=============================================================================
