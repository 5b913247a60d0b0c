------------------------- MODULE AccessTraps_proofs -------------------------
(***************************************************************************)
(* What the access fault test shows, for every table, every set of cause   *)
(* codes, 0 among them, and every design: it passes only a design that     *)
(* traps as often as the table says, and with the causes the table says    *)
(* unless a trap of the test is an interrupt or has code 0.                *)
(***************************************************************************)
EXTENDS AccessTraps, TLAPS

(* The handler accepts no trap but one of code 0, if nothing odd was seen. *)
NoCause == ~odd => expect_cause \in {0, -1}

(* Between two accesses nothing is expected and nothing has been seen. *)
Quiet == expect_trap = 0 /\ trap_seen = 0 /\ traps = <<>> /\ NoCause

(* An access that must trap: a trap is expected, but no cause yet; the     *)
(* trap is awaited; or one has come.                                       *)
Prepared == expect_trap = 1 /\ trap_seen = 0 /\ traps = <<>> /\ NoCause
Awaited  == expect_trap = 1 /\ trap_seen = 0 /\ traps = <<>> /\ expect_cause = access_cause
Right    == Len(traps) = 1 /\ (~odd => traps = <<access_fault>>) /\ NoCause
Come     == expect_trap = 0 /\ trap_seen = 1 /\ Right

(* Where the program is says what its variables and the traps so far are.  *)
(* Only an odd trap comes before the cause is set.                         *)
Stage ==
    /\ pc = "mtvec" => Quiet
    /\ pc = "expect" => Quiet
    /\ pc = "cause" => IF allowed THEN Quiet ELSE Prepared \/ (Come /\ odd)
    /\ pc \in {"access", "check"} => IF allowed THEN Quiet ELSE Awaited \/ Come
    /\ pc = "clear" => IF allowed THEN Quiet ELSE Come
    /\ pc = "restore" => /\ expect_trap = 0 /\ trap_seen = 0
                         /\ IF allowed THEN traps = <<>> /\ NoCause ELSE Right

(* The trap handler that belongs to the place.                             *)
Handler == mtvec = IF pc = "mtvec" THEN "boot"
                   ELSE IF allowed THEN "test_fail" ELSE "custom"

(* The inductive invariant: a test that goes on is at its stage.           *)
TestInv == TestTypeOK /\ (result = "none" => Stage /\ Handler)

(* The test starts in the invariant.                                       *)
LEMMA TestInit_Inv == TestInit => TestInv
<1> SUFFICES ASSUME TestInit PROVE TestInv
  OBVIOUS
<1>1. entry \in 1 .. Len(Table)
  BY TableAssumption DEF TestInit
<1>2. traps \in Seq(Traps)
  BY DEF TestInit
<1> QED BY <1>1, <1>2
        DEF TestInit, TestInv, TestTypeOK, Then, Stage, Handler, Quiet, NoCause

(* What an access calls for is a trap. *)
LEMMA CauseType == access_cause \in Codes /\ access_fault \in Traps
BY TableAssumption DEF access_cause, access_fault, Traps

(* A trap during a test that goes on either ends it or is accepted, and    *)
(* then it is the one awaited or an odd one.                               *)
LEMMA TrapStep ==
    ASSUME TestInv, result = "none", NEW t \in Traps, trap(t)
    PROVE  /\ traps' \in Seq(Traps) /\ odd' \in BOOLEAN
           /\ expect_trap' \in {0, 1} /\ expect_cause' \in Codes \cup {0, -1}
           /\ trap_seen' \in {0, 1} /\ result' \in {"none", "fail"}
           /\ result' = "none" =>
                /\ pc \in {"cause", "access", "check"} /\ ~allowed
                /\ expect_trap' = 0 /\ expect_cause' = 0 /\ trap_seen' = 1
                /\ Len(traps') = 1 /\ (~odd' => traps' = <<access_fault>>)
                /\ pc = "cause" => odd'
<1>t. t.code \in Codes /\ t.code \in Nat /\ t.interrupt \in BOOLEAN
      /\ t = [code |-> t.code, interrupt |-> t.interrupt]
  BY TableAssumption DEF Traps
<1>1. traps' \in Seq(Traps) /\ odd' \in BOOLEAN
  BY DEF TestInv, TestTypeOK, trap
<1>2. CASE result' = "fail"
  <2>1. UNCHANGED <<expect_trap, expect_cause, trap_seen>>
    BY <1>2 DEF trap, test_trap_handler
  <2> QED BY <1>1, <1>2, <2>1 DEF TestInv, TestTypeOK
<1>3. CASE result' # "fail"
  <2>1. /\ mtvec = "custom" /\ expect_trap = 1 /\ t.code = expect_cause
        /\ expect_trap' = 0 /\ expect_cause' = 0 /\ trap_seen' = trap_seen + 1
        /\ result' = "none" /\ traps' = Append(traps, t)
        /\ odd' = (odd \/ t.interrupt \/ t.code = 0)
    BY <1>3 DEF TestInv, TestTypeOK, trap, test_trap_handler
  <2>2. ~allowed /\ ((pc = "cause" /\ Prepared) \/ (pc \in {"access", "check"} /\ Awaited))
    <3>1. pc # "mtvec" /\ ~allowed
      BY <2>1 DEF TestInv, Handler
    <3>2. pc \in {"expect", "cause", "access", "check", "clear", "restore"}
      BY <3>1 DEF TestInv, TestTypeOK, Then
    <3>3. Stage /\ expect_trap # 0
      BY <2>1 DEF TestInv
    <3>4. pc \notin {"expect", "clear", "restore"}
      BY <3>1, <3>3 DEF Stage, Quiet, Come
    <3>5. CASE pc = "cause"
      BY <3>1, <3>3, <3>5 DEF Stage, Come
    <3>6. CASE pc \in {"access", "check"}
      BY <3>1, <3>3, <3>6 DEF Stage, Come
    <3> QED BY <3>1, <3>2, <3>4, <3>5, <3>6
  <2>3. trap_seen' = 1 /\ traps' = <<t>> /\ Len(traps') = 1
    <3>1. trap_seen = 0 /\ traps = <<>>
      BY <2>2 DEF Awaited, Prepared
    <3>2. Append(<<>>, t) = <<t>> /\ Len(<<t>>) = 1
      OBVIOUS
    <3> QED BY <2>1, <3>1, <3>2
  <2>4. pc = "cause" => odd'
    <3>1. ASSUME pc = "cause", ~odd PROVE t.code = 0
      BY <1>t, <2>1, <2>2, <3>1 DEF Prepared, NoCause
    <3> QED BY <2>1, <3>1
  <2>5. ~odd' => t = access_fault
    BY <1>t, <2>1, <2>2, <2>4 DEF Awaited, access_fault
  <2> QED BY <1>1, <2>1, <2>2, <2>3, <2>4, <2>5
<1> QED BY <1>2, <1>3

(* The same expectation for the same access. *)
LEMMA SameAccess ==
    ASSUME UNCHANGED <<entry, store>>
    PROVE  /\ allowed' = allowed /\ access_cause' = access_cause
           /\ access_fault' = access_fault
BY DEF allowed, access_cause, access_fault

(* An accepted trap leaves the program at a stage. *)
LEMMA AcceptedStage ==
    ASSUME TestInv, result = "none", NEW t \in Traps, trap(t), result' = "none",
           UNCHANGED <<design, entry, store, mtvec>>,
           \/ pc' = pc
           \/ pc' = Then[pc]
    PROVE  Stage' /\ Handler' /\ pc' \in DOMAIN Then
<1>1. /\ pc \in {"cause", "access", "check"} /\ ~allowed /\ odd' \in BOOLEAN
      /\ expect_trap' = 0 /\ expect_cause' = 0 /\ trap_seen' = 1
      /\ Len(traps') = 1 /\ (~odd' => traps' = <<access_fault>>)
      /\ pc = "cause" => odd'
  BY TrapStep
<1>2. ~allowed' /\ access_fault' = access_fault
  BY <1>1, SameAccess
<1>3. Come'
  BY <1>1, <1>2 DEF Come, Right, NoCause
<1>4. pc' \in {"cause", "access", "check", "clear"} /\ (pc' = "cause" => odd')
  BY <1>1 DEF Then
<1>5. Stage'
  BY <1>2, <1>3, <1>4 DEF Stage
<1>6. Handler'
  BY <1>1, <1>2, <1>4 DEF Handler, TestInv
<1> QED BY <1>4, <1>5, <1>6 DEF Then

(* Every step of the test keeps the invariant. *)
LEMMA TestNext_Inv ==
    ASSUME TestInv, [TestNext]_testVars
    PROVE  TestInv'
<1> USE DEF TestInv
<1>1. CASE UNCHANGED testVars
  <2>1. allowed' = allowed /\ access_cause' = access_cause /\ access_fault' = access_fault
    BY <1>1, SameAccess DEF testVars
  <2> QED BY <1>1, <2>1 DEF testVars, TestTypeOK, Stage, Handler, Quiet, Prepared,
             Awaited, Right, Come, NoCause
<1>2. CASE result = "none" /\ set_mtvec
  <2>1. allowed' = allowed
    BY <1>2, SameAccess DEF set_mtvec
  <2> QED BY <1>2, <2>1 DEF set_mtvec, TestTypeOK, Then, Stage, Handler, Quiet, NoCause
<1>3. CASE result = "none" /\ set_expect_trap
  <2>1. allowed' = allowed
    BY <1>3, SameAccess DEF set_expect_trap
  <2> QED BY <1>3, <2>1 DEF set_expect_trap, TestTypeOK, Then, Stage, Handler, Quiet,
             Prepared, NoCause
<1>4. CASE result = "none" /\ set_expect_cause
  <2>1. allowed' = allowed /\ access_cause' = access_cause /\ access_fault' = access_fault
    BY <1>4, SameAccess DEF set_expect_cause
  <2>2. access_cause \in Codes
    BY CauseType
  <2> QED BY <1>4, <2>1, <2>2
          DEF set_expect_cause, TestTypeOK, Then, Stage, Handler, Quiet, Prepared,
              Awaited, Right, Come, NoCause
<1>5. CASE result = "none" /\ access
  <2>1. allowed' = allowed /\ access_cause' = access_cause /\ access_fault' = access_fault
    BY <1>5, SameAccess DEF access
  <2>2. CASE no_trap
    BY <1>5, <2>1, <2>2 DEF access, no_trap, TestTypeOK, Then, Stage, Handler, Quiet,
       Awaited, Right, Come, NoCause
  <2>3. CASE ~no_trap
    <3>1. PICK t \in Traps : trap(t)
      BY <1>5, <2>3, CauseType DEF access
    <3>2. pc' = "check" /\ pc' = Then[pc] /\ UNCHANGED <<design, entry, store, mtvec>>
      BY <1>5 DEF access, Then
    <3>3. TestTypeOK'
      BY <3>1, <3>2, <1>5, TrapStep DEF TestTypeOK, Then
    <3>4. result' = "none" => Stage' /\ Handler'
      BY <1>5, <3>1, <3>2, AcceptedStage
    <3> QED BY <3>3, <3>4
  <2> QED BY <2>2, <2>3
<1>6. CASE result = "none" /\ check
  <2>1. allowed' = allowed /\ access_cause' = access_cause /\ access_fault' = access_fault
    BY <1>6, SameAccess DEF check
  <2> QED BY <1>6, <2>1 DEF check, TestTypeOK, Then, Stage, Handler, Quiet, Awaited,
             Right, Come, NoCause
<1>7. CASE result = "none" /\ clear
  <2>1. allowed' = allowed /\ access_cause' = access_cause /\ access_fault' = access_fault
    BY <1>7, SameAccess DEF clear
  <2> QED BY <1>7, <2>1 DEF clear, TestTypeOK, Then, Stage, Handler, Quiet, Right,
             Come, NoCause
<1>8. CASE result = "none" /\ restore
  <2>1. /\ mtvec' = "boot" /\ traps' = <<>> /\ pc' = "mtvec" /\ store' = ~store
        /\ entry' = IF store /\ entry < Len(Table) THEN entry + 1 ELSE entry
        /\ result' = IF store /\ entry = Len(Table) THEN "pass" ELSE "none"
        /\ UNCHANGED <<design, expect_trap, expect_cause, trap_seen, odd>>
    BY <1>8 DEF restore, old_mtvec
  <2>2. entry' \in 1 .. Len(Table) /\ store' \in BOOLEAN
    BY <2>1, TableAssumption DEF TestTypeOK
  <2>3. expect_trap = 0 /\ trap_seen = 0 /\ NoCause
    BY <1>8 DEF restore, Stage, Right
  <2>4. traps' \in Seq(Traps)
    BY <2>1
  <2> QED BY <2>1, <2>2, <2>3, <2>4
          DEF TestTypeOK, Then, Stage, Handler, Quiet, NoCause
<1>9. CASE result = "none" /\ stray_trap
  <2>1. PICK t \in Traps : trap(t)
    BY <1>9 DEF stray_trap
  <2>2. /\ UNCHANGED <<design, entry, store, mtvec>>
        /\ IF result' = "fail" THEN pc' = pc ELSE pc' = pc \/ pc' = Then[pc]
    BY <1>9 DEF stray_trap
  <2>3. result' = "none" => Stage' /\ Handler' /\ pc' \in DOMAIN Then
    BY <1>9, <2>1, <2>2, AcceptedStage
  <2>4. result' = "none" \/ result' = "fail"
    BY <1>9, <2>1, TrapStep
  <2>5. pc' = "mtvec" => mtvec' = "boot"
    BY <2>2, <2>3, <2>4 DEF Handler, TestTypeOK
  <2>6. TestTypeOK'
    BY <1>9, <2>1, <2>2, <2>3, <2>4, <2>5, TrapStep DEF TestTypeOK
  <2> QED BY <2>3, <2>4, <2>6
<1>10. CASE ended
  BY <1>1, <1>10 DEF ended
<1> QED BY <1>1, <1>2, <1>3, <1>4, <1>5, <1>6, <1>7, <1>8, <1>9, <1>10 DEF TestNext

(* access-traps.c: the invariant holds in every run of the test on every   *)
(* design, with every set of cause codes.                                  *)
THEOREM TestInvariant == TestSpec => []TestInv
BY TestInit_Inv, TestNext_Inv, PTL DEF TestSpec

(* The program's variables keep their types: trap_seen in particular never *)
(* counts a second trap, and the handler of the boot code is back between  *)
(* two accesses (access-traps.c:23-58, 111, 168).                          *)
THEOREM TestTypes == TestSpec => []TestTypeOK
<1>1. TestInv => TestTypeOK
  BY DEF TestInv
<1> QED BY <1>1, TestInvariant, PTL

(* A step that leaves an access behind leaves one that trapped as it must. *)
LEMMA Leaves ==
    ASSUME TestInv, TestNext, GoesOn
    PROVE  Len(traps) = (IF allowed THEN 0 ELSE 1) /\ (odd \/ AsExpected)
<1>1. restore /\ result = "none"
  BY DEF TestNext, GoesOn, ended, testVars, set_mtvec, set_expect_trap,
     set_expect_cause, access, check, clear, stray_trap
<1>2. IF allowed THEN traps = <<>> ELSE Right
  BY <1>1 DEF restore, TestInv, Stage
<1>3. odd \in BOOLEAN
  BY DEF TestInv, TestTypeOK
<1> QED BY <1>2, <1>3 DEF Right, AsExpected

(* Whatever the design does, the test goes on only from an access with as  *)
(* many traps as its table calls for, and with the very traps if none of   *)
(* the test was an interrupt or had code 0 (access-traps.c:64-171).        *)
THEOREM TestSound == TestSpec => OnlyExpectedPasses
<1>1. TestInv /\ [TestNext]_testVars =>
        [GoesOn => /\ Len(traps) = IF allowed THEN 0 ELSE 1
                   /\ odd \/ AsExpected]_testVars
  BY Leaves DEF testVars
<1> QED BY <1>1, TestInvariant, PTL DEF TestSpec, OnlyExpectedPasses

=============================================================================
