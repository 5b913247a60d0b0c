---------------------------- MODULE ArtyFirmware ----------------------------
(***************************************************************************)
(* Programs of the Arty board (src/examples/arty-helloworld, src/bsp,      *)
(* src/csp) with the hardware they wait for: the UART, which is external   *)
(* and has two bounded FIFOs, and the timer and WFI of the core.           *)
(*                                                                         *)
(* A step is a clock cycle.  The program makes its next access in it or is *)
(* stalled.  Characters are numbers.  Time is relative: togo is how far    *)
(* mtime is below mtimecmp, and age how long ago the program read mtime.   *)
(***************************************************************************)
EXTENDS Integers, Sequences

CONSTANTS
    Msg1, Msg2,     \* the messages
    Delay,          \* the delay between them, in cycles
    Depth,          \* depth of the UART's FIFOs
    Chars, MaxRx,   \* the characters that arrive, and how many may
    Never           \* mtimecmp = -1, later than any time; also, no character

VARIABLES
    prog,           \* "hello", or a caller of "getc_b", "getc_nb" or "putc_nb"
    point,          \* the next access of the program
    nth,            \* the characters of the message that are written
    togo, age,      \* mtimecmp - mtime, and the cycles since mtime was read
    timer_interrupt,
    other_int,      \* int_ext or int_sw is up: inputs of the core complex, external
    rx_avail,       \* the variable of getc_nb
    tx_fifo, rx_fifo, \* the FIFOs of the UART
    out,            \* history: the characters the UART has transmitted
    arrived,        \* history: the characters rx has taken
    got             \* history: the characters that getc reports

boardVars == <<prog, point, nth, togo, age, timer_interrupt, other_int, rx_avail,
               tx_fifo, rx_fifo, out, arrived, got>>

ASSUME BoardAssumption ==
    /\ Msg1 \in Seq(Int) \ {<<>>} /\ Msg2 \in Seq(Int) \ {<<>>}
    /\ Delay \in Nat \ {0} /\ Depth \in Nat \ {0}
    /\ Chars \subseteq Int /\ MaxRx \in Nat
    /\ Never \notin Int

----------------------------------------------------------------------------
(* core_counters: mtime counts every cycle, so togo falls; one below zero   *)
(* is as good as any number.  The comparison is registered: it is that of   *)
(* the cycle before.  w is what this cycle writes to mtimecmp, or togo.     *)
passed(t) == IF t = Never \/ t = -1 THEN t ELSE t - 1

(* Mutant: the comparison is an equality. *)
timer_equal(w) ==
    /\ togo' = passed(w)
    /\ timer_interrupt' = (togo = 0)

timer(w) ==
    /\ togo' = passed(w)
    /\ timer_interrupt' = (togo # Never /\ togo <= 0)

aged == age' = IF age > Delay THEN age ELSE age + 1

----------------------------------------------------------------------------
(* The UART: characters leave tx and arrive in rx at any time.  A character *)
(* written to a full FIFO is lost; one that arrives at one changes nothing. *)
transmit == tx_fifo # <<>> /\ out' = Append(out, Head(tx_fifo)) /\ tx_fifo' = Tail(tx_fifo)

receive ==
    /\ Len(arrived) < MaxRx /\ Len(rx_fifo) < Depth
    /\ \E c \in Chars : arrived' = Append(arrived, c) /\ rx_fifo' = Append(rx_fifo, c)

uart == \/ transmit /\ UNCHANGED <<rx_fifo, arrived>>
        \/ prog \in {"getc_b", "getc_nb"} /\ receive /\ UNCHANGED <<tx_fifo, out>>

write_tx(c) == tx_fifo' = IF Len(tx_fifo) < Depth THEN Append(tx_fifo, c) ELSE tx_fifo

----------------------------------------------------------------------------
(* croyde_bsp_putc_b in the loop over a message. *)
msg == IF point \in {"stat1", "tx1"} THEN Msg1 ELSE Msg2

(* Mutant: the character is written after one look at the status. *)
putc_b_stat_once(stat, send) ==
    /\ point = stat
    /\ point' = send
    /\ UNCHANGED <<nth, tx_fifo>>

putc_b_stat(stat, send) ==
    /\ point = stat
    /\ point' = IF Len(tx_fifo) = Depth THEN stat ELSE send
    /\ UNCHANGED <<nth, tx_fifo>>

putc_b_tx(stat, send, next) ==
    /\ point = send
    /\ write_tx(msg[nth + 1])
    /\ IF nth + 1 < Len(msg) THEN nth' = nth + 1 /\ point' = stat ELSE nth' = 0 /\ point' = next

(* __fsbl_main: the accesses of the program.  An instruction is in the      *)
(* writeback stage in the cycle after its access, and the WFI behind it no  *)
(* earlier than in the cycle after that.                                    *)
message == /\ \/ putc_b_stat("stat1", "tx1") \/ putc_b_tx("stat1", "tx1", "rd_mtime")
              \/ putc_b_stat("stat2", "tx2") \/ putc_b_tx("stat2", "tx2", "wr_never")
           /\ timer(togo) /\ aged

rd_mtime == /\ point = "rd_mtime" /\ point' = "wr_mtimecmp"
            /\ timer(togo) /\ age' = 1
            /\ UNCHANGED <<nth, tx_fifo>>

(* Mutant: the delay is not added. *)
wr_mtimecmp_now == /\ point = "wr_mtimecmp" /\ point' = "wb1"
                   /\ timer(-1) /\ aged
                   /\ UNCHANGED <<nth, tx_fifo>>

(* The value was computed from the mtime that was read. *)
wr_mtimecmp == /\ point = "wr_mtimecmp" /\ point' = "wb1"
               /\ timer(IF age > Delay THEN -1 ELSE Delay - age) /\ aged
               /\ UNCHANGED <<nth, tx_fifo>>

(* Mutant: WFI is in writeback in the cycle after the store. *)
wr_never_soon == /\ point = "wr_never" /\ point' = "wfi2"
                 /\ timer(Never) /\ aged
                 /\ UNCHANGED <<nth, tx_fifo>>

wr_never == /\ point = "wr_never" /\ point' = "wb2"
            /\ timer(Never) /\ aged
            /\ UNCHANGED <<nth, tx_fifo>>

writeback == /\ \/ point = "wb1" /\ point' = "wfi1"
                \/ point = "wb2" /\ point' = "wfi2"
             /\ timer(togo) /\ aged
             /\ UNCHANGED <<nth, tx_fifo>>

(* Any of the three lines counts, whether or not its interrupt is enabled. *)
int_pending == timer_interrupt \/ other_int

(* WFI leaves the writeback stage when it has seen int_pending; the program *)
(* does not look at what woke it.  Behind the second WFI __fsbl_main ends,  *)
(* and the core runs into whatever follows it: from there on no access is   *)
(* modelled.                                                                *)
wfi == /\ int_pending
       /\ point \in {"wfi1", "wfi2"}
       /\ point' = IF point = "wfi1" THEN "stat2" ELSE "off_the_end"
       /\ timer(togo) /\ aged
       /\ UNCHANGED <<nth, tx_fifo>>

hello == /\ prog = "hello"
         /\ message \/ rd_mtime \/ wr_mtimecmp \/ wr_never \/ writeback \/ wfi
         /\ UNCHANGED <<rx_avail, rx_fifo, out, arrived, got>>

----------------------------------------------------------------------------
(* The other functions of the BSP, called again and again.  A read of an    *)
(* empty rx returns nothing of use.                                         *)
(* Mutant: the status is not waited for. *)
getc_stat_once == /\ point = "stat" /\ point' = "rx"
                  /\ rx_avail' = TRUE
                  /\ UNCHANGED <<rx_fifo, got>>

getc_stat == /\ point = "stat"
             /\ rx_avail' = (rx_fifo # <<>>)
             /\ point' = IF prog = "getc_b" /\ rx_fifo = <<>> THEN "stat" ELSE "rx"
             /\ UNCHANGED <<rx_fifo, got>>

getc_rx == /\ point = "rx" /\ point' = "stat"
           /\ rx_fifo' = IF rx_fifo = <<>> THEN rx_fifo ELSE Tail(rx_fifo)
           /\ got' = IF rx_avail THEN Append(got, IF rx_fifo = <<>> THEN Never ELSE Head(rx_fifo)) ELSE got
           /\ UNCHANGED rx_avail

getc == /\ prog \in {"getc_b", "getc_nb"}
        /\ getc_stat \/ getc_rx
        /\ timer(togo) /\ aged
        /\ UNCHANGED <<nth, tx_fifo, out, arrived>>

putc_nb == /\ prog = "putc_nb" /\ point = "tx"
           /\ write_tx(Msg1[nth + 1])
           /\ nth' = nth + 1
           /\ point' = IF nth + 1 < Len(Msg1) THEN "tx" ELSE "done"
           /\ timer(togo) /\ aged
           /\ UNCHANGED <<rx_avail, rx_fifo, out, arrived, got>>

----------------------------------------------------------------------------
(* A cycle in which the program is stalled. *)
stalled == /\ timer(togo) /\ aged
           /\ UNCHANGED <<point, nth, rx_avail, tx_fifo, rx_fifo, out, arrived, got>>

(* One in which a character moves as well: the program's access sees the    *)
(* UART before it or after it.                                              *)
moves == uart /\ UNCHANGED <<point, nth, rx_avail, got, togo, age, timer_interrupt>>

(* The other interrupt lines change in every cycle; only WFI looks at them. *)
Lines == IF prog = "hello" THEN BOOLEAN ELSE {FALSE}

BoardInit ==
    /\ prog \in {"hello", "getc_b", "getc_nb", "putc_nb"}
    /\ point = CASE prog = "hello" -> "stat1" [] prog = "putc_nb" -> "tx" [] OTHER -> "stat"
    /\ nth = 0 /\ togo = Never /\ age = 0 /\ timer_interrupt = FALSE /\ rx_avail = FALSE
    /\ other_int \in Lines
    /\ tx_fifo = <<>> /\ rx_fifo = <<>> /\ out = <<>> /\ arrived = <<>> /\ got = <<>>

accesses == hello \/ getc \/ putc_nb

cycle == (accesses \/ stalled) /\ other_int' \in Lines

BoardNext == (cycle \/ (moves /\ UNCHANGED other_int)) /\ UNCHANGED prog

BoardSpec == BoardInit /\ [][BoardNext]_boardVars

(* The parts of a step that happen in the end: the clock runs, an access is *)
(* answered, and the UART transmits.                                        *)
transmits == transmit /\ UNCHANGED <<point, nth, rx_avail, rx_fifo, arrived, got, togo, age, timer_interrupt>>
InTheEnd == {"access", "clock", "transmit"}
Part(f) == /\ CASE f = "access"   -> accesses /\ other_int' \in Lines
                [] f = "clock"    -> stalled /\ other_int' \in Lines
                [] f = "transmit" -> transmits /\ UNCHANGED other_int
           /\ UNCHANGED prog

----------------------------------------------------------------------------
(* A message is printed complete and in order: putc_b never writes to a    *)
(* full FIFO, whatever the delay between its two accesses.                 *)
Written == CASE point \in {"stat1", "tx1"} -> SubSeq(Msg1, 1, nth)
             [] point \in {"stat2", "tx2"} -> Msg1 \o SubSeq(Msg2, 1, nth)
             [] point \in {"rd_mtime", "wr_mtimecmp", "wb1", "wfi1"} -> Msg1
             [] OTHER -> Msg1 \o Msg2

MessagesIntact == prog = "hello" => out \o tx_fifo = Written

(* The timer does not wake the program before its delay is over: only      *)
(* another interrupt line does, for the program takes any wake-up for the  *)
(* end of its delay (arty_helloworld.c:23-28, core_interrupts.sv:61-63).   *)
NoEarlyWake == [][point = "wfi1" /\ point' = "stat2" => age > Delay \/ other_int]_boardVars

(* The timer interrupt that ended the first WFI does not end the second:   *)
(* it is withdrawn before the WFI could see it, so that only another line  *)
(* sends the program off its end (arty_helloworld.c:30-33,                 *)
(* core_counters.sv:85-91).                                                *)
OldTimerNeverWakes == [][point = "wfi2" /\ point' # point => other_int]_boardVars

(* A blocking reader gets every character that the UART has taken, once    *)
(* and in order, and no reader is told of a character that was not there:  *)
(* nothing else empties rx between the two accesses (bsp_arty.c:25-39).    *)
ReaderExact ==
    /\ prog = "getc_b" => got \o rx_fifo = arrived
    /\ \A k \in DOMAIN got : got[k] # Never

(* Both messages are printed in the end: however late mtimecmp is written, *)
(* the timer interrupt is not missed.  And the program then sleeps, unless *)
(* int_ext or int_sw is up while it does.                                  *)
SaysHello ==
    prog = "hello" =>
        /\ <>(out = Msg1 \o Msg2)
        /\ [](point = "wfi2" => ~other_int) => <>[](point = "wfi2" /\ out = Msg1 \o Msg2)

=============================================================================
