------------------------ MODULE ArtyFirmware_proofs ------------------------
(***************************************************************************)
(* The programs of the Arty board, for every pair of messages, every       *)
(* delay, every depth of the UART's FIFOs and however the core and the     *)
(* UART are delayed.                                                       *)
(***************************************************************************)
EXTENDS ArtyFirmware, SequenceTheorems, TLAPS

Points1 == {"stat1", "tx1"}
Points2 == {"stat2", "tx2"}

HelloPoints == Points1 \cup Points2
    \cup {"rd_mtime", "wr_mtimecmp", "wb1", "wfi1", "wr_never", "wb2", "wfi2", "off_the_end"}

(* What the variables hold.  Every character is a character. *)
BoardType ==
    /\ prog \in {"hello", "getc_b", "getc_nb", "putc_nb"}
    /\ nth \in Nat
    /\ togo \in Int \cup {Never} /\ age \in Nat
    /\ timer_interrupt \in BOOLEAN /\ rx_avail \in BOOLEAN
    /\ tx_fifo \in Seq(Int) /\ rx_fifo \in Seq(Int)
    /\ out \in Seq(Int) /\ arrived \in Seq(Int) /\ got \in Seq(Int)
    /\ prog = "hello" => point \in HelloPoints
    /\ prog = "putc_nb" => point \in {"tx", "done"}
    /\ prog \in {"getc_b", "getc_nb"} => point \in {"stat", "rx"}

(* The position in a message, and room for its next character once the     *)
(* status has been seen: only the program puts characters into tx.         *)
Position ==
    /\ prog = "hello" =>
         /\ point \in Points1 => nth < Len(Msg1)
         /\ point \in Points2 => nth < Len(Msg2)
         /\ point \notin Points1 \cup Points2 => nth = 0
         /\ Len(tx_fifo) <= Depth
         /\ point \in {"tx1", "tx2"} => Len(tx_fifo) < Depth
    /\ prog = "putc_nb" /\ point = "tx" => nth < Len(Msg1)

(* The timer at each point of the program. *)
Timer ==
    /\ point \in Points1 \cup {"rd_mtime", "wr_mtimecmp"} =>
         togo = Never /\ ~timer_interrupt
    /\ point \in {"wb1", "wfi1"} =>
         /\ togo \in Int
         /\ age <= Delay => togo = Delay - age /\ ~timer_interrupt
    /\ point = "wb2" => togo = Never
    /\ point = "wfi2" => togo = Never /\ ~timer_interrupt

(* What a reader has seen is still there when it reads. *)
Seen == prog \in {"getc_b", "getc_nb"} /\ point = "rx" =>
          /\ rx_avail => rx_fifo # <<>>
          /\ prog = "getc_b" => rx_avail

(* The inductive invariant. *)
BoardInv ==
    /\ BoardType
    /\ Position
    /\ prog = "hello" => Timer
    /\ Seen
    /\ MessagesIntact
    /\ ReaderExact

----------------------------------------------------------------------------
(* Moving the head of one sequence to the end of another keeps their       *)
(* concatenation.                                                          *)
LEMMA MoveHead ==
    ASSUME NEW s \in Seq(Int), NEW t \in Seq(Int), t # <<>>
    PROVE  Append(s, Head(t)) \o Tail(t) = s \o t
<1>1. Head(t) \in Int /\ Tail(t) \in Seq(Int) /\ <<Head(t)>> \in Seq(Int)
  BY HeadTailProperties
<1>2. <<Head(t)>> \o Tail(t) = t
  <2>1. /\ Len(t) \in Nat \ {0} /\ Len(Tail(t)) = Len(t) - 1
        /\ \A k \in 1 .. Len(Tail(t)) : Tail(t)[k] = t[k + 1]
    BY HeadTailProperties, EmptySeq
  <2>2. Head(t) = t[1]
    OBVIOUS
  <2>3. /\ <<Head(t)>> \o Tail(t) \in Seq(Int) /\ Len(<<Head(t)>> \o Tail(t)) = Len(t)
        /\ \A k \in 1 .. Len(t) : (<<Head(t)>> \o Tail(t))[k]
                = IF k <= 1 THEN <<Head(t)>>[k] ELSE Tail(t)[k - 1]
    BY <1>1, <2>1, ConcatProperties
  <2>4. \A k \in 1 .. Len(t) : (<<Head(t)>> \o Tail(t))[k] = t[k]
    BY <2>1, <2>2, <2>3
  <2> QED BY <2>3, <2>4, SeqEqual
<1>3. Append(s, Head(t)) = s \o <<Head(t)>>
  BY <1>1, AppendIsConcat
<1>4. (s \o <<Head(t)>>) \o Tail(t) = s \o (<<Head(t)>> \o Tail(t))
  BY <1>1, ConcatAssociative
<1> QED BY <1>2, <1>3, <1>4

(* A character appended to the second is appended to the concatenation. *)
LEMMA ConcatAppend ==
    ASSUME NEW s \in Seq(Int), NEW t \in Seq(Int), NEW c \in Int
    PROVE  s \o Append(t, c) = Append(s \o t, c)
<1>1. <<c>> \in Seq(Int) /\ s \o t \in Seq(Int)
  BY ConcatProperties
<1>2. Append(t, c) = t \o <<c>> /\ Append(s \o t, c) = (s \o t) \o <<c>>
  BY <1>1, AppendIsConcat
<1> QED BY <1>1, <1>2, ConcatAssociative

(* A message grows by its next character. *)
LEMMA NextCharacter ==
    ASSUME NEW m \in Seq(Int), NEW n \in Nat, n < Len(m)
    PROVE  /\ m[n + 1] \in Int /\ SubSeq(m, 1, n) \in Seq(Int)
           /\ Append(SubSeq(m, 1, n), m[n + 1]) = SubSeq(m, 1, n + 1)
           /\ n + 1 >= Len(m) => SubSeq(m, 1, n + 1) = m
<1>1. Len(m) \in Nat /\ n + 1 \in 1 .. Len(m)
  BY LenProperties
<1>2. m[n + 1] \in Int
  BY <1>1, ElementOfSeq
<1>3. SubSeq(m, 1, n) \in Seq(Int)
  <2>1. \A k \in 1 .. n : m[k] \in Int
    BY <1>1, ElementOfSeq
  <2> QED BY <2>1, SubSeqProperties
<1>4. SubSeq(m, 1, n + 1) = SubSeq(m, 1, n) \o <<m[n + 1]>>
  <2>1. SubSeq(m, 1, n + 1) = SubSeq(m, 1, (n + 1) - 1) \o <<m[n + 1]>>
    BY <1>1, SubSeqRecursiveSecond
  <2> QED BY <2>1
<1>5. n + 1 >= Len(m) => SubSeq(m, 1, n + 1) = m
  <2>1. n + 1 >= Len(m) => n + 1 = Len(m)
    BY <1>1
  <2> QED BY <2>1, SubSeqFull
<1> QED BY <1>2, <1>3, <1>4, <1>5, AppendIsConcat

(* The board starts in the invariant.                                      *)
LEMMA BoardInit_Inv == BoardInit => BoardInv
<1> SUFFICES ASSUME BoardInit PROVE BoardInv
  OBVIOUS
<1>1. <<>> \in Seq(Int) /\ <<>> \o <<>> = <<>>
  BY EmptySeq, ConcatEmptySeq
<1>2. Len(Msg1) > 0 /\ Len(<<>>) <= Depth
  BY BoardAssumption, EmptySeq
<1>3. BoardType /\ Position /\ (prog = "hello" => Timer) /\ Seen
  BY <1>1, <1>2 DEF BoardInit, BoardType, Position, Timer, Seen, HelloPoints, Points1, Points2
<1>4. MessagesIntact
  <2>1. SubSeq(Msg1, 1, 0) = <<>>
    BY SubSeqEmpty
  <2> QED BY <1>1, <2>1 DEF BoardInit, MessagesIntact, Written
<1>5. ReaderExact
  BY <1>1 DEF BoardInit, ReaderExact
<1> QED BY <1>3, <1>4, <1>5 DEF BoardInv

(* A character written by the program, with room in tx. *)
LEMMA WriteStep ==
    ASSUME BoardInv, NEW m \in {Msg1, Msg2}, nth < Len(m), Len(tx_fifo) < Depth,
           write_tx(m[nth + 1]), UNCHANGED out
    PROVE  /\ m[nth + 1] \in Int /\ tx_fifo' \in Seq(Int)
           /\ out' \o tx_fifo' = Append(out \o tx_fifo, m[nth + 1])
<1>1. m \in Seq(Int) /\ nth \in Nat /\ tx_fifo \in Seq(Int) /\ out \in Seq(Int)
  BY BoardAssumption DEF BoardInv, BoardType
<1>2. m[nth + 1] \in Int
  BY <1>1, NextCharacter
<1>3. tx_fifo' = Append(tx_fifo, m[nth + 1])
  BY DEF write_tx
<1> QED BY <1>1, <1>2, <1>3, ConcatAppend, AppendProperties

(* The timer of a cycle that writes w to mtimecmp, or leaves it. *)
LEMMA TimerStep ==
    ASSUME BoardType, NEW w \in Int \cup {Never}, timer(w)
    PROVE  /\ togo' \in Int \cup {Never} /\ timer_interrupt' \in BOOLEAN
           /\ w = Never => togo' = Never
           /\ w \in Int => togo' \in Int
           /\ w \in Nat => togo' = w - 1
           /\ togo = Never => ~timer_interrupt'
           /\ togo \in Int /\ togo > 0 => ~timer_interrupt'
<1>1. togo' = IF w = Never \/ w = -1 THEN w ELSE w - 1
  BY DEF timer, passed
<1>2. /\ togo' \in Int \cup {Never}
      /\ w = Never => togo' = Never
      /\ w \in Int => togo' \in Int
      /\ w \in Nat => togo' = w - 1
  BY <1>1, BoardAssumption
<1>3. timer_interrupt' = (togo # Never /\ togo <= 0)
  BY DEF timer
<1>4. togo \in Int /\ togo > 0 => ~(togo <= 0)
  OBVIOUS
<1>5. timer_interrupt' \in BOOLEAN
  BY <1>3, Zenon
<1>6. togo = Never => ~timer_interrupt'
  BY <1>3, Zenon
<1>7. togo \in Int /\ togo > 0 => ~timer_interrupt'
  BY <1>3, <1>4, Zenon
<1> QED BY <1>2, <1>5, <1>6, <1>7

(* A cycle that leaves mtimecmp alone. *)
LEMMA Tick ==
    ASSUME BoardInv, prog = "hello", timer(togo), aged
    PROVE  /\ togo' \in Int \cup {Never} /\ age' \in Nat /\ timer_interrupt' \in BOOLEAN
           /\ point \in Points1 \cup {"rd_mtime", "wr_mtimecmp", "wb2", "wfi2"} =>
                togo' = Never /\ ~timer_interrupt'
           /\ point \in {"wb1", "wfi1"} =>
                /\ togo' \in Int
                /\ age' <= Delay => togo' = Delay - age' /\ ~timer_interrupt'
<1>1. togo \in Int \cup {Never} /\ age \in Nat /\ BoardType /\ Timer
  BY DEF BoardInv, BoardType
<1>2. age' \in Nat /\ (age' <= Delay => age' = age + 1 /\ age <= Delay)
  BY <1>1, BoardAssumption DEF aged
<1>3. /\ togo' \in Int \cup {Never} /\ timer_interrupt' \in BOOLEAN
      /\ togo = Never => togo' = Never /\ ~timer_interrupt'
      /\ togo \in Int => togo' \in Int
      /\ togo \in Nat => togo' = togo - 1
      /\ togo \in Int /\ togo > 0 => ~timer_interrupt'
  BY <1>1, TimerStep
<1>4. ASSUME point \in {"wb1", "wfi1"}
      PROVE  /\ togo' \in Int
             /\ age' <= Delay => togo' = Delay - age' /\ ~timer_interrupt'
  <2>1. togo \in Int /\ (age <= Delay => togo = Delay - age)
    BY <1>1, <1>4 DEF Timer
  <2>2. age' <= Delay => togo \in Nat /\ togo > 0 /\ togo - 1 = Delay - age'
    BY <1>1, <1>2, <2>1, BoardAssumption
  <2> QED BY <1>3, <2>1, <2>2
<1>5. point \in Points1 \cup {"rd_mtime", "wr_mtimecmp", "wb2", "wfi2"} => togo = Never
  BY <1>1 DEF Timer
<1> QED BY <1>2, <1>3, <1>4, <1>5

(* What hello leaves alone. *)
LEMMA HelloFrame ==
    ASSUME BoardInv, prog = "hello", UNCHANGED <<prog, rx_avail, rx_fifo, arrived, got>>,
           nth' \in Nat, togo' \in Int \cup {Never}, age' \in Nat, timer_interrupt' \in BOOLEAN,
           tx_fifo' \in Seq(Int), out' \in Seq(Int), point' \in HelloPoints,
           Position', Timer', MessagesIntact'
    PROVE  BoardInv'
BY DEF BoardInv, BoardType, Seen, ReaderExact

(* croyde_bsp_putc_b looks at the status. *)
LEMMA StatStep ==
    ASSUME BoardInv, prog = "hello",
           putc_b_stat("stat1", "tx1") \/ putc_b_stat("stat2", "tx2"),
           timer(togo), aged, UNCHANGED <<prog, rx_avail, rx_fifo, out, arrived, got>>
    PROVE  BoardInv'
<1>1. /\ \/ point = "stat1" /\ point' \in Points1
         \/ point = "stat2" /\ point' \in Points2
      /\ point' \in {"tx1", "tx2"} => Len(tx_fifo) # Depth
      /\ UNCHANGED <<nth, tx_fifo>>
  BY DEF putc_b_stat, Points1, Points2
<1>2. Len(tx_fifo) \in Nat /\ Len(tx_fifo) <= Depth /\ Depth \in Nat
  BY BoardAssumption, LenProperties DEF BoardInv, BoardType, Position
<1>3. Position'
  BY <1>1, <1>2, BoardAssumption DEF BoardInv, Position, Points1, Points2
<1>4. Timer'
  BY <1>1, Tick DEF Timer, Points1, Points2
<1>5. MessagesIntact'
  BY <1>1 DEF BoardInv, MessagesIntact, Written, Points1, Points2
<1> QED BY <1>1, <1>3, <1>4, <1>5, Tick, HelloFrame DEF BoardInv, BoardType, HelloPoints

(* It writes the character. *)
LEMMA TxStep ==
    ASSUME BoardInv, prog = "hello",
           \/ putc_b_tx("stat1", "tx1", "rd_mtime")
           \/ putc_b_tx("stat2", "tx2", "wr_never"),
           timer(togo), aged, UNCHANGED <<prog, rx_avail, rx_fifo, out, arrived, got>>
    PROVE  BoardInv'
<1>1. PICK m \in {Msg1, Msg2} :
        /\ (point = "tx1" /\ m = Msg1) \/ (point = "tx2" /\ m = Msg2)
        /\ write_tx(m[nth + 1])
        /\ \/ nth + 1 < Len(m) /\ nth' = nth + 1 /\ point' = IF point = "tx1" THEN "stat1" ELSE "stat2"
           \/ ~(nth + 1 < Len(m)) /\ nth' = 0 /\ point' = IF point = "tx1" THEN "rd_mtime" ELSE "wr_never"
  <2>1. (point = "tx1" /\ msg = Msg1) \/ (point = "tx2" /\ msg = Msg2)
    <3>1. point \in {"tx1", "tx2"}
      BY DEF putc_b_tx
    <3> QED BY <3>1 DEF msg
  <2>2. /\ write_tx(msg[nth + 1])
        /\ \/ nth + 1 < Len(msg) /\ nth' = nth + 1 /\ point' = IF point = "tx1" THEN "stat1" ELSE "stat2"
           \/ ~(nth + 1 < Len(msg)) /\ nth' = 0 /\ point' = IF point = "tx1" THEN "rd_mtime" ELSE "wr_never"
    BY <2>1 DEF putc_b_tx
  <2>3. msg \in {Msg1, Msg2}
    BY <2>1
  <2> WITNESS msg \in {Msg1, Msg2}
  <2> QED BY <2>1, <2>2
<1>2. /\ m \in Seq(Int) /\ nth \in Nat /\ Len(m) \in Nat /\ nth < Len(m)
      /\ Len(tx_fifo) \in Nat /\ Len(tx_fifo) < Depth /\ Depth \in Nat /\ tx_fifo \in Seq(Int)
      /\ out \in Seq(Int)
  BY <1>1, BoardAssumption, LenProperties DEF BoardInv, BoardType, Position, Points1, Points2
<1>3. /\ tx_fifo' \in Seq(Int) /\ m[nth + 1] \in Int
      /\ out' \o tx_fifo' = Append(out \o tx_fifo, m[nth + 1])
  BY <1>1, <1>2, WriteStep
<1>4. Len(tx_fifo') <= Depth
  BY <1>1, <1>2, <1>3, AppendProperties DEF write_tx
<1>5. Position'
  BY <1>1, <1>2, <1>4 DEF BoardInv, Position, Points1, Points2
<1>6. Timer'
  BY <1>1, Tick DEF Timer, Points1
<1>7. MessagesIntact'
  <2>1. /\ SubSeq(m, 1, nth) \in Seq(Int)
        /\ Append(SubSeq(m, 1, nth), m[nth + 1]) = SubSeq(m, 1, nth + 1)
        /\ nth + 1 >= Len(m) => SubSeq(m, 1, nth + 1) = m
    BY <1>2, NextCharacter
  <2>2. CASE point = "tx1"
    <3>1. out \o tx_fifo = SubSeq(m, 1, nth) /\ m = Msg1
      BY <1>1, <2>2 DEF BoardInv, MessagesIntact, Written
    <3>2. out' \o tx_fifo' = SubSeq(m, 1, nth + 1)
      BY <1>3, <2>1, <3>1
    <3>3. CASE nth + 1 < Len(m)
      <4>1. Written' = SubSeq(Msg1, 1, nth')
        BY <1>1, <2>2, <3>1, <3>3 DEF Written
      <4> QED BY <1>1, <3>1, <3>2, <3>3, <4>1 DEF MessagesIntact
    <3>4. CASE ~(nth + 1 < Len(m))
      <4>1. Written' = Msg1
        BY <1>1, <2>2, <3>1, <3>4 DEF Written
      <4>2. SubSeq(m, 1, nth + 1) = m
        BY <1>2, <2>1, <3>4
      <4> QED BY <3>1, <3>2, <4>1, <4>2 DEF MessagesIntact
    <3> QED BY <3>3, <3>4
  <2>3. CASE point = "tx2"
    <3>1. out \o tx_fifo = Msg1 \o SubSeq(m, 1, nth) /\ m = Msg2 /\ Msg1 \in Seq(Int)
      BY <1>1, <2>3, BoardAssumption DEF BoardInv, MessagesIntact, Written
    <3>2. out' \o tx_fifo' = Msg1 \o Append(SubSeq(m, 1, nth), m[nth + 1])
      <4>1. Append(Msg1 \o SubSeq(m, 1, nth), m[nth + 1])
                = Msg1 \o Append(SubSeq(m, 1, nth), m[nth + 1])
        BY <1>3, <2>1, <3>1, ConcatAppend
      <4> QED BY <1>3, <3>1, <4>1
    <3>3. out' \o tx_fifo' = Msg1 \o SubSeq(m, 1, nth + 1)
      BY <2>1, <3>2
    <3>4. CASE nth + 1 < Len(m)
      <4>1. Written' = Msg1 \o SubSeq(Msg2, 1, nth')
        BY <1>1, <2>3, <3>1, <3>4 DEF Written
      <4> QED BY <1>1, <3>1, <3>3, <3>4, <4>1 DEF MessagesIntact
    <3>5. CASE ~(nth + 1 < Len(m))
      <4>1. Written' = Msg1 \o Msg2
        BY <1>1, <2>3, <3>1, <3>5 DEF Written
      <4>2. SubSeq(m, 1, nth + 1) = m
        BY <1>2, <2>1, <3>5
      <4> QED BY <3>1, <3>3, <4>1, <4>2 DEF MessagesIntact
    <3> QED BY <3>4, <3>5
  <2> QED BY <1>1, <2>2, <2>3
<1>8. point' \in HelloPoints /\ nth' \in Nat
  BY <1>1, <1>2 DEF HelloPoints, Points1, Points2
<1> QED BY <1>2, <1>3, <1>5, <1>6, <1>7, <1>8, Tick, HelloFrame

(* The accesses to the timer, and WFI. *)
LEMMA SleepStep ==
    ASSUME BoardInv, prog = "hello", rd_mtime \/ wr_mtimecmp \/ wr_never \/ writeback \/ wfi,
           UNCHANGED <<prog, rx_avail, rx_fifo, out, arrived, got>>
    PROVE  BoardInv'
<1>1. /\ togo \in Int \cup {Never} /\ age \in Nat /\ BoardType /\ Timer /\ Position
      /\ UNCHANGED <<nth, tx_fifo>>
  BY DEF BoardInv, BoardType, rd_mtime, wr_mtimecmp, wr_never, writeback, wfi
<1>2. /\ togo' \in Int \cup {Never} /\ age' \in Nat /\ timer_interrupt' \in BOOLEAN
      /\ Timer' /\ point' \in HelloPoints /\ Position'
  <2>1. CASE rd_mtime
    <3>1. togo' = Never /\ ~timer_interrupt' /\ timer_interrupt' \in BOOLEAN
      BY <1>1, <2>1, TimerStep DEF rd_mtime, Timer
    <3> QED BY <1>1, <2>1, <3>1 DEF rd_mtime, Timer, HelloPoints, Position, Points1, Points2
  <2>2. CASE wr_mtimecmp
    <3> DEFINE w == IF age > Delay THEN -1 ELSE Delay - age
    <3>1. w \in Int /\ (age <= Delay => w \in Nat /\ w = Delay - age)
      BY <1>1, BoardAssumption
    <3>2. timer(w) /\ aged /\ point = "wr_mtimecmp" /\ point' = "wb1" /\ togo = Never
      BY <1>1, <2>2 DEF wr_mtimecmp, Timer
    <3> HIDE DEF w
    <3>3. /\ togo' \in Int /\ timer_interrupt' \in BOOLEAN /\ ~timer_interrupt'
          /\ w \in Nat => togo' = w - 1
      BY <1>1, <3>1, <3>2, TimerStep
    <3>4. age' \in Nat /\ (age' <= Delay => age' = age + 1 /\ age <= Delay)
      BY <1>1, <3>2, BoardAssumption DEF aged
    <3>5. age' <= Delay => togo' = Delay - age'
      BY <1>1, <3>1, <3>3, <3>4, BoardAssumption
    <3> QED BY <1>1, <3>2, <3>3, <3>4, <3>5 DEF Timer, HelloPoints, Position, Points1, Points2
  <2>3. CASE wr_never
    <3>1. togo' = Never /\ timer_interrupt' \in BOOLEAN
      BY <1>1, <2>3, TimerStep DEF wr_never
    <3>2. age' \in Nat
      BY <1>1, <2>3 DEF wr_never, aged
    <3> QED BY <1>1, <2>3, <3>1, <3>2 DEF wr_never, Timer, HelloPoints, Position, Points1, Points2
  <2>4. CASE writeback
    BY <1>1, <2>4, Tick DEF writeback, Timer, HelloPoints, Position, Points1, Points2
  <2>5. CASE wfi
    <3>1. /\ nth = 0
          /\ \/ point = "wfi1" /\ point' = "stat2"
             \/ point = "wfi2" /\ point' = "off_the_end"
      BY <1>1, <2>5 DEF wfi, Position, Points1, Points2
    <3>2. Len(Msg2) > 0
      BY BoardAssumption, EmptySeq
    <3> QED BY <1>1, <2>5, <3>1, <3>2, Tick
            DEF wfi, Timer, HelloPoints, Position, Points1, Points2
  <2> QED BY <2>1, <2>2, <2>3, <2>4, <2>5
<1>3. MessagesIntact'
  <2>1. Msg1 \o SubSeq(Msg2, 1, 0) = Msg1
    BY SubSeqEmpty, ConcatEmptySeq, BoardAssumption
  <2>2. point = "wfi1" => nth = 0
    BY <1>1 DEF Position, Points1, Points2
  <2> QED BY <1>1, <2>1, <2>2
          DEF BoardInv, MessagesIntact, Written, rd_mtime, wr_mtimecmp, wr_never, writeback, wfi, Timer
<1> QED BY <1>1, <1>2, <1>3, HelloFrame DEF BoardType

(* The reading functions: nothing else takes a character out of rx. *)
LEMMA GetcStep ==
    ASSUME BoardInv, getc, UNCHANGED prog
    PROVE  BoardInv'
<1>1. /\ prog \in {"getc_b", "getc_nb"} /\ timer(togo) /\ aged
      /\ UNCHANGED <<nth, tx_fifo, out, arrived>>
      /\ BoardType /\ Seen /\ ReaderExact /\ got \in Seq(Int) /\ rx_fifo \in Seq(Int)
      /\ age \in Nat /\ togo \in Int \cup {Never} /\ Delay \in Nat
  BY BoardAssumption DEF getc, BoardInv, BoardType
<1>2. togo' \in Int \cup {Never} /\ timer_interrupt' \in BOOLEAN /\ age' \in Nat
  BY <1>1, TimerStep DEF aged
<1>3. ASSUME getc_stat
      PROVE  /\ rx_avail' \in BOOLEAN /\ rx_fifo' \in Seq(Int) /\ got' \in Seq(Int)
             /\ point' \in {"stat", "rx"} /\ Seen' /\ (prog = "getc_b" => got' \o rx_fifo' = arrived)
  <2>1. /\ UNCHANGED <<rx_fifo, got>> /\ rx_avail' = (rx_fifo # <<>>)
        /\ point' = IF prog = "getc_b" /\ rx_fifo = <<>> THEN "stat" ELSE "rx"
    BY <1>3 DEF getc_stat
  <2>2. Seen'
    BY <2>1 DEF Seen
  <2> QED BY <1>1, <2>1, <2>2 DEF ReaderExact
<1>4. ASSUME getc_rx
      PROVE  /\ rx_avail' \in BOOLEAN /\ rx_fifo' \in Seq(Int) /\ got' \in Seq(Int)
             /\ point' \in {"stat", "rx"} /\ Seen' /\ (prog = "getc_b" => got' \o rx_fifo' = arrived)
  <2>1. /\ point = "rx" /\ point' = "stat" /\ UNCHANGED rx_avail /\ rx_avail \in BOOLEAN
        /\ rx_fifo' = IF rx_fifo = <<>> THEN rx_fifo ELSE Tail(rx_fifo)
        /\ got' = IF rx_avail THEN Append(got, IF rx_fifo = <<>> THEN Never ELSE Head(rx_fifo))
                  ELSE got
    BY <1>1, <1>4 DEF getc_rx, BoardType
  <2>2. (rx_avail => rx_fifo # <<>>) /\ (prog = "getc_b" => rx_avail)
    BY <1>1, <2>1 DEF Seen
  <2>3. CASE rx_fifo = <<>>
    BY <1>1, <2>1, <2>2, <2>3 DEF Seen, ReaderExact
  <2>4. CASE rx_fifo # <<>>
    <3>1. Head(rx_fifo) \in Int /\ Tail(rx_fifo) \in Seq(Int)
      BY <1>1, <2>4, HeadTailProperties
    <3>2. got' \in Seq(Int) /\ rx_fifo' \in Seq(Int)
      BY <1>1, <2>1, <2>4, <3>1, AppendProperties
    <3>3. prog = "getc_b" => got' \o rx_fifo' = arrived
      BY <1>1, <2>1, <2>2, <2>4, MoveHead DEF ReaderExact
    <3>4. Seen'
      BY <2>1 DEF Seen
    <3> QED BY <2>1, <3>2, <3>3, <3>4
  <2> QED BY <2>3, <2>4
<1>5. /\ rx_avail' \in BOOLEAN /\ rx_fifo' \in Seq(Int) /\ got' \in Seq(Int)
      /\ point' \in {"stat", "rx"} /\ Seen' /\ (prog = "getc_b" => got' \o rx_fifo' = arrived)
  BY <1>3, <1>4 DEF getc
<1>6. ReaderExact'
  <2>1. \A k \in DOMAIN got' : got'[k] \in Int
    BY <1>5, LenProperties, ElementOfSeq
  <2> QED BY <1>1, <1>5, <2>1, BoardAssumption DEF ReaderExact
<1>7. BoardType' /\ Position' /\ MessagesIntact'
  BY <1>1, <1>2, <1>5 DEF BoardInv, BoardType, Position, MessagesIntact
<1> QED BY <1>1, <1>5, <1>6, <1>7 DEF BoardInv

(* croyde_bsp_putc_nb, which does not look at the status. *)
LEMMA PutcNbStep ==
    ASSUME BoardInv, putc_nb, UNCHANGED prog
    PROVE  BoardInv'
<1>1. /\ prog = "putc_nb" /\ point = "tx" /\ BoardType /\ timer(togo) /\ aged
      /\ nth < Len(Msg1) /\ nth \in Nat /\ tx_fifo \in Seq(Int) /\ Msg1 \in Seq(Int)
      /\ Delay \in Nat /\ age \in Nat /\ togo \in Int \cup {Never}
  BY BoardAssumption DEF putc_nb, BoardInv, BoardType, Position
<1>2. togo' \in Int \cup {Never} /\ timer_interrupt' \in BOOLEAN /\ age' \in Nat
  BY <1>1, TimerStep DEF aged
<1>3. Msg1[nth + 1] \in Int
  BY <1>1, NextCharacter
<1>4. tx_fifo' \in Seq(Int)
  BY <1>1, <1>3, AppendProperties DEF putc_nb, write_tx
<1>5. /\ nth' = nth + 1 /\ point' = IF nth + 1 < Len(Msg1) THEN "tx" ELSE "done"
      /\ UNCHANGED <<rx_avail, rx_fifo, out, arrived, got>>
  BY DEF putc_nb
<1>6. BoardType'
  BY <1>1, <1>2, <1>4, <1>5 DEF BoardType
<1> QED BY <1>1, <1>5, <1>6 DEF BoardInv, Position, Seen, MessagesIntact, ReaderExact

(* A cycle in which the program waits. *)
LEMMA StalledStep ==
    ASSUME BoardInv, stalled, UNCHANGED prog
    PROVE  BoardInv'
<1>1. BoardType /\ timer(togo) /\ aged /\ togo \in Int \cup {Never} /\ age \in Nat /\ Delay \in Nat
      /\ UNCHANGED <<point, nth, rx_avail, tx_fifo, rx_fifo, out, arrived, got>>
  BY BoardAssumption DEF BoardInv, BoardType, stalled
<1>2. togo' \in Int \cup {Never} /\ timer_interrupt' \in BOOLEAN /\ age' \in Nat
  BY <1>1, TimerStep DEF aged
<1>3. prog = "hello" => Timer'
  BY <1>1, Tick DEF Timer
<1>4. BoardType'
  BY <1>1, <1>2 DEF BoardType
<1> QED BY <1>1, <1>3, <1>4
        DEF BoardInv, Position, Seen, MessagesIntact, Written, ReaderExact

(* The UART moves a character. *)
LEMMA UartStep ==
    ASSUME BoardInv, moves, UNCHANGED prog
    PROVE  BoardInv'
<1>1. /\ BoardType /\ UNCHANGED <<point, nth, rx_avail, got, togo, age, timer_interrupt>>
      /\ tx_fifo \in Seq(Int) /\ out \in Seq(Int) /\ rx_fifo \in Seq(Int) /\ arrived \in Seq(Int)
      /\ got \in Seq(Int) /\ Len(tx_fifo) \in Nat /\ Depth \in Nat
  BY BoardAssumption, LenProperties DEF BoardInv, BoardType, moves
<1>2. CASE transmit /\ UNCHANGED <<rx_fifo, arrived>>
  <2>1. /\ tx_fifo # <<>> /\ out' = Append(out, Head(tx_fifo)) /\ tx_fifo' = Tail(tx_fifo)
    BY <1>2 DEF transmit
  <2>2. /\ Head(tx_fifo) \in Int /\ tx_fifo' \in Seq(Int) /\ Len(tx_fifo') = Len(tx_fifo) - 1
    BY <1>1, <2>1, HeadTailProperties
  <2>3. out' \in Seq(Int) /\ out' \o tx_fifo' = out \o tx_fifo
    BY <1>1, <2>1, <2>2, MoveHead, AppendProperties
  <2>4. BoardType'
    BY <1>1, <1>2, <2>2, <2>3 DEF BoardType
  <2>5. Position'
    BY <1>1, <2>2 DEF BoardInv, Position
  <2>6. MessagesIntact'
    BY <1>1, <2>3 DEF BoardInv, MessagesIntact, Written
  <2> QED BY <1>1, <1>2, <2>4, <2>5, <2>6 DEF BoardInv, Timer, Seen, ReaderExact
<1>3. CASE prog \in {"getc_b", "getc_nb"} /\ receive /\ UNCHANGED <<tx_fifo, out>>
  <2>1. PICK c \in Int : arrived' = Append(arrived, c) /\ rx_fifo' = Append(rx_fifo, c)
    BY <1>3, BoardAssumption DEF receive
  <2>2. arrived' \in Seq(Int) /\ rx_fifo' \in Seq(Int) /\ rx_fifo' # <<>>
    <3>1. \A s \in Seq(Int) : Append(s, c) \in Seq(Int) /\ Append(s, c) # <<>>
      BY AppendProperties
    <3> QED BY <1>1, <2>1, <3>1
  <2>3. got' \o rx_fifo' = Append(got \o rx_fifo, c)
    BY <1>1, <2>1, ConcatAppend
  <2>4. BoardType'
    BY <1>1, <1>3, <2>2 DEF BoardType
  <2>5. ReaderExact'
    BY <1>1, <1>3, <2>1, <2>3 DEF BoardInv, ReaderExact
  <2> QED BY <1>1, <1>3, <2>2, <2>4, <2>5 DEF BoardInv, Position, Seen, MessagesIntact
<1> QED BY <1>2, <1>3 DEF moves, uart

(* Every step of the program and the UART keeps it.                        *)
LEMMA BoardNext_Inv ==
    ASSUME BoardInv, [BoardNext]_boardVars
    PROVE  BoardInv'
<1>1. CASE UNCHANGED boardVars
  <2>1. BoardType' /\ Position' /\ Seen'
    BY <1>1 DEF boardVars, BoardInv, BoardType, Position, Seen
  <2>2. (prog = "hello" => Timer)'
    BY <1>1 DEF boardVars, BoardInv, Timer
  <2>3. MessagesIntact' /\ ReaderExact'
    BY <1>1 DEF boardVars, BoardInv, MessagesIntact, Written, ReaderExact
  <2> QED BY <2>1, <2>2, <2>3 DEF BoardInv
<1>2. CASE BoardNext
  <2>1. CASE hello /\ UNCHANGED prog
    BY <2>1, StatStep, TxStep, SleepStep DEF hello, message
  <2> QED BY <1>2, <2>1, GetcStep, PutcNbStep, StalledStep, UartStep
          DEF BoardNext, cycle, accesses
<1> QED BY <1>1, <1>2

(* The invariant holds for every program of the board. *)
THEOREM BoardInvariant == BoardSpec => []BoardInv
BY BoardInit_Inv, BoardNext_Inv, PTL DEF BoardSpec

(* Both messages come out complete and in order, for all messages and FIFO *)
(* depths (croyde_bsp_arty.c:12-18).                                       *)
THEOREM BoardMessages == BoardSpec => []MessagesIntact
<1>1. BoardInv => MessagesIntact
  BY DEF BoardInv
<1> QED BY <1>1, BoardInvariant, PTL

(* A reader gets what arrived (croyde_bsp_arty.c:25-39). *)
THEOREM BoardReader == BoardSpec => []ReaderExact
<1>1. BoardInv => ReaderExact
  BY DEF BoardInv
<1> QED BY <1>1, BoardInvariant, PTL

(* A step out of a WFI is one of the action wfi. *)
LEMMA WakesByWfi ==
    ASSUME BoardInv, BoardNext, point \in {"wfi1", "wfi2"}, point' # point
    PROVE  wfi /\ prog = "hello" /\ Timer /\ age \in Nat
<1>1. prog = "hello"
  BY DEF BoardInv, BoardType
<1>2. wfi
  BY <1>1 DEF BoardNext, cycle, accesses, hello, message, putc_b_stat, putc_b_tx, rd_mtime,
      wr_mtimecmp, wr_never, writeback, getc, putc_nb, stalled, moves
<1> QED BY <1>1, <1>2 DEF BoardInv, BoardType

(* The timer does not end WFI before the delay is over, for every delay    *)
(* and however late mtimecmp is written; int_ext and int_sw do             *)
(* (arty_helloworld.c:23-28).                                              *)
THEOREM BoardDelay == BoardSpec => NoEarlyWake
<1>1. ASSUME BoardInv, [BoardNext]_boardVars
      PROVE  [point = "wfi1" /\ point' = "stat2" => age > Delay \/ other_int]_boardVars
  <2> SUFFICES ASSUME BoardNext, point = "wfi1", point' = "stat2", ~other_int
               PROVE  age > Delay
    BY <1>1
  <2>1. timer_interrupt /\ Timer /\ age \in Nat
    BY <1>1, WakesByWfi DEF wfi, int_pending
  <2> QED BY <2>1, BoardAssumption DEF Timer
<1> QED BY <1>1, BoardInvariant, PTL DEF BoardSpec, NoEarlyWake

(* Whatever the delays, the core runs off the end of __fsbl_main only when *)
(* int_ext or int_sw is up: the timer does not end the second WFI          *)
(* (arty_helloworld.c:30-33).                                              *)
THEOREM BoardSleeps == BoardSpec => OldTimerNeverWakes
<1>1. ASSUME BoardInv, [BoardNext]_boardVars
      PROVE  [point = "wfi2" /\ point' # point => other_int]_boardVars
  <2> SUFFICES ASSUME BoardNext, point = "wfi2", point' # point
               PROVE  other_int
    BY <1>1
  <2>1. int_pending /\ Timer
    BY <1>1, WakesByWfi DEF wfi
  <2> QED BY <2>1 DEF Timer, int_pending
<1> QED BY <1>1, BoardInvariant, PTL DEF BoardSpec, OldTimerNeverWakes

=============================================================================
