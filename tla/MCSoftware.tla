----------------------------- MODULE MCSoftware -----------------------------
(***************************************************************************)
(* Both benches with a few bytes of RAM and short time limits; each run of *)
(* a bench is about one thing: memory accesses, the console, the verdict,  *)
(* the signature, the image, the arguments.                                *)
(* The table of access-traps.c with the addresses of link-ram.ld, on the   *)
(* memory map of the core complex in its bench.                            *)
(* Short messages, a short delay and FIFOs of two characters.              *)
(***************************************************************************)
EXTENDS Software

Opt(o, v) == [opt |-> o, val |-> v]
Rd(a) == [adr |-> a, wen |-> FALSE, val |-> None]
Wr(a, strb, b) == [adr |-> a, wen |-> TRUE,
                   val |-> [strb |-> strb, data |-> [l \in Lanes |-> b]]]
None3 == [imem |-> {}, dmem |-> {}, mem |-> {}]

S3(a, bytes) == [type |-> 3, count |-> Len(bytes) + 5, adr |-> a, data |-> bytes, sum |-> 99]
S(t, a, bytes) == [S3(a, bytes) EXCEPT !.type = t]

PassAddr == 100
FailAddr == 104
Ends == <<Opt("PASS_ADDR", PassAddr), Opt("FAIL_ADDR", FailAddr)>>
Pcs  == {PassAddr, FailAddr, 108}

(* An image with a header, two records that overlap and one out of RAM. *)
File == <<S(0, 0, <<1>>), S3(16, <<163, 2, 3>>), S3(18, <<4, 5>>), S(1, 16, <<9>>),
          S3(200, <<6>>), S(7, 16, <<>>)>>

(* The digit A in the byte count. *)
FileA == <<S3(16, <<1, 2, 3, 4, 5>>)>>

Memory  == {[bench |-> "core", pcs |-> {},
             argv |-> <<Opt("IMEM", File), Opt("TIMEOUT", 13)>>,
             requests |-> [None3 EXCEPT !.imem = {Rd(16)},
                                        !.dmem = {Wr(16, {0, 3}, 7), Rd(16), Rd(0)}]],
            [bench |-> "ccx", pcs |-> {},
             argv |-> <<Opt("IMEM", <<S3(80, <<8>>)>>), Opt("TIMEOUT", 13)>>,
             requests |-> [None3 EXCEPT !.mem = {Wr(80, {1}, 7), Rd(80), Wr(96, {0}, 7), Rd(64)}]]}

Console == {[bench |-> b, pcs |-> {},
             argv |-> <<Opt("TIMEOUT", 14)>>,
             requests |-> [None3 EXCEPT
                ![IF b = "core" THEN "dmem" ELSE "mem"] =
                    LET u == IF b = "core" THEN 48 ELSE 64
                    IN  {Wr(u, {0}, 120), Wr(u, {0, 4}, NewLine), Wr(u, {4}, 121)}]]
                : b \in {"core", "ccx"}}

Verdicts == {[bench |-> b, pcs |-> Pcs, argv |-> <<Opt("TIMEOUT", n)>> \o Ends, requests |-> None3]
                : b \in {"core", "ccx"}, n \in {4, 7, 10, 13}}

(* The signature of the image, which the design may overwrite, against the  *)
(* right reference, a wrong one, one with an upper-case digit and a short   *)
(* one; and the short one against an image that it is taken for.            *)
RightRef == <<48, 53, 48, 52, 48, 50, 97, 51, NewLine>>
ShortRef == <<48, 53>>
Refs     == {RightRef, [RightRef EXCEPT ![8] = 50], [RightRef EXCEPT ![7] = 65], ShortRef}

Signature(file, path, ref) ==
    [bench |-> "core", pcs |-> {PassAddr, FailAddr},
     argv |-> <<Opt("IMEM", file), Opt("SIG_START", 16), Opt("SIG_END", 20), Opt("SIG_PATH", path),
                Opt("SIG_VERIF", ref), Opt("TIMEOUT", 12)>> \o Ends,
     requests |-> [None3 EXCEPT !.dmem = {Wr(16, {0}, 7)}]]

Signatures ==
    {Signature(File, "signature", ref) : ref \in Refs}
        \cup {Signature(<<S3(16, <<255, 255, 255, 5>>)>>, "signature", ShortRef),
              Signature(File, None, None)}

Arguments ==
    {[bench |-> b, pcs |-> {PassAddr}, argv |-> a \o <<Opt("TIMEOUT", 9)>>, requests |-> None3]
        : b \in {"core", "ccx"},
          a \in {<<Opt("IMEM", FileA)>> \o Ends, <<Opt("--help", "")>>, Ends \o Ends,
                 <<Opt("MEM_MAX_STALL", <<5>>)>>, <<Opt("MEM_MAX_STALL", <<1, 0>>)>>}}

MCRuns  == Memory \cup Console \cup Verdicts \cup Signatures \cup Arguments
MCNoise == {[err |-> TRUE, rdata |-> [l \in Lanes |-> Junk]]}

----------------------------------------------------------------------------
Entry(a, r, w) == [adr |-> a, readable |-> r, writeable |-> w]

RomEnd   == 1024
RamBegin == 65536
RamEnd   == 131072
ExtBegin == 301989888
ExtEnd   == ExtBegin + 65536

MCTable == <<
    Entry(0, TRUE, FALSE),         Entry(-8, FALSE, FALSE),
    Entry(RomEnd, FALSE, FALSE),   Entry(RomEnd - 8, TRUE, FALSE),
    Entry(RamBegin, TRUE, TRUE),   Entry(RamBegin - 8, FALSE, FALSE),
    Entry(RamEnd, TRUE, TRUE),     Entry(RamEnd - 8, TRUE, TRUE),
    Entry(ExtBegin, TRUE, TRUE),   Entry(ExtBegin - 8, FALSE, FALSE),
    Entry(ExtEnd, FALSE, FALSE),   Entry(ExtEnd - 8, TRUE, TRUE)>>

(* ROM, RAM, the two timer registers, and what the bench puts on the       *)
(* external port: its UART and its RAM.                                    *)
MCFaults(a, w) == ~ \/ a \in 0 .. RomEnd - 1 /\ ~w
                    \/ a \in RamBegin .. RamEnd + 15
                    \/ a \in 285212672 .. 285212679
                    \/ a \in ExtBegin .. ExtEnd - 1

MCMsg1 == <<1, 2, 3>>
MCMsg2 == <<4, 5>>

=============================================================================
