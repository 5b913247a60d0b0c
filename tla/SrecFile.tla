------------------------------ MODULE SrecFile ------------------------------
(***************************************************************************)
(* The SREC reader of the test benches (verif/share/verilator/srec.cpp).   *)
(*                                                                         *)
(* A file is a sequence of records: type, count (the byte after the type,  *)
(* which counts address, data and checksum), adr, data and sum, in the     *)
(* upper-case digits that objcopy writes.  A blank line is skipped like a  *)
(* record of type 0.  The conversion of the digits of address and data is  *)
(* left out; that of the count is not, for it differs.  dump_readmemh,     *)
(* which nothing calls, is left out.                                       *)
(***************************************************************************)
EXTENDS Integers, Sequences

CONSTANT Junk       \* a byte of unknown value

ASSUME JunkAssumption == Junk \in 0 .. 255

(* The records of a file, with their bytes. *)
IsFile(file, bytes) ==
    /\ Len(file) \in Nat /\ DOMAIN file = 1 .. Len(file)
    /\ \A i \in DOMAIN file :
        /\ file[i].type \in 0 .. 9 /\ file[i].count \in 0 .. 255 /\ file[i].adr \in Nat
        /\ file[i].data \in Seq(bytes) /\ file[i].sum \in bytes

(* The comparison is "> 'A'": the digit A is taken for the code of its     *)
(* character, 0x41, and counts 1.                                          *)
count_digit(h) == IF h = 10 THEN 1 ELSE h

rec_size(r) == 16 * count_digit(r.count \div 16) + count_digit(r.count % 16)

(* An unsigned char. *)
data_bytes(r) == (rec_size(r) - 5) % 256

(* The digits of a byte of the line; beyond its end the line is undefined. *)
line_byte(r, i) == IF i < Len(r.data) THEN r.data[i + 1]
                   ELSE IF i = Len(r.data) THEN r.sum
                   ELSE Junk

(* What a record adds to the map: only records of type 3 carry data.       *)
record_data(r) ==
    [a \in {r.adr + i : i \in IF r.type = 3 THEN 0 .. data_bytes(r) - 1 ELSE {}}
        |-> line_byte(r, a - r.adr)]

(* Mutant: the first record for an address wins. *)
added_first(d, r) ==
    LET n == record_data(r)
    IN  [a \in DOMAIN d \cup DOMAIN n |-> IF a \in DOMAIN d THEN d[a] ELSE n[a]]

(* The map d with the bytes of a record: it overrides the ones before. *)
added(d, r) ==
    LET n == record_data(r)
    IN  [a \in DOMAIN d \cup DOMAIN n |-> IF a \in DOMAIN n THEN n[a] ELSE d[a]]

(* The map from addresses to bytes after k records, and at the end. *)
srec_upto(file) ==
    LET d[k \in 0 .. Len(file)] == IF k = 0 THEN <<>> ELSE added(d[k - 1], file[k])
    IN  d

srec_data(file) == srec_upto(file)[Len(file)]

----------------------------------------------------------------------------
(* What a file says, for the files that the reader gets right: the last    *)
(* record for an address, in records whose count has no digit A.           *)
Readable(file) ==
    \A i \in DOMAIN file :
        /\ file[i].count = Len(file[i].data) + 5
        /\ file[i].count % 16 # 10 /\ file[i].count \div 16 # 10

Says(file, a) ==
    LET of == {i \in DOMAIN file : /\ file[i].type = 3
                                   /\ a >= file[i].adr /\ a < file[i].adr + Len(file[i].data)}
        last == CHOOSE i \in of : \A j \in of : j <= i
    IN  IF of = {} THEN {} ELSE {file[last].data[a - file[last].adr + 1]}

=============================================================================
