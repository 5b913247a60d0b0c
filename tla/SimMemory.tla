----------------------------- MODULE SimMemory -----------------------------
(***************************************************************************)
(* The simulated memory of the Verilator test benches                      *)
(* (verif/share/verilator): devices on a bus, and one agent per memory     *)
(* port of the design, which answers its requests.                         *)
(*                                                                         *)
(* memory_device_uart.rx_buffer and the registers reg_* are left out:      *)
(* nothing puts a character into rx_buffer, so it is always empty, and no  *)
(* register can be read back.  The debug output is left out.               *)
(***************************************************************************)
EXTENDS Integers, Sequences, SequencesExt

CONSTANTS
    NewLine,        \* the character '\n'
    None            \* no device, no request, no write data

VARIABLES
    devices,        \* memory_bus.devices, in the order they were added
    dev,            \* what the devices hold: ram (by address), tx_buffer, and
                    \* console, all the characters printed so far
    req,            \* req[p]: the request the design makes on port p, or None
    n_mem           \* n_mem[p]: n_mem_gnt, n_mem_err, n_mem_rdata of the agent of
                    \* port p; drive_signals puts them on the port before each
                    \* clock edge, so this is what the design sees

memVars == <<devices, dev, req, n_mem>>

(* core_mem_agent: txn_length *)
Size  == 8
Lanes == 0 .. Size - 1
Zeros == [l \in Lanes |-> 0]

----------------------------------------------------------------------------
(* memory_device: a range of addresses. *)
ram_device(base, range) == [kind |-> "ram", base |-> base, range |-> range]
uart_device(base)       == [kind |-> "uart", base |-> base, range |-> 8]

get_top(d) == d.base + d.range

in_range(d, a) == d.base <= a /\ a < get_top(d)

in_range_of_size(d, a, n) == d.base <= a /\ a + n <= get_top(d)

----------------------------------------------------------------------------
(* memory_bus: the list of devices. *)

(* A device is refused if one of its ends lies in a device that is already *)
(* there, the address behind that device included.                         *)
add_device(devs, d) ==
    LET clash(e) == \/ e.base <= d.base /\ d.base <= get_top(e)
                    \/ e.base <= get_top(d) /\ get_top(d) <= get_top(e)
    IN  IF \E i \in DOMAIN devs : clash(devs[i]) THEN devs ELSE Append(devs, d)

get_device_at(devs, a) ==
    LET at == {i \in DOMAIN devs : in_range(devs[i], a)}
    IN  IF at = {} THEN None ELSE devs[Min(at)]

----------------------------------------------------------------------------
(* The devices byte by byte.  s is a value of dev. *)
ram_read_byte(s, a) == s.ram[a]

ram_write_byte(s, d, a, b) ==
    IF in_range_of_size(d, a, 0) THEN [s EXCEPT !.ram[a] = b] ELSE s

addr_tx(d) == d.base

(* No register reads back: TX because of "addr & 0b11 == 0", which compares *)
(* first, RX because rx_buffer is empty.                                    *)
uart_read_byte(d, a) == 0

(* Mutant: the newline itself is left in the buffer. *)
write_to_tx_buffer_late(s, b) ==
    IF b = NewLine
    THEN [s EXCEPT !.tx_buffer = <<b>>, !.console = @ \o s.tx_buffer]
    ELSE [s EXCEPT !.tx_buffer = Append(@, b)]

(* Line buffered. *)
write_to_tx_buffer(s, b) ==
    IF b = NewLine
    THEN [s EXCEPT !.tx_buffer = <<>>, !.console = @ \o Append(s.tx_buffer, b)]
    ELSE [s EXCEPT !.tx_buffer = Append(@, b)]

uart_write_byte(s, d, a, b) ==
    IF a = addr_tx(d) /\ a % 4 = 0 THEN write_to_tx_buffer(s, b) ELSE s

read_byte(s, d, a) == IF d.kind = "ram" THEN ram_read_byte(s, a) ELSE uart_read_byte(d, a)

write_byte(s, d, a, b) ==
    IF d.kind = "ram" THEN ram_write_byte(s, d, a, b) ELSE uart_write_byte(s, d, a, b)

(* The bus byte by byte, for the loader and the signature: a byte that is   *)
(* not mapped reads as 0xFF, and what is written to it is lost.             *)
bus_read_byte(devs, s, a) ==
    LET d == get_device_at(devs, a) IN IF d = None THEN 255 ELSE read_byte(s, d, a)

bus_write_byte(devs, s, a, b) ==
    LET d == get_device_at(devs, a) IN IF d = None THEN s ELSE write_byte(s, d, a, b)

----------------------------------------------------------------------------
(* The devices by ranges of bytes, within one device.  A write is a record  *)
(* of strobes and data.                                                     *)
read_range(s, d, a) == [l \in Lanes |-> read_byte(s, d, a + l)]

write_upto(s, d, a, w) ==
    LET t[k \in 0 .. Size] ==
            IF k = 0 THEN s
            ELSE IF k - 1 \in w.strb THEN write_byte(t[k - 1], d, a + k - 1, w.data[k - 1])
            ELSE t[k - 1]
    IN  t

write_range(s, d, a, w) == write_upto(s, d, a, w)[Size]

(* A transaction on the bus: what the devices hold after it, and the answer. *)
bus_request(devs, s, q) ==
    LET d == get_device_at(devs, q.adr)
    IN  IF d = None THEN [dev |-> s, err |-> TRUE, data |-> Zeros]
        ELSE IF ~in_range_of_size(d, q.adr, Size)
             THEN [dev |-> s, err |-> TRUE, data |-> Zeros]
        ELSE IF q.wen
             THEN [dev |-> write_range(s, d, q.adr, q.val), err |-> FALSE, data |-> Zeros]
        ELSE [dev |-> s, err |-> FALSE, data |-> read_range(s, d, q.adr)]

----------------------------------------------------------------------------
(* core_mem_agent: the agents of the ports in the sequence ps sample the    *)
(* ports one after the other, before the design sees the clock edge.        *)
taken(p) == req[p] # None /\ n_mem[p].gnt

(* What the devices hold once the first k agents have sampled. *)
Upto(ps) ==
    LET upto[k \in 0 .. Len(ps)] ==
            IF k = 0 THEN dev
            ELSE IF taken(ps[k]) THEN bus_request(devices, upto[k - 1], req[ps[k]]).dev
            ELSE upto[k - 1]
    IN  upto

(* The next err and rdata of agent k: the answer to its request, whose      *)
(* write leaves rdata alone, or noise.                                      *)
answer(ps, k, noise) ==
    LET p == ps[k]
        r == bus_request(devices, Upto(ps)[k - 1], req[p])
    IN  IF taken(p)
        THEN [err |-> r.err, rdata |-> IF req[p].wen THEN n_mem[p].rdata ELSE r.data]
        ELSE noise

(* Mutant: the answer is dropped unless the port is granted again. *)
posedge_clk_regrant(ps, gnt, noise) ==
    /\ dev' = Upto(ps)[Len(ps)]
    /\ n_mem' = [p \in DOMAIN n_mem |->
                    IF \E k \in DOMAIN ps : ps[k] = p
                    THEN LET a == IF gnt[p] THEN answer(ps, CHOOSE k \in DOMAIN ps : ps[k] = p, noise[p])
                                  ELSE noise[p]
                         IN  [gnt |-> gnt[p], err |-> a.err, rdata |-> a.rdata]
                    ELSE n_mem[p]]

posedge_clk(ps, gnt, noise) ==
    /\ dev' = Upto(ps)[Len(ps)]
    /\ n_mem' = [p \in DOMAIN n_mem |->
                    IF \E k \in DOMAIN ps : ps[k] = p
                    THEN LET a == answer(ps, CHOOSE k \in DOMAIN ps : ps[k] = p, noise[p])
                         IN  [gnt |-> gnt[p], err |-> a.err, rdata |-> a.rdata]
                    ELSE n_mem[p]]

=============================================================================
