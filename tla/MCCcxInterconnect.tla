------------------------- MODULE MCCcxInterconnect -------------------------
(***************************************************************************)
(* A core complex with a word of ROM, two words of RAM, four of external   *)
(* memory and four of memory mapped registers, of which the last two are   *)
(* errors; word 1 is unmapped.                                             *)
(***************************************************************************)
EXTENDS CcxInterconnect

MCBase == [rom |-> 0, ram |-> 2, ext |-> 4, mmio |-> 8]
MCSize == [rom |-> 1, ram |-> 2, ext |-> 4, mmio |-> 4]

MCWords == {0, 1, 2, 4, 8, 10}
MCInit  == [a \in MCWords |-> IF a = 0 THEN 1 ELSE 0]

(* The devices that answer some accesses with an error; instructions and   *)
(* data in RAM and in external memory; instructions on chip.               *)
MCLayouts == {[i |-> {0, 1, 8}, d |-> {0, 1, 8, 10}],
              [i |-> {2, 4}, d |-> {1, 2, 4}],
              [i |-> {0, 2}, d |-> {2, 4}]}

(* Instructions and data in one word of external memory. *)
ExtWords      == {4}
ExtInit       == [a \in ExtWords |-> 0]
ExternalFetch == {[i |-> {4}, d |-> {4}]}

=============================================================================
