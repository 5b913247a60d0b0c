----------------------------- MODULE MCCoreMdu ------------------------------
(***************************************************************************)
(* Registers of four bits and words of two, all operands; instructions of  *)
(* each part of the unit, with a few operands, may be flushed.             *)
(***************************************************************************)
EXTENDS CoreMdu

MCOperands == 0..15

MCFlushable ==
    [op : {"mulh", "clmul", "div"}, word : {FALSE}, rs1 : {7, 9}, rs2 : {3}]

=============================================================================
