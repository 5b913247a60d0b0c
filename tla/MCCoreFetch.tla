---------------------------- MODULE MCCoreFetch ----------------------------
(***************************************************************************)
(* A memory of three 8-byte words.  32-bit instructions start in the       *)
(* middle of words and across their boundaries; control may go to any      *)
(* halfword, inside instructions too.                                      *)
(***************************************************************************)
EXTENDS CoreFetch

MCTargets == {0, 2, 4, 6, 8, 14}
MCLong    == {0, 6, 12, 14, 18, 22}

=============================================================================
