----------------------------- MODULE MCCorePipe -----------------------------
(***************************************************************************)
(* Code of three instructions; exceptions go to 0 and the interrupt to 1.  *)
(* Execute passes a csr instruction on as it does an alu instruction.  The *)
(* branches: one that is taken, one to nowhere (which fetch is sent to and *)
(* which traps), and a failed fetch that looks like a jump.                *)
(***************************************************************************)
EXTENDS CorePipe

EnableInterrupts ==
    {[unit |-> "csr", trap |-> FALSE, reg |-> "mstatus", how |-> "set", val |-> {"mie"}],
     [unit |-> "csr", trap |-> FALSE, reg |-> "mie", how |-> "wr", val |-> {"meie"}]}

MCInstrs ==
    [unit : {"mdu", "mret", "wfi"}, trap : {FALSE}]
        \cup [unit : {"load"}, trap : {FALSE}, aligned : BOOLEAN]
        \cup [unit : {"branch"}, trap : {FALSE}, to : {2}, exists : BOOLEAN, always : {FALSE}]
        \cup [unit : {"branch"}, trap : {TRUE}, to : {2}, exists : {TRUE}, always : {TRUE}]
        \cup [unit : {"csr"}, trap : {FALSE}, reg : {"mepc"}, to : {2}]
        \cup [unit : {"csr"}, trap : {FALSE}, reg : {"mtvec"}]
        \cup EnableInterrupts

=============================================================================
