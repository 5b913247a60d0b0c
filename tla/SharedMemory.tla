---------------------------- MODULE SharedMemory ----------------------------
(***************************************************************************)
(* What the core complex, and the simulated memory of the test benches,    *)
(* promise to the memory ports of the core: one shared memory              *)
(* (docs/memory-interface.md, docs/ccx.md).  A request stays until it is   *)
(* granted; a granted request takes effect at once and is answered in the  *)
(* next cycle, to the port that made it, with the value the word had.      *)
(* Requests for the same word are granted one at a time, or, if Together,  *)
(* a read along with a write that it does not see; a word that does not    *)
(* exist may be refused to several ports at once.                          *)
(***************************************************************************)

CONSTANTS
    Ports,          \* the requesting ports
    Words,          \* word addresses
    Values,         \* contents of a word
    Wdata,          \* what a write carries
    Merge(_, _, _), \* Merge(a, old, w): word a after a write of w
    Together,       \* are two ports served the same word in one cycle?
    ReadOnly,       \* words that answer a write with an error
    Unmapped,       \* words that answer every access with an error
    MayFail,        \* words whose device may answer with an error
    None            \* no request, no response, no value

VARIABLES
    mem,            \* mem[a]: the content of word a
    pend,           \* pend[p]: the request of port p, or None
    rsp             \* rsp[p]: what port p is answered in this cycle, or None

vars == <<mem, pend, rsp>>

(* A read carries no value. *)
Requests == [adr : Words, wen : {FALSE}, val : {None}]
                \cup [adr : Words, wen : {TRUE}, val : Wdata]

(* The errors a request may be answered with. *)
Errors(q) == IF q.adr \in Unmapped \/ (q.wen /\ q.adr \in ReadOnly) THEN {TRUE}
             ELSE IF q.adr \in MayFail THEN BOOLEAN
             ELSE {FALSE}

(* A write, like a failed read, is answered without a value. *)
Answer(q, e) == [err |-> e, data |-> IF q.wen \/ e THEN None ELSE mem[q.adr]]

(* The content of word a once the ports of G are granted with errors e. *)
After(a, G, e) ==
    LET W == {p \in G : pend[p].adr = a /\ pend[p].wen /\ ~e[p]}
    IN  IF W = {} THEN mem[a] ELSE Merge(a, mem[a], pend[CHOOSE p \in W : TRUE].val)

Cycle(G, e) ==
    /\ \A p, q \in G : p # q /\ pend[p].adr = pend[q].adr
                            => \/ Together /\ ~(pend[p].wen /\ pend[q].wen)
                               \/ pend[p].adr \in Unmapped
    /\ \A p \in G : e[p] \in Errors(pend[p])
    /\ mem' = [a \in Words |-> After(a, G, e)]
    /\ rsp' = [p \in Ports |-> IF p \in G THEN Answer(pend[p], e[p]) ELSE None]
    /\ pend' \in [Ports -> Requests \cup {None}]
    /\ \A p \in Ports \ G : pend[p] # None => pend'[p] = pend[p]

Init ==
    /\ mem \in [Words -> Values]
    /\ pend = [p \in Ports |-> None]
    /\ rsp = [p \in Ports |-> None]

Next == \E G \in SUBSET {p \in Ports : pend[p] # None}, e \in [Ports -> BOOLEAN] :
            Cycle(G, e)

Spec == Init /\ [][Next]_vars

=============================================================================
