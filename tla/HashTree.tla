------------------------------ MODULE HashTree ------------------------------
(* What emit_audit promises of the audit log, whatever its interleaving:    *)
(* rows are only added, each carries the hash of its own contents, and each *)
(* is chained to a row that was in the log.  Only somebody who writes to    *)
(* the table behind the application's back changes or removes a row.        *)
EXTENDS Sequences

CONSTANTS
    Emissions,  \* the rows that may be written
    Payloads,   \* what a row says
    Payload     \* what each row says when it is written

VARIABLES
    log,     \* the rows, by the emission that wrote them
    hashes   \* the hashes there are to be chained to

GENESIS == <<>>

Chained(previous, payload) ==
    [previous |-> previous, payload |-> payload,
     integrity |-> Append(previous, payload)]

Init == log = [e \in {} |-> Chained(GENESIS, Payload[e])] /\ hashes = {GENESIS}

Extend(e) ==
    /\ e \notin DOMAIN log
    /\ \E h \in hashes :
          /\ log' = [d \in DOMAIN log \union {e} |->
                       IF d = e THEN Chained(h, Payload[e]) ELSE log[d]]
          /\ hashes' = hashes \union {Append(h, Payload[e])}

Tamper(e) ==
    /\ e \in DOMAIN log
    /\ \/ log' = [d \in DOMAIN log \ {e} |-> log[d]]
       \/ \E p \in Payloads : log' = [log EXCEPT ![e].payload = p]
    /\ UNCHANGED hashes

Next == \E e \in Emissions : Extend(e) \/ Tamper(e)

Spec == Init /\ [][Next]_<<log, hashes>>
=============================================================================
