----------------------------- MODULE RateLimiter -----------------------------
(***************************************************************************)
(* The rate limiter (rate_limit.py), for one key: the hits of one client   *)
(* on one limited endpoint.                                                *)
(*                                                                         *)
(* Several worker processes serve the endpoint, each with a limiter that   *)
(* has a memory of its own.  The backend counts there, or in a store that  *)
(* the processes share: a table of the database, or a sorted set in Redis. *)
(* A hit takes the time before it looks at anything, then counts, and is   *)
(* recorded: under a lock in memory, by two statements of the database,    *)
(* by one pipeline in Redis that records first and is undone for a hit     *)
(* that is refused.                                                        *)
(*                                                                         *)
(* The specification's own names begin with RL, so that one module can     *)
(* extend it together with Lockout.                                        *)
(***************************************************************************)
EXTENDS Naturals, FiniteSets

CONSTANTS
    Hits,        \* requests to the endpoint, each made once
    Processes,
    NoProcess,
    Limits,      \* what rate_limit_<action> may be
    Window,      \* rate_limit_<action>_window_seconds
    MaxTime      \* bound: the time stops there

ASSUME HitsAssumption == IsFiniteSet(Hits)
ASSUME NoProcessAssumption == NoProcess \notin Processes
ASSUME LimitsAssumption == Limits \subseteq Nat
ASSUME WindowAssumption == Window \in Nat \ {0}
ASSUME MaxTimeAssumption == MaxTime \in Nat

VARIABLES
    backend,     \* the setting rate_limit_backend
    failClosed,  \* the setting rate_limit_fail_closed, of the other two
    limit,       \* the setting rate_limit_<action>
    time,
    memory,      \* _store of each process
    shared,      \* rate_limit_entries, or the sorted set
    hit,         \* where each hit stands
    litter       \* history: recorded though the store did not let them in

settings == <<backend, failClosed, limit>>
rlVars == <<settings, time, memory, shared, hit, litter>>

-----------------------------------------------------------------------------

Pcs == {"new", "count", "insert", "undo", "memory", "admitted", "refused"}

(* at: the time it took; by: the process.  beside and kept are history: the *)
(* hits that were under way at the same time, in the database; whether its  *)
(* backend answered it, and has not forgotten since.                        *)
Hit == [pc: Pcs, at: Nat, by: Processes \union {NoProcess},
        beside: SUBSET Hits, kept: BOOLEAN]

Unmade == [pc |-> "new", at |-> 0, by |-> NoProcess, beside |-> {},
           kept |-> FALSE]

RLTypeOK ==
    /\ backend \in {"memory", "db", "redis"}
    /\ failClosed \in BOOLEAN
    /\ limit \in Limits
    /\ time \in Nat
    /\ memory \in [Processes -> SUBSET Hits]
    /\ shared \in SUBSET Hits
    /\ hit \in [Hits -> Hit]
    /\ litter \in SUBSET Hits

RLInit ==
    /\ backend \in {"memory", "db", "redis"}
    /\ failClosed \in IF backend = "memory" THEN {FALSE} ELSE BOOLEAN
    /\ limit \in Limits
    /\ time = 0
    /\ memory = [p \in Processes |-> {}]
    /\ shared = {}
    /\ hit = [h \in Hits |-> Unmade]
    /\ litter = {}

Busy == {h \in Hits : hit[h].pc \notin {"new", "admitted", "refused"}}
Admitted == {h \in Hits : hit[h].pc = "admitted"}

(* Those of H inside the window of the hit h: later than the cutoff. *)
Recent(H, h) == {g \in H : hit[g].at + Window > hit[h].at}

Becomes(h, pc) == hit' = [hit EXCEPT ![h].pc = pc]

-----------------------------------------------------------------------------

TimePasses ==
    /\ time < MaxTime
    /\ time' = time + 1
    /\ UNCHANGED <<settings, memory, shared, hit, litter>>

(* is_allowed: the time is taken, in one of the processes: which one counts *)
(* once its memory decides.                                                 *)
Arrive(h) ==
    LET inMemory == backend = "memory"
        beside == IF backend = "db" THEN Busy ELSE {}
    IN
    /\ hit[h].pc = "new"
    /\ \E p \in IF inMemory THEN Processes ELSE {NoProcess} :
          hit' = [g \in Hits |->
                    CASE g = h -> [pc |-> IF inMemory THEN "memory"
                                                      ELSE "count",
                                   at |-> time, by |-> p, beside |-> beside,
                                   kept |-> TRUE]
                      [] g \in beside -> [hit[g] EXCEPT
                                            !.beside = @ \union {h}]
                      [] OTHER -> hit[g]]
    /\ UNCHANGED <<settings, time, memory, shared, litter>>

(* Mutants of CountInMemory: the limit itself is let pass; a hit that is    *)
(* refused stays in the list.                                               *)
CountInMemoryLate(h) ==
    LET p == hit[h].by
        timestamps == Recent(memory[p], h)
    IN
    /\ hit[h].pc = "memory"
    /\ IF Cardinality(timestamps) > limit
       THEN /\ memory' = [memory EXCEPT ![p] = timestamps]
            /\ Becomes(h, "refused")
       ELSE /\ memory' = [memory EXCEPT ![p] = timestamps \union {h}]
            /\ Becomes(h, "admitted")
    /\ UNCHANGED <<settings, time, shared, litter>>

CountInMemoryAll(h) ==
    LET p == hit[h].by
        timestamps == Recent(memory[p], h)
    IN
    /\ hit[h].pc = "memory"
    /\ memory' = [memory EXCEPT ![p] = timestamps \union {h}]
    /\ Becomes(h, IF Cardinality(timestamps) >= limit
                  THEN "refused" ELSE "admitted")
    /\ UNCHANGED <<settings, time, shared, litter>>

(* _is_allowed_memory, under the lock. *)
CountInMemory(h) ==
    LET p == hit[h].by
        timestamps == Recent(memory[p], h)
    IN
    /\ hit[h].pc = "memory"
    /\ IF Cardinality(timestamps) >= limit
       THEN /\ memory' = [memory EXCEPT ![p] = timestamps]
            /\ Becomes(h, "refused")
       ELSE /\ memory' = [memory EXCEPT ![p] = timestamps \union {h}]
            /\ Becomes(h, "admitted")
    /\ UNCHANGED <<settings, time, shared, litter>>

(* _is_allowed_db: the hits in the window are counted *)
CountInDb(h) ==
    /\ backend = "db"
    /\ hit[h].pc = "count"
    /\ Becomes(h, IF Cardinality(Recent(shared, h)) >= limit
                  THEN "refused" ELSE "insert")
    /\ UNCHANGED <<settings, time, memory, shared, litter>>

(* Mutant of InsertInDb: the cutoff is the end of the window. *)
InsertInDbOnly(h) ==
    /\ hit[h].pc = "insert"
    /\ shared' = {g \in shared : hit[g].at >= hit[h].at} \union {h}
    /\ Becomes(h, "admitted")
    /\ UNCHANGED <<settings, time, memory, litter>>

(* ... the hit is recorded and what is older is deleted, in one commit. *)
InsertInDb(h) ==
    /\ hit[h].pc = "insert"
    /\ shared' = Recent(shared, h) \union {h}
    /\ Becomes(h, "admitted")
    /\ UNCHANGED <<settings, time, memory, litter>>

(* _is_allowed_redis: what is older goes, the rest is counted, the hit is   *)
(* recorded, in one pipeline                                                *)
Pipeline(h) ==
    /\ backend = "redis"
    /\ hit[h].pc = "count"
    /\ shared' = Recent(shared, h) \union {h}
    /\ IF Cardinality(Recent(shared, h)) >= limit
       THEN Becomes(h, "undo") /\ litter' = litter \union {h}
       ELSE Becomes(h, "admitted") /\ UNCHANGED litter
    /\ UNCHANGED <<settings, time, memory>>

(* Mutants of Undo: the record stays; the hit is told so. *)
UndoNothing(h) ==
    /\ hit[h].pc = "undo"
    /\ litter' = litter \ {h}
    /\ Becomes(h, "refused")
    /\ UNCHANGED <<settings, time, memory, shared>>

UndoSoft(h) ==
    /\ hit[h].pc = "undo"
    /\ shared' = shared \ {h}
    /\ litter' = litter \ {h}
    /\ Becomes(h, "undone")
    /\ UNCHANGED <<settings, time, memory>>

(* ... and one that is refused is taken back. *)
Undo(h) ==
    /\ hit[h].pc = "undo"
    /\ shared' = shared \ {h}
    /\ litter' = litter \ {h}
    /\ Becomes(h, "refused")
    /\ UNCHANGED <<settings, time, memory>>

(* The store is out of reach, at any statement; whether the statement was   *)
(* carried out nobody knows.  The memory of the process decides, or nobody  *)
(* gets in.                                                                 *)
StoreFails(h) ==
    /\ hit[h].pc \in {"count", "insert", "undo"}
    /\ IF failClosed
       THEN hit' = [hit EXCEPT ![h].pc = "refused", ![h].kept = FALSE]
       ELSE \E p \in Processes :
               hit' = [hit EXCEPT ![h].pc = "memory", ![h].by = p,
                                  ![h].kept = FALSE]
    /\ \/ UNCHANGED <<shared, litter>>
       \/ /\ \/ backend = "redis" /\ hit[h].pc = "count"
             \/ hit[h].pc = "insert"
          /\ shared' = Recent(shared, h) \union {h}
          /\ litter' = litter \union {h}
       \/ /\ hit[h].pc = "undo"
          /\ shared' = shared \ {h}
          /\ litter' = litter \ {h}
    /\ UNCHANGED <<settings, time, memory>>

(* A process dies with the hits it has under way, and forgets. *)
Restart(p) ==
    \E lost \in SUBSET {h \in Busy : hit[h].by = NoProcess} :
       LET gone == lost \union {h \in Busy : hit[h].by = p} IN
       /\ memory' = [memory EXCEPT ![p] = {}]
       /\ hit' = [h \in Hits |->
                    [hit[h] EXCEPT
                        !.pc = IF h \in gone THEN "refused" ELSE @,
                        !.kept = @ /\ h \notin gone /\ hit[h].by # p]]
       /\ UNCHANGED <<settings, time, shared, litter>>

RLNext ==
    \/ TimePasses
    \/ \E h \in Hits : \/ Arrive(h) \/ CountInMemory(h)
                       \/ CountInDb(h) \/ InsertInDb(h)
                       \/ Pipeline(h) \/ Undo(h) \/ StoreFails(h)
    \/ \E p \in Processes : Restart(p)

RLSpec == RLInit /\ [][RLNext]_rlVars

-----------------------------------------------------------------------------
(* Properties. *)

(* The hits that the store which decides on h has let in. *)
Rivals(h) == {g \in Admitted : backend = "memory" => hit[g].by = hit[h].by}

(* None that took a later time is there yet. *)
InOrder(h) == \A g \in Hits : hit[g].pc # "new" => hit[g].at <= hit[h].at

(* In the window that ends with a hit the store lets in at most limit, as   *)
(* long as the hits come in the order of their times, no process restarts   *)
(* and the store answers; the database, not counting the hits that were     *)
(* under way together with that hit.                                        *)
LimitHolds ==
    [][\A h \in Hits :
          /\ hit[h].pc # "admitted" /\ hit'[h].pc = "admitted"
          /\ hit'[h].kept /\ InOrder(h)
          => LET before == {g \in Recent(Rivals(h), h) : hit[g].kept}
             IN  Cardinality(before \ hit[h].beside) < limit]_rlVars

(* Whoever is refused has had limit hits in the window: those that were     *)
(* refused do not count ("so rejected attempts don't pollute window"),      *)
(* unless one in Redis is yet to be taken back, or the store failed before  *)
(* it was.                                                                  *)
RefusedForCause ==
    [][\A h \in Hits :
          /\ hit[h].pc \in {"memory", "count"}
          /\ hit'[h].pc \in {"undo", "refused"} /\ hit'[h].kept
          => Cardinality(Recent(Rivals(h) \union litter, h)) >= limit]_rlVars

-----------------------------------------------------------------------------
(* The strengthening that makes them inductive. *)

(* A store is asked only where there is one; memory decides of itself only  *)
(* where there is none.                                                     *)
RightStore ==
    \A h \in Hits :
       /\ hit[h].pc \in {"count", "insert", "undo"} => backend # "memory"
       /\ hit[h].pc = "insert" => backend = "db"
       /\ hit[h].pc = "memory" => hit[h].by \in Processes
       /\ hit[h].pc = "memory" /\ hit[h].kept => backend = "memory"
       /\ hit[h].pc # "new" /\ backend = "memory" => hit[h].by \in Processes

(* What a store holds it has let in, or owes an explanation for. *)
HeldWasLetIn ==
    /\ \A p \in Processes : memory[p] \subseteq {g \in Admitted : hit[g].by = p}
    /\ shared \subseteq Admitted \union litter

(* Out of the window of a hit that has taken its time already. *)
Outlived(g) ==
    \E f \in Hits : hit[f].pc # "new" /\ hit[g].at + Window <= hit[f].at

Held(g) == g \in IF backend = "memory" THEN memory[hit[g].by] ELSE shared

(* A store drops what it let in only when it has left a window, unless it   *)
(* forgets.                                                                 *)
LetInIsHeld == \A g \in Admitted : hit[g].kept => Held(g) \/ Outlived(g)

(* Hits of the database that are under way together know of each other, *)
BesideIsKnown ==
    backend = "db" => \A h, g \in Busy : g # h => g \in hit[h].beside

(* so that nobody else has come between the count of one and its insertion. *)
CountedBefore ==
    \A h \in Hits :
       hit[h].pc = "insert"
         => Cardinality(Recent(shared, h) \ hit[h].beside) < limit

RLInv ==
    /\ RightStore /\ HeldWasLetIn /\ LetInIsHeld
    /\ BesideIsKnown /\ CountedBefore

(* A process never has more records of a key than the limit. *)
MemoryBounded == \A p \in Processes : Cardinality(memory[p]) <= limit
=============================================================================
