------------------------------ MODULE AuditLog ------------------------------
(***************************************************************************)
(* The hash-chained audit log: emit_audit (services.py), the offline       *)
(* verifier (scripts/verify_audit_chain.py) and the reconciliation feed    *)
(* from which a downstream service copies the log (routes/admin.py).       *)
(*                                                                         *)
(* An emission reads the newest row, writes its own with the clock and the *)
(* hash of what it read, and commits.  The three are separate steps of one *)
(* request, and requests run in parallel worker threads.  SHA-256 is taken *)
(* as collision free: the hash of a row is the sequence of payloads it     *)
(* covers.  The clock advances between two rows: equal timestamps (ordered *)
(* by a random id) and clocks set back are left out.                       *)
(***************************************************************************)
EXTENDS Naturals, Sequences, FiniteSets

CONSTANTS
    Emissions,        \* the calls of emit_audit
    Payloads,         \* what action, actor, resource and details say
    Payload,          \* the payload of each emission
    PageSize,         \* the limit of the feed
    NoCursor          \* since_id is absent

ASSUME EmissionsAssumption == IsFiniteSet(Emissions)
ASSUME PayloadAssumption == Payload \in [Emissions -> Payloads]
ASSUME NoCursorAssumption == NoCursor \notin Emissions
ASSUME PageSizeAssumption == PageSize \in Nat \ {0}

VARIABLES
    phase,      \* how far each emission has come
    event,      \* the row each emission writes
    clock,
    cursor,     \* the consumer's since_id
    delivered,  \* the rows the consumer has received
    beside,     \* history: the emissions in flight together with each
    tampered    \* history: whether the table was written from outside

vars == <<phase, event, clock, cursor, delivered, beside, tampered>>

-----------------------------------------------------------------------------

Hashes == Seq(Payloads)
GENESIS == <<>>

(* occurred_at, previous_hash, the columns the hash covers, integrity_hash. *)
Event == [at: Nat, previous: Hashes, payload: Payloads, integrity: Hashes]

(* Mutant of compute_event_hash: previous_hash is not part of the payload. *)
HashOfPayloadOnly(previous, payload) == Append(GENESIS, payload)

compute_event_hash(previous, payload) == Append(previous, payload)

Unwritten(e) == [at |-> 0, previous |-> GENESIS, payload |-> Payload[e],
                 integrity |-> GENESIS]

Phases == {"waiting", "read", "written", "logged", "lost", "removed"}

TypeOK ==
    /\ phase \in [Emissions -> Phases]
    /\ event \in [Emissions -> Event]
    /\ clock \in Nat
    /\ cursor \in Emissions \union {NoCursor}
    /\ delivered \in SUBSET Emissions
    /\ beside \in [Emissions -> SUBSET Emissions]
    /\ tampered \in {"no", "at an end", "inside"}

Init ==
    /\ phase = [e \in Emissions |-> "waiting"]
    /\ event = [e \in Emissions |-> Unwritten(e)]
    /\ clock = 1
    /\ cursor = NoCursor
    /\ delivered = {}
    /\ beside = [e \in Emissions |-> {}]
    /\ tampered = "no"

Logged == {e \in Emissions : phase[e] = "logged"}
InFlight == {e \in Emissions : phase[e] \in {"read", "written"}}

(* The order in which the table is read, and its greatest row among S. *)
Before(d, e) == event[d].at < event[e].at
Newest(d, S) == d \in S /\ \A g \in S \ {d} : Before(g, d)

UNCHANGEDFeed == UNCHANGED <<cursor, delivered>>

-----------------------------------------------------------------------------
(* emit_audit *)

(* A row is begun, chained to h. *)
ReadFrom(e, h) ==
    /\ phase[e] = "waiting"
    /\ event' = [event EXCEPT ![e].previous = h]
    /\ phase' = [phase EXCEPT ![e] = "read"]
    /\ beside' = [d \in Emissions |->
                    IF d = e THEN InFlight
                    ELSE IF d \in InFlight THEN beside[d] \union {e}
                    ELSE beside[d]]
    /\ UNCHANGED <<clock, tampered>>
    /\ UNCHANGEDFeed

(* Mutants of ReadLast: the oldest row is read; rows are read before they   *)
(* are committed; the id of the row is taken for its hash.                  *)
ReadFirst(e) ==
    \/ Logged = {} /\ ReadFrom(e, GENESIS)
    \/ \E d \in Logged : (\A g \in Logged \ {d} : Before(d, g))
                        /\ ReadFrom(e, event[d].integrity)

ReadDirty(e) ==
    LET Visible == Logged \union {d \in Emissions : phase[d] = "written"} IN
    \/ Visible = {} /\ ReadFrom(e, GENESIS)
    \/ \E d \in Visible : /\ Newest(d, Visible)
                         /\ ReadFrom(e, event[d].integrity)

ReadId(e) ==
    \/ Logged = {} /\ ReadFrom(e, GENESIS)
    \/ \E d \in Logged : Newest(d, Logged) /\ ReadFrom(e, d)

(* The newest committed row is read. *)
ReadLast(e) ==
    \/ Logged = {} /\ ReadFrom(e, GENESIS)
    \/ \E d \in Logged : Newest(d, Logged) /\ ReadFrom(e, event[d].integrity)

(* Flush: occurred_at takes the time, integrity_hash covers the row. *)
Write(e) ==
    /\ phase[e] = "read"
    /\ event' = [event EXCEPT
                   ![e].at = clock,
                   ![e].integrity = compute_event_hash(event[e].previous,
                                                       event[e].payload)]
    /\ clock' = clock + 1
    /\ phase' = [phase EXCEPT ![e] = "written"]
    /\ UNCHANGED <<beside, tampered>>
    /\ UNCHANGEDFeed

Commit(e) ==
    /\ phase[e] = "written"
    /\ phase' = [phase EXCEPT ![e] = "logged"]
    /\ UNCHANGED <<event, clock, beside, tampered>>
    /\ UNCHANGEDFeed

(* The worker dies; what was not committed is rolled back. *)
Crash(e) ==
    /\ e \in InFlight
    /\ phase' = [phase EXCEPT ![e] = "lost"]
    /\ UNCHANGED <<event, clock, beside, tampered>>
    /\ UNCHANGEDFeed

-----------------------------------------------------------------------------
(* Writes to the table that bypass the application (models.py forbids them  *)
(* to it): at most one, of the row of e.                                    *)

Edit(e) ==
    /\ tampered = "no"
    /\ e \in Logged
    /\ \E p \in Payloads \ {event[e].payload} :
          event' = [event EXCEPT ![e].payload = p]
    /\ tampered' = "inside"
    /\ UNCHANGED <<phase, clock, beside>>
    /\ UNCHANGEDFeed

Remove(e) ==
    /\ tampered = "no"
    /\ e \in Logged
    /\ phase' = [phase EXCEPT ![e] = "removed"]
    /\ tampered' = IF /\ \E d \in Logged : Before(d, e)
                      /\ \E d \in Logged : Before(e, d)
                   THEN "inside" ELSE "at an end"
    /\ UNCHANGED <<event, clock, beside>>
    /\ UNCHANGEDFeed

-----------------------------------------------------------------------------
(* GET /reconciliation/events, and a consumer that comes back with the      *)
(* next_cursor of the last page that was not empty.                         *)

(* Mutant of AfterCursor: nothing comes after a row that is not there. *)
AfterKnownCursor ==
    {e \in Logged :
        cursor = NoCursor \/ (cursor \in Logged /\ Before(cursor, e))}

(* The rows after the cursor; all of them if there is no such row. *)
AfterCursor ==
    IF cursor \in Logged THEN {e \in Logged : Before(cursor, e)} ELSE Logged

Page ==
    {e \in AfterCursor :
        Cardinality({d \in AfterCursor : Before(d, e)}) < PageSize}

(* Mutant of Poll: next_cursor is taken before the probe row is cut off. *)
PollProbe ==
    LET Probed == {e \in AfterCursor :
                     Cardinality({d \in AfterCursor : Before(d, e)}) <= PageSize}
    IN
    /\ Page # {}
    /\ delivered' = delivered \union Page
    /\ \E e \in Probed : Newest(e, Probed) /\ cursor' = e
    /\ UNCHANGED <<phase, event, clock, beside, tampered>>

Poll ==
    /\ Page # {}
    /\ delivered' = delivered \union Page
    /\ \E e \in Page : Newest(e, Page) /\ cursor' = e
    /\ UNCHANGED <<phase, event, clock, beside, tampered>>

-----------------------------------------------------------------------------

Emit(e) == ReadLast(e) \/ Write(e) \/ Commit(e) \/ Crash(e)

Next ==
    \/ \E e \in Emissions : Emit(e) \/ Edit(e) \/ Remove(e)
    \/ Poll

(* The consumer keeps polling. *)
Spec == Init /\ [][Next]_vars /\ WF_vars(Poll)

-----------------------------------------------------------------------------
(* verify_events: every row carries the hash of its contents, and every row *)
(* but the first the hash of the row before it.                             *)

HashMatches(e) ==
    event[e].integrity = compute_event_hash(event[e].previous, event[e].payload)

Preceding(e) == {g \in Logged : Before(g, e)}

Linked(e) ==
    \A d \in Logged :
        Newest(d, Preceding(e)) => event[e].previous = event[d].integrity

verify_events == \A e \in Logged : HashMatches(e) /\ Linked(e)

-----------------------------------------------------------------------------
(* Properties. *)

(* emit_audit breaks the chain only where two emissions overlapped: a row   *)
(* is linked to the row before it unless the two were in flight together,   *)
(* whatever crashed or overlapped besides.                                  *)
BreaksOnlyAtOverlaps ==
    tampered = "no" =>
        \A e \in Logged :
            Linked(e) \/ \E d \in beside[e] : Newest(d, Preceding(e))

Committed == {e \in Emissions : phase[e] \in {"logged", "removed"}}

(* No two emissions that committed were in flight together. *)
Apart == \A e \in Committed : beside[e] \intersect Committed = {}

(* A log whose emissions were apart is verified if nobody wrote to the      *)
(* table, and no longer verified once somebody edited what a hash covers or *)
(* removed a row from inside the log, however many rows have been chained   *)
(* after it since, and whatever emissions died beside them.                 *)
TamperingIsNoticed ==
    Apart =>
        /\ tampered = "no" => verify_events
        /\ tampered = "inside" => ~verify_events

(* A later row was served that was in flight together with that of e. *)
Skipped(e) == \E f \in beside[e] \intersect delivered : Before(e, f)

(* The feed: a row the cursor has passed was delivered, unless a later row  *)
(* that was in flight together with it was served before it committed.      *)
SkipsOnlyOverlapped ==
    \A e \in Logged :
        cursor # NoCursor /\ Before(e, cursor) => e \in delivered \/ Skipped(e)

Due == {e \in Logged \ delivered : ~Skipped(e)}

(* Every row that is not skipped when it commits is delivered, unless it is *)
(* removed from the table first.                                            *)
FeedCatchesUp ==
    \A e \in Emissions : e \in Due ~> e \in delivered \/ e \notin Logged

(* The log is the hash tree of the abstract specification: an emission, by  *)
(* itself or among others, adds one row chained to a row that was           *)
(* committed, and changes no other.                                         *)
Tree == INSTANCE HashTree WITH
    log <- [e \in Logged |-> [previous |-> event[e].previous,
                              payload |-> event[e].payload,
                              integrity |-> event[e].integrity]],
    hashes <- {GENESIS} \union {event[e].integrity : e \in Committed}

ImplementsHashTree == Tree!Spec

-----------------------------------------------------------------------------
(* The strengthening that makes the invariants inductive. *)

(* Rows are dated in the order in which they are written. *)
ClockOrders ==
    /\ clock > 0
    /\ \A e \in Emissions :
          /\ event[e].at < clock
          /\ phase[e] \in {"waiting", "read"} => event[e].at = 0
          /\ phase[e] \in {"written", "logged", "removed"} => event[e].at > 0
    /\ \A d, e \in Emissions :
          event[d].at = event[e].at /\ event[d].at > 0 => d = e

(* What a row is chained to was committed, and until it is committed nobody *)
(* touches it.                                                              *)
RowsAreChained ==
    \A e \in Emissions :
        /\ \/ event[e].previous = GENESIS
           \/ \E d \in Committed : event[e].previous = event[d].integrity
        /\ phase[e] \in {"waiting", "read", "written"}
              => event[e].payload = Payload[e]
        /\ phase[e] = "written" \/ (phase[e] = "logged" /\ tampered = "no")
              => HashMatches(e)

BesideIsMutual ==
    /\ \A d, e \in Emissions : d \in beside[e] => e \in beside[d] /\ d # e
    /\ \A d, e \in InFlight : d # e => d \in beside[e]
    /\ \A e \in Emissions : phase[e] = "waiting" => beside[e] = {}

(* What an emission has read is the newest row but for those that were in   *)
(* flight together with it.                                                 *)
ReadIsNewest ==
    \A e \in InFlight :
        tampered = "no" =>
            \A d \in Logged : Newest(d, Logged \ beside[e])
                              => event[e].previous = event[d].integrity

(* Rows come in the order of their commits but for those. *)
PassedOnlyBeside ==
    \A d \in Committed, e \in Emissions :
        phase[e] = "written" => Before(d, e) \/ d \in beside[e]

(* What was delivered was committed, the row of the cursor among it. *)
CursorIsServed ==
    /\ delivered \subseteq Committed
    /\ cursor # NoCursor => cursor \in delivered

ChainInv ==
    /\ ClockOrders /\ RowsAreChained
    /\ BesideIsMutual /\ ReadIsNewest /\ PassedOnlyBeside
    /\ BreaksOnlyAtOverlaps

FeedInv == CursorIsServed /\ SkipsOnlyOverlapped

(* Untouched and apart every row is next to its neighbours. *)
LogIsComplete ==
    Apart /\ tampered = "no" =>
        /\ Logged = {} \/ \E d \in Logged : Newest(d, Logged)
        /\ \A e \in Logged :
              /\ Preceding(e) = {} \/ \E d \in Logged : Newest(d, Preceding(e))
              /\ \/ Newest(e, Logged)
                 \/ \E g \in Logged : Newest(e, Preceding(g))

(* Once touched inside there is a row whose hash is wrong, or one that is   *)
(* not chained to the row before it.                                        *)
TraceRemains ==
    Apart /\ tampered = "inside" =>
        \/ \E e \in Logged : ~HashMatches(e)
        \/ \E d, e \in Logged : /\ Newest(d, Preceding(e))
                                /\ event[e].previous # event[d].integrity

TraceInv == LogIsComplete /\ TraceRemains

-----------------------------------------------------------------------------
(* What FeedCatchesUp rests on. *)

(* The feed has something to serve while a row is due: an empty page, where *)
(* the consumer stops, tells the truth.                                     *)
FeedNeverStalls == Due # {} => Page # {}

(* The rows that the feed serves before that of e. *)
Ahead(e) == {d \in AfterCursor : Before(d, e)}

(* A row that is due stays due until it is delivered or removed.  A poll    *)
(* that does not deliver it shortens what is ahead of it.  What lengthens   *)
(* that is the commit of a row that was in flight together with it, or a    *)
(* removal of the row of the cursor, after which the feed starts over.      *)
FeedAdvances ==
    \A e \in Due :
        /\ e \in Due' \union delivered' \/ e \notin Logged'
        /\ Poll => e \in delivered' \/ Ahead(e)' # Ahead(e)
        /\ (cursor \in Logged => cursor \in Logged') /\ e \notin delivered'
              => Ahead(e)' \subseteq Ahead(e) \union (beside[e] \ Logged)

FeedProgress == [][FeedAdvances]_vars
=============================================================================
