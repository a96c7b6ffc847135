---------------------------- MODULE AuditLogProofs ----------------------------
(* Theorems about AuditLog, for any finite number of emissions, any         *)
(* payloads and any size of a page.                                         *)
EXTENDS AuditLog, FiniteSetTheorems, WellFoundedInduction, TLAPS

USE NoCursorAssumption, PageSizeAssumption

Inv == TypeOK /\ ChainInv /\ FeedInv /\ TraceInv

-----------------------------------------------------------------------------
(* What an action does to the rows. *)

LEMMA RowType ==
    ASSUME TypeOK, NEW e \in Emissions
    PROVE  /\ event[e] \in Event /\ event[e].at \in Nat
           /\ event[e].previous \in Seq(Payloads)
           /\ event[e].payload \in Payloads
           /\ event[e].integrity \in Seq(Payloads)
           /\ phase[e] \in Phases /\ Payload[e] \in Payloads
BY PayloadAssumption DEF TypeOK, Event, Hashes

LEMMA Longer ==
    ASSUME NEW s \in Seq(Payloads), NEW p \in Payloads
    PROVE  /\ Append(s, p) \in Seq(Payloads) /\ Append(s, p) # s
           /\ \A q \in Payloads : Append(s, p) = Append(s, q) => p = q
<1>1. /\ Append(s, p) \in Seq(Payloads) /\ Len(Append(s, p)) = Len(s) + 1
      /\ Len(s) \in Nat /\ Append(s, p)[Len(s) + 1] = p
      /\ \A q \in Payloads : Append(s, q)[Len(s) + 1] = q
  OBVIOUS
<1>2. QED
  BY <1>1

(* The emission e goes to pc; no other does anything.                       *)
Goes(e, pc) ==
    /\ phase' \in [Emissions -> Phases]
    /\ phase'[e] = pc
    /\ \A d \in Emissions : d # e => phase'[d] = phase[d]

LEMMA GoesTo ==
    ASSUME TypeOK, NEW e \in Emissions, NEW pc \in Phases,
           phase' = [phase EXCEPT ![e] = pc]
    PROVE  Goes(e, pc)
BY DEF Goes, TypeOK

(* The row of e changes in one column or several; no other row does.        *)
Changes(e) ==
    /\ event' \in [Emissions -> Event]
    /\ \A d \in Emissions : d # e => event'[d] = event[d]

(* The rows that have been committed stay as they are. *)
LogKept ==
    /\ Logged' = Logged /\ Committed' = Committed
    /\ \A d \in Committed : event'[d] = event[d] /\ beside'[d] = beside[d]
    /\ tampered' = tampered

LEMMA KeepsLog ==
    ASSUME Inv, LogKept
    PROVE  BreaksOnlyAtOverlaps' /\ LogIsComplete' /\ TraceRemains'
<1>1. /\ Logged' = Logged /\ Logged \subseteq Committed
      /\ \A d \in Logged : event'[d] = event[d] /\ beside'[d] = beside[d]
      /\ tampered' = tampered
  BY DEF LogKept, Logged, Committed
<1>2. \A d, e \in Logged : Before(d, e)' <=> Before(d, e)
  BY <1>1 DEF Before
<1>3. \A d \in Logged : /\ HashMatches(d)' <=> HashMatches(d)
                        /\ Preceding(d)' = Preceding(d)
                        /\ Preceding(d) \subseteq Logged
  BY <1>1, <1>2 DEF HashMatches, Preceding
<1>4. \A d \in Logged, S \in SUBSET Logged : Newest(d, S)' <=> Newest(d, S)
  BY <1>2 DEF Newest
<1>5. BreaksOnlyAtOverlaps'
  <2>1. \A d \in Logged : Linked(d) => Linked(d)'
    BY <1>1, <1>3, <1>4 DEF Linked
  <2>2. \A d \in Logged :
          \A e : Newest(e, Preceding(d)) => Newest(e, Preceding(d))'
    BY <1>3, <1>4 DEF Newest
  <2>3. QED
    BY <1>1, <2>1, <2>2 DEF Inv, ChainInv, BreaksOnlyAtOverlaps
<1>6. Apart' <=> Apart
  BY DEF LogKept, Apart
<1>7. LogIsComplete'
  BY <1>1, <1>3, <1>4, <1>6 DEF Inv, TraceInv, LogIsComplete
<1>8. TraceRemains'
  BY <1>1, <1>3, <1>4, <1>6 DEF Inv, TraceInv, TraceRemains
<1>9. QED
  BY <1>5, <1>7, <1>8

LEMMA KeepsFeed ==
    ASSUME Inv, LogKept, UNCHANGED <<cursor, delivered>>
    PROVE  FeedInv'
<1>1. /\ delivered \subseteq Committed
      /\ cursor # NoCursor => cursor \in delivered
  BY DEF Inv, FeedInv, CursorIsServed
<1>2. Logged \subseteq Committed
  BY DEF Logged, Committed
<1>3. \A d, e \in Committed : Before(d, e)' <=> Before(d, e)
  BY DEF LogKept, Before
<1>4. \A e \in Committed : Skipped(e)' <=> Skipped(e)
  BY <1>1, <1>3 DEF LogKept, Skipped
<1>5. CursorIsServed'
  BY <1>1 DEF LogKept, CursorIsServed
<1>6. SkipsOnlyOverlapped'
  BY <1>1, <1>2, <1>3, <1>4 DEF Inv, FeedInv, SkipsOnlyOverlapped, LogKept
<1>7. QED
  BY <1>5, <1>6 DEF FeedInv

-----------------------------------------------------------------------------
(* emit_audit *)

(* The emission e joins those in flight. *)
BesideWith(e) ==
    /\ beside' \in [Emissions -> SUBSET Emissions]
    /\ beside'[e] = InFlight
    /\ \A d \in InFlight \ {e} : beside'[d] = beside[d] \union {e}
    /\ \A d \in Emissions \ (InFlight \union {e}) : beside'[d] = beside[d]

(* A row is begun: it is chained to the newest committed one.               *)
LEMMA ReadFacts ==
    ASSUME Inv, NEW e \in Emissions, ReadLast(e)
    PROVE  /\ phase[e] = "waiting" /\ Goes(e, "read") /\ Changes(e)
           /\ event'[e].at = event[e].at /\ event'[e].payload = event[e].payload
           /\ event'[e].integrity = event[e].integrity
           /\ \/ event'[e].previous = GENESIS
              \/ \E d \in Committed : event'[e].previous = event[d].integrity
           /\ \A d \in Logged : Newest(d, Logged)
                                => event'[e].previous = event[d].integrity
           /\ BesideWith(e)
           /\ UNCHANGED <<clock, cursor, delivered, tampered>>
<1>1. PICK h : /\ ReadFrom(e, h)
               /\ h = GENESIS \/ \E d \in Logged : h = event[d].integrity
               /\ \A d \in Logged : Newest(d, Logged) => h = event[d].integrity
  <2>1. CASE Logged = {} /\ ReadFrom(e, GENESIS)
    BY <2>1
  <2>2. CASE \E d \in Logged : /\ Newest(d, Logged)
                               /\ ReadFrom(e, event[d].integrity)
    <3>1. PICK d \in Logged : /\ Newest(d, Logged)
                              /\ ReadFrom(e, event[d].integrity)
      BY <2>2
    <3>2. \A g \in Logged : Newest(g, Logged) => g = d
      BY <3>1, RowType DEF Newest, Before, Logged, Inv
    <3>3. QED
      BY <3>1, <3>2
  <2>3. QED
    BY <2>1, <2>2 DEF ReadLast
<1>2. h \in Seq(Payloads)
  <2>1. GENESIS \in Seq(Payloads)
    BY DEF GENESIS
  <2>2. \A d \in Logged : event[d].integrity \in Seq(Payloads)
    BY RowType DEF Inv, Logged
  <2>3. QED
    BY <1>1, <2>1, <2>2
<1>3. event[e] \in Event /\ event \in [Emissions -> Event]
  BY DEF Inv, TypeOK
<1> DEFINE q == [event[e] EXCEPT !.previous = h]
<1>4. /\ q \in Event /\ q.at = event[e].at /\ q.payload = event[e].payload
      /\ q.integrity = event[e].integrity /\ q.previous = h
  BY <1>2, <1>3 DEF Event, Hashes
<1>5. event' = [event EXCEPT ![e] = q]
  BY <1>1 DEF ReadFrom
<1> HIDE DEF q
<1>6. Changes(e) /\ event'[e] = q
  BY <1>3, <1>4, <1>5 DEF Changes
<1>7. Goes(e, "read")
  BY <1>1, GoesTo DEF ReadFrom, Phases, Inv
<1>8. BesideWith(e)
  BY <1>1 DEF ReadFrom, BesideWith, InFlight, Inv, TypeOK
<1>9. QED
  BY <1>1, <1>4, <1>6, <1>7, <1>8 DEF ReadFrom, UNCHANGEDFeed, Logged, Committed

LEMMA ReadStep ==
    ASSUME Inv, NEW e \in Emissions, ReadLast(e)
    PROVE  Inv'
<1>1. /\ phase[e] = "waiting" /\ Goes(e, "read") /\ Changes(e)
      /\ event'[e].at = event[e].at /\ event'[e].payload = event[e].payload
      /\ event'[e].integrity = event[e].integrity
      /\ \/ event'[e].previous = GENESIS
         \/ \E d \in Committed : event'[e].previous = event[d].integrity
      /\ \A d \in Logged : Newest(d, Logged)
                           => event'[e].previous = event[d].integrity
      /\ BesideWith(e)
      /\ UNCHANGED <<clock, cursor, delivered, tampered>>
  BY ReadFacts
<1>2. /\ Logged' = Logged /\ Committed' = Committed
      /\ InFlight' = InFlight \union {e}
      /\ e \notin Committed /\ e \notin Logged
      /\ \A d \in Emissions : /\ event'[d].at = event[d].at
                              /\ event'[d].integrity = event[d].integrity
                              /\ event'[d].payload = event[d].payload
      /\ \A d \in Emissions \ {e} : event'[d] = event[d] /\ phase'[d] = phase[d]
  BY <1>1 DEF Goes, Changes, Logged, Committed, InFlight
<1>3. TypeOK'
  BY <1>1 DEF Inv, TypeOK, Goes, Changes, BesideWith
<1>4. ClockOrders'
  BY <1>1, <1>2 DEF Inv, ChainInv, ClockOrders, Goes
<1>5. RowsAreChained'
  <2>1. \A d \in Emissions :
           \/ event'[d].previous = GENESIS
           \/ \E g \in Committed : event'[d].previous = event[g].integrity
    BY <1>1, <1>2 DEF Inv, ChainInv, RowsAreChained
  <2>2. \A d \in Emissions :
           phase'[d] = "written" \/ (phase'[d] = "logged" /\ tampered = "no")
           => d # e
    BY <1>1 DEF Goes
  <2>3. \A d \in Emissions \ {e} : HashMatches(d)' <=> HashMatches(d)
    BY <1>2 DEF HashMatches
  <2>4. QED
    BY <1>1, <1>2, <2>1, <2>2, <2>3 DEF Inv, ChainInv, RowsAreChained, Goes,
       Committed
<1>6. /\ e \notin InFlight /\ beside[e] = {}
      /\ \A d \in Emissions : e \notin beside[d]
      /\ \A d \in Committed : beside'[d] = beside[d]
  <2>1. e \notin InFlight /\ beside[e] = {}
    BY <1>1 DEF InFlight, Inv, ChainInv, BesideIsMutual
  <2>2. \A d \in Committed : d \in Emissions \ (InFlight \union {e})
    BY <1>2 DEF Committed, InFlight
  <2>3. QED
    BY <1>1, <2>1, <2>2 DEF Inv, ChainInv, BesideIsMutual, BesideWith
<1>7. BesideIsMutual'
  BY <1>1, <1>2, <1>6 DEF Inv, ChainInv, BesideIsMutual, BesideWith, Goes,
     InFlight
<1>8. ReadIsNewest'
  <2>1. \A d \in Logged, S \in SUBSET Logged : Newest(d, S)' <=> Newest(d, S)
    BY <1>2 DEF Newest, Before, Logged
  <2>2. Logged \ beside'[e] = Logged
    BY <1>1 DEF BesideWith, InFlight, Logged
  <2>3. \A d \in InFlight : Logged \ beside'[d] = Logged \ beside[d]
    BY <1>1, <1>2, <1>6 DEF BesideWith, InFlight
  <2>4. \A d \in InFlight : event'[d].previous = event[d].previous
    BY <1>2, <1>6 DEF InFlight
  <2>5. \A d \in Logged : event'[d].integrity = event[d].integrity
    BY <1>2 DEF Logged
  <2>6. ASSUME NEW d \in InFlight, NEW g \in Logged, tampered = "no",
               Newest(g, Logged \ beside[d])'
        PROVE  event'[d].previous = event'[g].integrity
    <3>1. Newest(g, Logged \ beside[d])
      BY <1>2, <2>1, <2>3, <2>6
    <3>2. QED
      BY <2>4, <2>5, <2>6, <3>1 DEF Inv, ChainInv, ReadIsNewest
  <2>7. ASSUME NEW g \in Logged, Newest(g, Logged \ beside[e])'
        PROVE  event'[e].previous = event'[g].integrity
    <3>1. Newest(g, Logged)
      BY <1>2, <2>1, <2>2, <2>7
    <3>2. QED
      BY <1>1, <2>5, <3>1
  <2>8. QED
    BY <1>1, <1>2, <2>6, <2>7 DEF ReadIsNewest
<1>9. PassedOnlyBeside'
  <2>1. \A d \in Emissions \ {e} : beside[d] \subseteq beside'[d]
    BY <1>1 DEF BesideWith
  <2>2. \A d \in Emissions : phase'[d] = "written" => d # e
    BY <1>1 DEF Goes
  <2>3. QED
    BY <1>2, <2>1, <2>2 DEF Inv, ChainInv, PassedOnlyBeside, Before, Committed
<1>10. LogKept
  BY <1>1, <1>2, <1>6 DEF LogKept, Committed
<1>11. QED
  BY <1>1, <1>3, <1>4, <1>5, <1>7, <1>8, <1>9, <1>10, KeepsLog, KeepsFeed
     DEF Inv, ChainInv, TraceInv

(* Flush: the row is dated after every other, and carries its hash.         *)
LEMMA WriteFacts ==
    ASSUME Inv, NEW e \in Emissions, Write(e)
    PROVE  /\ phase[e] = "read" /\ Goes(e, "written") /\ Changes(e)
           /\ event'[e].at = clock /\ event'[e].payload = event[e].payload
           /\ event'[e].previous = event[e].previous
           /\ event'[e].integrity = compute_event_hash(event[e].previous,
                                                        event[e].payload)
           /\ clock \in Nat /\ clock' = clock + 1
           /\ UNCHANGED <<cursor, delivered, beside, tampered>>
<1> DEFINE q == [event[e] EXCEPT
                   !.at = clock,
                   !.integrity = Append(event[e].previous, event[e].payload)]
<1>1. /\ event[e] \in Event /\ event \in [Emissions -> Event] /\ clock \in Nat
      /\ Append(event[e].previous, event[e].payload) \in Hashes
  BY RowType, Longer DEF Inv, TypeOK, Hashes
<1>2. /\ q \in Event /\ q.at = clock /\ q.payload = event[e].payload
      /\ q.previous = event[e].previous
      /\ q.integrity = compute_event_hash(event[e].previous, event[e].payload)
  BY <1>1 DEF Event, compute_event_hash
<1>3. event' = [event EXCEPT ![e] = q]
  BY DEF Write, compute_event_hash
<1> HIDE DEF q
<1>4. Changes(e) /\ event'[e] = q
  BY <1>1, <1>2, <1>3 DEF Changes
<1>5. Goes(e, "written")
  BY GoesTo DEF Write, Phases, Inv
<1>6. QED
  BY <1>1, <1>2, <1>4, <1>5 DEF Write, UNCHANGEDFeed

LEMMA WriteStep ==
    ASSUME Inv, NEW e \in Emissions, Write(e)
    PROVE  Inv'
<1>1. /\ phase[e] = "read" /\ Goes(e, "written") /\ Changes(e)
      /\ event'[e].at = clock /\ event'[e].payload = event[e].payload
      /\ event'[e].previous = event[e].previous
      /\ event'[e].integrity = compute_event_hash(event[e].previous,
                                                   event[e].payload)
      /\ clock \in Nat /\ clock' = clock + 1
      /\ UNCHANGED <<cursor, delivered, beside, tampered>>
  BY WriteFacts
<1>2. /\ Logged' = Logged /\ Committed' = Committed /\ InFlight' = InFlight
      /\ e \notin Committed /\ e \notin Logged
      /\ \A d \in Emissions \ {e} : event'[d] = event[d] /\ phase'[d] = phase[d]
  BY <1>1 DEF Goes, Changes, Logged, Committed, InFlight
<1>3. \A d \in Emissions : event[d].at < clock /\ event[d].at \in Nat
  BY RowType DEF Inv, ChainInv, ClockOrders
<1>4. TypeOK'
  <2>1. phase' \in [Emissions -> Phases] /\ event' \in [Emissions -> Event]
    BY <1>1 DEF Goes, Changes
  <2>2. clock' \in Nat
    BY <1>1
  <2>3. /\ cursor' = cursor /\ delivered' = delivered
        /\ beside' = beside /\ tampered' = tampered
    BY <1>1
  <2>4. QED
    BY <2>1, <2>2, <2>3 DEF Inv, TypeOK
<1>5. ClockOrders'
  BY <1>1, <1>2, <1>3 DEF Inv, ChainInv, ClockOrders, Goes
<1>6. RowsAreChained'
  <2>1. \A d \in Emissions :
           /\ event'[d].previous = event[d].previous
           /\ event'[d].payload = event[d].payload
           /\ d \in Committed => event'[d].integrity = event[d].integrity
    BY <1>1, <1>2
  <2>2. HashMatches(e)' /\ e \notin Committed
    BY <1>1, <1>2 DEF HashMatches
  <2>3. \A d \in Emissions \ {e} : HashMatches(d)' <=> HashMatches(d)
    BY <1>2 DEF HashMatches
  <2>4. \A d \in Emissions :
           \/ event'[d].previous = GENESIS
           \/ \E g \in Committed : event'[d].previous = event'[g].integrity
    BY <2>1 DEF Inv, ChainInv, RowsAreChained, Committed
  <2>5. \A d \in Emissions :
           phase'[d] \in {"waiting", "read", "written"}
           => event'[d].payload = Payload[d]
    BY <1>1, <1>2, <2>1 DEF Inv, ChainInv, RowsAreChained
  <2>6. \A d \in Emissions :
           phase'[d] = "written" \/ (phase'[d] = "logged" /\ tampered' = "no")
           => HashMatches(d)'
    BY <1>1, <1>2, <2>2, <2>3 DEF Inv, ChainInv, RowsAreChained
  <2>7. Committed' = Committed
    BY <1>2
  <2>8. QED
    BY <2>4, <2>5, <2>6, <2>7 DEF RowsAreChained
<1>7. BesideIsMutual'
  BY <1>1, <1>2 DEF Inv, ChainInv, BesideIsMutual, Goes
<1>8. ReadIsNewest'
  <2>1. \A d, g \in Logged : Before(d, g)' <=> Before(d, g)
    BY <1>2 DEF Before, Logged
  <2>2. \A d \in Logged, S \in SUBSET Logged : Newest(d, S)' <=> Newest(d, S)
    BY <2>1 DEF Newest
  <2>3. /\ \A d \in Emissions : event'[d].previous = event[d].previous
        /\ \A d \in Logged : event'[d].integrity = event[d].integrity
    BY <1>1, <1>2 DEF Logged
  <2>4. ASSUME NEW d \in InFlight, NEW g \in Logged, tampered = "no",
               Newest(g, Logged \ beside[d])'
        PROVE  event'[d].previous = event'[g].integrity
    <3>1. Newest(g, Logged \ beside[d])
      BY <1>1, <1>2, <2>2, <2>4
    <3>2. QED
      BY <2>3, <2>4, <3>1 DEF Inv, ChainInv, ReadIsNewest, InFlight
  <2>5. QED
    BY <1>1, <1>2, <2>4 DEF ReadIsNewest
<1>9. PassedOnlyBeside'
  <2>1. \A d \in Committed : Before(d, e)'
    BY <1>1, <1>2, <1>3 DEF Before, Committed
  <2>2. \A d \in Committed, g \in Emissions \ {e} :
           Before(d, g)' <=> Before(d, g)
    BY <1>2 DEF Before, Committed
  <2>3. QED
    BY <1>1, <1>2, <2>1, <2>2 DEF Inv, ChainInv, PassedOnlyBeside, Goes
<1>10. LogKept
  BY <1>1, <1>2 DEF LogKept, Committed
<1>11. QED
  BY <1>1, <1>4, <1>5, <1>6, <1>7, <1>8, <1>9, <1>10, KeepsLog, KeepsFeed
     DEF Inv, ChainInv, TraceInv

(* A row comes after the rows that were not in flight together with it, and *)
(* is linked to the last of them.                                           *)
LEMMA CommitStep ==
    ASSUME Inv, NEW e \in Emissions, Commit(e)
    PROVE  Inv'
<1>1. /\ phase[e] = "written" /\ Goes(e, "logged")
      /\ UNCHANGED <<event, clock, cursor, delivered, beside, tampered>>
  BY GoesTo DEF Commit, Phases, Inv, UNCHANGEDFeed
<1>2. /\ Logged' = Logged \union {e} /\ Committed' = Committed \union {e}
      /\ InFlight' = InFlight \ {e} /\ e \in InFlight
      /\ e \notin Committed /\ e \notin Logged /\ Logged \subseteq Committed
      /\ \A d \in Emissions \ {e} : phase'[d] = phase[d]
  BY <1>1 DEF Goes, Logged, Committed, InFlight
<1>3. \A d \in Emissions : event[d].at \in Nat
  BY RowType DEF Inv
<1>4. \A d \in Committed : d \notin beside[e] =>
         Before(d, e) /\ ~Before(e, d) /\ e \notin beside[d]
  <2>1. \A d \in Committed : d \notin beside[e] => Before(d, e)
    BY <1>1 DEF Inv, ChainInv, PassedOnlyBeside
  <2>2. \A d \in Committed : Before(d, e) => ~Before(e, d)
    BY <1>3 DEF Before, Committed
  <2>3. QED
    BY <2>1, <2>2 DEF Inv, ChainInv, BesideIsMutual, Committed
<1>5. \A d, S : Newest(d, S)' <=> Newest(d, S)
  BY <1>1 DEF Newest, Before
<1>6. TypeOK'
  BY <1>1 DEF Inv, TypeOK, Goes
<1>7. ClockOrders'
  BY <1>1, <1>2 DEF Inv, ChainInv, ClockOrders, Goes
<1>8. RowsAreChained'
  BY <1>1, <1>2 DEF Inv, ChainInv, RowsAreChained, HashMatches, Goes
<1>9. BesideIsMutual'
  BY <1>1, <1>2 DEF Inv, ChainInv, BesideIsMutual, Goes
<1>10. ReadIsNewest'
  <2>1. \A d \in InFlight' : e \in beside[d]
    BY <1>2 DEF Inv, ChainInv, BesideIsMutual
  <2>2. \A d \in InFlight' : Logged' \ beside'[d] = Logged \ beside[d]
    BY <1>1, <1>2, <2>1
  <2>3. \A d \in Logged', S \in SUBSET Logged : Newest(d, S) => d \in Logged
    BY DEF Newest
  <2>4. QED
    BY <1>1, <1>2, <1>5, <2>2, <2>3 DEF Inv, ChainInv, ReadIsNewest
<1>11. PassedOnlyBeside'
  <2>1. \A d \in Emissions \ {e} : phase'[d] = "written" => e \in beside[d]
    BY <1>2 DEF Inv, ChainInv, BesideIsMutual, InFlight
  <2>2. QED
    BY <1>1, <1>2, <2>1 DEF Inv, ChainInv, PassedOnlyBeside, Before, Goes
<1>12. BreaksOnlyAtOverlaps'
  <2> SUFFICES ASSUME tampered = "no", NEW d \in Logged', NEW g \in Logged',
                      Newest(g, Preceding(d)'), g \notin beside[d]
               PROVE  event[d].previous = event[g].integrity
    BY <1>1, <1>5 DEF BreaksOnlyAtOverlaps, Linked
  <2>1. \A x \in Emissions :
           Preceding(x)' = {y \in Logged \union {e} : Before(y, x)}
    BY <1>1, <1>2 DEF Preceding, Before
  <2>2. CASE d = e
    <3>1. g \in Logged
      BY <1>2, <1>3, <2>1, <2>2 DEF Newest, Before
    <3>2. Newest(g, Logged \ beside[e])
      BY <1>2, <1>4, <2>1, <2>2, <3>1 DEF Newest
    <3>3. QED
      BY <1>2, <2>2, <3>1, <3>2 DEF Inv, ChainInv, ReadIsNewest
  <2>3. CASE d # e
    <3>1. d \in Logged /\ d \in Emissions /\ d \in Committed
      BY <1>2, <2>3 DEF Logged
    <3>2. e \notin Preceding(d)' \/ e \in beside[d]
      BY <1>4, <2>1, <3>1 DEF Inv, ChainInv, BesideIsMutual
    <3>3. g # e
      BY <3>2 DEF Newest
    <3>4. g \in Logged /\ Newest(g, Preceding(d))
      BY <1>2, <2>1, <3>1, <3>3 DEF Newest, Preceding
    <3>5. \A x \in beside[d] : Newest(x, Preceding(d)) => x = g
      BY <1>3, <3>4 DEF Newest, Before, Preceding, Logged
    <3>6. QED
      BY <3>1, <3>4, <3>5 DEF Inv, ChainInv, BreaksOnlyAtOverlaps, Linked
  <2>4. QED
    BY <2>2, <2>3
<1>13. CursorIsServed'
  BY <1>1, <1>2 DEF Inv, FeedInv, CursorIsServed
<1>14. SkipsOnlyOverlapped'
  <2>1. cursor # NoCursor => cursor \in Committed /\ cursor \in delivered
    BY DEF Inv, FeedInv, CursorIsServed
  <2>2. cursor # NoCursor /\ Before(e, cursor) => Skipped(e)
    BY <1>4, <2>1 DEF Skipped
  <2>3. \A d : /\ Skipped(d)' <=> Skipped(d)
               /\ Before(d, cursor)' <=> Before(d, cursor)
    BY <1>1 DEF Skipped, Before
  <2>4. QED
    BY <1>1, <1>2, <2>2, <2>3 DEF Inv, FeedInv, SkipsOnlyOverlapped
<1>15. ASSUME Apart'
       PROVE  /\ Apart
              /\ \A d \in Logged : Before(d, e) /\ ~Before(e, d)
              /\ ~Before(e, e)
              /\ \A d \in Logged : Preceding(d)' = Preceding(d)
              /\ Preceding(e)' = Logged
  <2>1. Apart /\ beside[e] \intersect Committed = {}
    BY <1>1, <1>2, <1>15 DEF Apart
  <2>2. /\ \A d \in Logged : Before(d, e) /\ ~Before(e, d)
        /\ ~Before(e, e)
    BY <1>2, <1>3, <1>4, <2>1 DEF Before
  <2>3. QED
    BY <1>1, <1>2, <2>1, <2>2 DEF Preceding, Before
<1>16. LogIsComplete'
  <2> SUFFICES ASSUME Apart', tampered = "no"
               PROVE  LogIsComplete'
    BY <1>1 DEF LogIsComplete
  <2>1. Newest(e, Logged)'
    BY <1>1, <1>2, <1>15 DEF Newest, Before
  <2>2. QED
    BY <1>1, <1>2, <1>5, <1>15, <2>1 DEF Inv, TraceInv, LogIsComplete, Newest
<1>17. TraceRemains'
  <2> SUFFICES ASSUME Apart', tampered = "inside"
               PROVE  TraceRemains'
    BY <1>1 DEF TraceRemains
  <2>1. \A d \in Logged : HashMatches(d)' <=> HashMatches(d)
    BY <1>1 DEF HashMatches
  <2>2. QED
    BY <1>1, <1>2, <1>5, <1>15, <2>1 DEF Inv, TraceInv, TraceRemains
<1>18. QED
  BY <1>6, <1>7, <1>8, <1>9, <1>10, <1>11, <1>12, <1>13, <1>14, <1>16, <1>17
     DEF Inv, ChainInv, FeedInv, TraceInv

(* The worker dies: what was not committed is gone. *)
LEMMA CrashStep ==
    ASSUME Inv, NEW e \in Emissions, Crash(e)
    PROVE  Inv'
<1>1. /\ e \in InFlight /\ Goes(e, "lost")
      /\ UNCHANGED <<event, clock, cursor, delivered, beside, tampered>>
  BY GoesTo DEF Crash, Phases, Inv, UNCHANGEDFeed
<1>2. /\ Logged' = Logged /\ Committed' = Committed
      /\ InFlight' = InFlight \ {e}
      /\ \A d \in Emissions \ {e} : phase'[d] = phase[d]
  BY <1>1 DEF Goes, Logged, Committed, InFlight
<1>3. TypeOK'
  BY <1>1 DEF Inv, TypeOK, Goes
<1>4. ClockOrders'
  BY <1>1, <1>2 DEF Inv, ChainInv, ClockOrders, Goes
<1>5. RowsAreChained'
  BY <1>1, <1>2 DEF Inv, ChainInv, RowsAreChained, HashMatches, Goes
<1>6. BesideIsMutual' /\ ReadIsNewest' /\ PassedOnlyBeside'
  BY <1>1, <1>2 DEF Inv, ChainInv, BesideIsMutual, ReadIsNewest,
     PassedOnlyBeside, Newest, Before, Goes
<1>7. LogKept
  BY <1>1, <1>2 DEF LogKept, Committed
<1>8. QED
  BY <1>1, <1>3, <1>4, <1>5, <1>6, <1>7, KeepsLog, KeepsFeed
     DEF Inv, ChainInv, TraceInv

-----------------------------------------------------------------------------
(* Tampering. *)

(* The hash of a row that is edited no longer matches, and stays so.        *)
LEMMA EditStep ==
    ASSUME Inv, NEW e \in Emissions, Edit(e)
    PROVE  Inv'
<1>1. PICK p \in Payloads \ {event[e].payload} :
         event' = [event EXCEPT ![e].payload = p]
  BY DEF Edit
<1>2. /\ e \in Logged /\ tampered = "no" /\ tampered' = "inside"
      /\ UNCHANGED <<phase, clock, cursor, delivered, beside>>
  BY DEF Edit, UNCHANGEDFeed
<1>3. /\ event' \in [Emissions -> Event] /\ event'[e].payload = p
      /\ \A d \in Emissions :
            /\ event'[d].at = event[d].at
            /\ event'[d].previous = event[d].previous
            /\ event'[d].integrity = event[d].integrity
      /\ \A d \in Emissions \ {e} : event'[d] = event[d]
  <2> DEFINE q == [event[e] EXCEPT !.payload = p]
  <2>1. event[e] \in Event /\ event \in [Emissions -> Event]
    BY DEF Inv, TypeOK
  <2>2. /\ q \in Event /\ q.payload = p /\ q.at = event[e].at
        /\ q.previous = event[e].previous /\ q.integrity = event[e].integrity
    BY <2>1 DEF Event
  <2>3. event' = [event EXCEPT ![e] = q]
    BY <1>1
  <2> HIDE DEF q
  <2>4. QED
    BY <2>1, <2>2, <2>3
<1>4. /\ Logged' = Logged /\ Committed' = Committed /\ InFlight' = InFlight
      /\ phase[e] = "logged" /\ Logged \subseteq Emissions
      /\ Committed \subseteq Emissions
  BY <1>2 DEF Logged, Committed, InFlight
<1>5. TypeOK'
  BY <1>2, <1>3 DEF Inv, TypeOK
<1>6. ClockOrders'
  BY <1>2, <1>3 DEF Inv, ChainInv, ClockOrders
<1>7. RowsAreChained'
  <2>1. \A d \in Emissions :
           \/ event'[d].previous = GENESIS
           \/ \E g \in Committed : event'[d].previous = event'[g].integrity
    BY <1>3, <1>4 DEF Inv, ChainInv, RowsAreChained
  <2>2. \A d \in Emissions :
           phase'[d] \in {"waiting", "read", "written"}
           => event'[d].payload = Payload[d]
    BY <1>2, <1>3, <1>4 DEF Inv, ChainInv, RowsAreChained
  <2>3. \A d \in Emissions : phase'[d] = "written" => HashMatches(d)'
    BY <1>2, <1>3, <1>4 DEF Inv, ChainInv, RowsAreChained, HashMatches
  <2>4. QED
    BY <1>2, <1>4, <2>1, <2>2, <2>3 DEF RowsAreChained
<1>8. BesideIsMutual' /\ ReadIsNewest'
  BY <1>2, <1>4 DEF Inv, ChainInv, BesideIsMutual, ReadIsNewest
<1>9. PassedOnlyBeside'
  BY <1>2, <1>3, <1>4 DEF Inv, ChainInv, PassedOnlyBeside, Before
<1>10. BreaksOnlyAtOverlaps' /\ LogIsComplete'
  BY <1>2 DEF BreaksOnlyAtOverlaps, LogIsComplete
<1>11. CursorIsServed' /\ SkipsOnlyOverlapped'
  <2>1. \A d, g \in Emissions : Before(d, g)' <=> Before(d, g)
    BY <1>3 DEF Before
  <2>2. \A d \in Logged : Skipped(d)' <=> Skipped(d)
    BY <1>2, <1>4, <2>1 DEF Skipped, Inv, FeedInv, CursorIsServed
  <2>3. QED
    BY <1>2, <1>4, <2>1, <2>2 DEF Inv, FeedInv, CursorIsServed,
       SkipsOnlyOverlapped
<1>12. TraceRemains'
  <2>1. event[e].integrity = Append(event[e].previous, event[e].payload)
    BY <1>2, <1>4 DEF Inv, ChainInv, RowsAreChained, HashMatches,
       compute_event_hash
  <2>2. event[e].integrity # Append(event[e].previous, p)
    BY <1>4, <2>1, RowType, Longer DEF Inv
  <2>3. ~HashMatches(e)'
    BY <1>3, <2>2 DEF HashMatches, compute_event_hash
  <2>4. QED
    BY <1>2, <1>4, <2>3 DEF TraceRemains
<1>13. QED
  BY <1>5, <1>6, <1>7, <1>8, <1>9, <1>10, <1>11, <1>12
     DEF Inv, ChainInv, FeedInv, TraceInv

(* When a row is removed from inside the log, the row after it is not       *)
(* chained to the row before it.                                            *)
LEMMA RemoveLeavesGap ==
    ASSUME Inv, NEW e \in Logged, tampered = "no", Apart,
           NEW a \in Logged, NEW b \in Logged, Before(a, e), Before(e, b)
    PROVE  \E d, g \in Logged \ {e} :
              /\ Newest(d, Preceding(g) \ {e})
              /\ event[g].previous # event[d].integrity
<1>1. \A x \in Logged : /\ event[x].at \in Nat
                        /\ event[x].previous \in Seq(Payloads)
                        /\ event[x].payload \in Payloads
  BY RowType DEF Inv, Logged
<1>2. PICK d \in Logged : Newest(d, Preceding(e))
  BY DEF Inv, TraceInv, LogIsComplete, Preceding
<1>3. ~Newest(e, Logged)
  BY <1>1 DEF Newest, Before
<1>4. PICK g \in Logged : Newest(e, Preceding(g))
  BY <1>3 DEF Inv, TraceInv, LogIsComplete
<1>5. Before(d, e) /\ Before(e, g) /\ d # e /\ g # e
  BY <1>1, <1>2, <1>4 DEF Newest, Preceding, Before
<1>6. Newest(d, Preceding(g) \ {e})
  <2>1. d \in Preceding(g) \ {e}
    BY <1>1, <1>5 DEF Preceding, Before
  <2>2. \A x \in Preceding(g) \ {e} : x \in Preceding(e)
    BY <1>4 DEF Newest, Preceding
  <2>3. QED
    BY <1>2, <2>1, <2>2 DEF Newest
<1>7. /\ event[g].previous = event[e].integrity
      /\ event[e].previous = event[d].integrity
  <2>1. \A x \in Logged : \A y \in beside[x] : y \notin Preceding(x)
    BY DEF Apart, Preceding, Logged, Committed
  <2>2. Linked(g) /\ Linked(e)
    BY <2>1 DEF Inv, ChainInv, BreaksOnlyAtOverlaps, Newest
  <2>3. QED
    BY <1>2, <1>4, <2>2 DEF Linked
<1>8. event[e].integrity = Append(event[e].previous, event[e].payload)
  BY DEF Inv, ChainInv, RowsAreChained, HashMatches, compute_event_hash, Logged
<1>9. event[g].previous # event[d].integrity
  BY <1>1, <1>7, <1>8, Longer
<1>10. QED
  BY <1>5, <1>6, <1>9

LEMMA RemoveStep ==
    ASSUME Inv, NEW e \in Emissions, Remove(e)
    PROVE  Inv'
<1>1. /\ e \in Logged /\ tampered = "no" /\ Goes(e, "removed")
      /\ UNCHANGED <<event, clock, cursor, delivered, beside>>
      /\ tampered' \in {"inside", "at an end"}
      /\ tampered' = "inside" =>
            \E a, b \in Logged : Before(a, e) /\ Before(e, b)
  BY GoesTo DEF Remove, Phases, Inv, UNCHANGEDFeed
<1>2. /\ Logged' = Logged \ {e} /\ Committed' = Committed
      /\ InFlight' = InFlight
      /\ \A d \in Emissions \ {e} : phase'[d] = phase[d]
      /\ Logged \subseteq Emissions /\ Committed \subseteq Emissions
  BY <1>1 DEF Goes, Logged, Committed, InFlight
<1>3. TypeOK'
  BY <1>1 DEF Inv, TypeOK, Goes
<1>4. ClockOrders'
  BY <1>1, <1>2 DEF Inv, ChainInv, ClockOrders, Goes, Logged
<1>5. RowsAreChained'
  BY <1>1, <1>2 DEF Inv, ChainInv, RowsAreChained, HashMatches, Goes
<1>6. BesideIsMutual' /\ ReadIsNewest'
  BY <1>1, <1>2 DEF Inv, ChainInv, BesideIsMutual, ReadIsNewest, Goes
<1>7. PassedOnlyBeside'
  BY <1>1, <1>2 DEF Inv, ChainInv, PassedOnlyBeside, Before, Goes
<1>8. BreaksOnlyAtOverlaps' /\ LogIsComplete'
  BY <1>1 DEF BreaksOnlyAtOverlaps, LogIsComplete
<1>9. CursorIsServed' /\ SkipsOnlyOverlapped'
  BY <1>1, <1>2 DEF Inv, FeedInv, CursorIsServed, SkipsOnlyOverlapped,
     Skipped, Before
<1>10. TraceRemains'
  <2> SUFFICES ASSUME Apart', tampered' = "inside"
               PROVE  \E d, g \in Logged' : /\ Newest(d, Preceding(g))'
                                            /\ event'[g].previous
                                                  # event'[d].integrity
    BY <1>1 DEF TraceRemains
  <2>1. PICK d, g \in Logged \ {e} : /\ Newest(d, Preceding(g) \ {e})
                                     /\ event[g].previous # event[d].integrity
    BY <1>1, <1>2, RemoveLeavesGap DEF Apart
  <2>2. Preceding(g)' = Preceding(g) \ {e}
    BY <1>1, <1>2 DEF Preceding, Before
  <2>3. Newest(d, Preceding(g))'
    BY <1>1, <2>1, <2>2 DEF Newest, Before
  <2>4. QED
    BY <1>1, <1>2, <2>1, <2>3
<1>11. QED
  BY <1>3, <1>4, <1>5, <1>6, <1>7, <1>8, <1>9, <1>10
     DEF Inv, ChainInv, FeedInv, TraceInv

-----------------------------------------------------------------------------
(* The feed. *)

(* A row that comes after the cursor and before the last row of the page is *)
(* on the page.                                                             *)
LEMMA PageIsDense ==
    ASSUME Inv, NEW last \in Page, NEW e \in AfterCursor, Before(e, last)
    PROVE  e \in Page
<1> DEFINE Until(x) == {d \in AfterCursor : Before(d, x)}
<1>1. \A x \in Emissions : event[x].at \in Nat
  BY RowType DEF Inv
<1>2. AfterCursor \subseteq Emissions /\ Page \subseteq AfterCursor
  BY DEF AfterCursor, Logged, Page
<1>3. Until(e) \subseteq Until(last) /\ Until(last) \subseteq Emissions
  BY <1>1, <1>2 DEF Before
<1>4. IsFiniteSet(Until(last))
  BY <1>3, EmissionsAssumption, FS_Subset
<1>5. /\ Cardinality(Until(e)) <= Cardinality(Until(last))
      /\ IsFiniteSet(Until(e))
  BY <1>3, <1>4, FS_Subset
<1>6. /\ Cardinality(Until(e)) \in Nat /\ Cardinality(Until(last)) \in Nat
  BY <1>4, <1>5, FS_CardinalityType
<1>7. Cardinality(Until(last)) < PageSize
  BY DEF Page
<1>8. Cardinality(Until(e)) < PageSize
  BY <1>5, <1>6, <1>7
<1>9. QED
  BY <1>8 DEF Page

(* A row that is due is still to be served.                                 *)
LEMMA StillAhead ==
    ASSUME Inv, NEW e \in Due
    PROVE  e \in AfterCursor
<1> SUFFICES ASSUME cursor \in Logged PROVE Before(cursor, e)
  BY DEF AfterCursor, Due
<1>1. /\ event[cursor].at \in Nat /\ event[e].at \in Nat
      /\ event[cursor].at > 0 /\ cursor # NoCursor
  BY RowType DEF Inv, ChainInv, ClockOrders, Due, Logged
<1>2. e # cursor /\ ~Before(e, cursor)
  BY <1>1 DEF Inv, FeedInv, CursorIsServed, SkipsOnlyOverlapped, Due
<1>3. event[e].at # event[cursor].at
  BY <1>1, <1>2 DEF Inv, ChainInv, ClockOrders, Due, Logged
<1>4. QED
  BY <1>1, <1>2, <1>3 DEF Before

LEMMA PollStep ==
    ASSUME Inv, Poll
    PROVE  Inv'
<1>1. PICK last \in Page : Newest(last, Page) /\ cursor' = last
  BY DEF Poll
<1>2. /\ delivered' = delivered \union Page
      /\ UNCHANGED <<phase, event, clock, beside, tampered>>
  BY DEF Poll
<1>3. /\ Page \subseteq AfterCursor /\ AfterCursor \subseteq Logged
      /\ Logged \subseteq Committed /\ Committed \subseteq Emissions
  BY DEF Page, AfterCursor, Logged, Committed
<1>4. /\ Logged' = Logged /\ Committed' = Committed /\ InFlight' = InFlight
  BY <1>2 DEF Logged, Committed, InFlight
<1>5. TypeOK'
  BY <1>1, <1>2, <1>3 DEF Inv, TypeOK
<1>6. ClockOrders' /\ BesideIsMutual' /\ PassedOnlyBeside'
  BY <1>2, <1>4 DEF Inv, ChainInv, ClockOrders, BesideIsMutual,
     PassedOnlyBeside, Before
<1>7. RowsAreChained'
  BY <1>2, <1>4 DEF Inv, ChainInv, RowsAreChained, HashMatches
<1>8. ReadIsNewest'
  BY <1>2, <1>4 DEF Inv, ChainInv, ReadIsNewest, Newest, Before
<1>9. LogKept
  BY <1>2, <1>4 DEF LogKept
<1>10. CursorIsServed'
  BY <1>1, <1>2, <1>3, <1>4 DEF Inv, FeedInv, CursorIsServed
<1>11. SkipsOnlyOverlapped'
  <2> SUFFICES ASSUME NEW e \in Logged, Before(e, last)
               PROVE  e \in delivered \union Page \/ Skipped(e)'
    BY <1>1, <1>2, <1>4 DEF SkipsOnlyOverlapped, Before
  <2>1. CASE e \in AfterCursor
    BY <2>1, PageIsDense
  <2>2. CASE e \notin AfterCursor
    <3>1. e \in delivered \/ Skipped(e)
      BY <2>2, StillAhead DEF Due
    <3>2. QED
      BY <1>2, <3>1 DEF Skipped, Before
  <2>3. QED
    BY <2>1, <2>2
<1>12. QED
  BY <1>5, <1>6, <1>7, <1>8, <1>9, <1>10, <1>11, KeepsLog
     DEF Inv, ChainInv, FeedInv, TraceInv

-----------------------------------------------------------------------------
(* The invariant. *)

LEMMA InitInv == Init => Inv
<1> SUFFICES ASSUME Init PROVE Inv
  OBVIOUS
<1>1. \A e \in Emissions : /\ Unwritten(e) \in Event /\ Unwritten(e).at = 0
                           /\ Unwritten(e).previous = GENESIS
                           /\ Unwritten(e).payload = Payload[e]
  <2>1. GENESIS \in Hashes
    BY DEF GENESIS, Hashes
  <2>2. QED
    BY <2>1, PayloadAssumption DEF Unwritten, Event
<1>2. \A e \in Emissions : event[e] = Unwritten(e) /\ phase[e] = "waiting"
  BY DEF Init
<1>3. Logged = {} /\ Committed = {} /\ InFlight = {}
  BY <1>2 DEF Logged, Committed, InFlight
<1>4. TypeOK
  <2>1. event \in [Emissions -> Event]
    BY <1>1 DEF Init
  <2>2. phase \in [Emissions -> Phases]
    BY DEF Init, Phases
  <2>3. QED
    BY <2>1, <2>2 DEF Init, TypeOK
<1>5. ClockOrders
  BY <1>1, <1>2 DEF Init, ClockOrders
<1>6. RowsAreChained
  BY <1>1, <1>2 DEF RowsAreChained
<1>7. /\ BesideIsMutual /\ ReadIsNewest /\ PassedOnlyBeside
      /\ BreaksOnlyAtOverlaps
  BY <1>3 DEF Init, BesideIsMutual, ReadIsNewest, PassedOnlyBeside,
     BreaksOnlyAtOverlaps
<1>8. CursorIsServed /\ SkipsOnlyOverlapped
  BY <1>3 DEF Init, CursorIsServed, SkipsOnlyOverlapped
<1>9. LogIsComplete /\ TraceRemains
  BY <1>3 DEF Init, LogIsComplete, TraceRemains
<1>10. QED
  BY <1>4, <1>5, <1>6, <1>7, <1>8, <1>9 DEF Inv, ChainInv, FeedInv, TraceInv

LEMMA StutterStep == ASSUME Inv, UNCHANGED vars PROVE Inv'
<1>1. /\ phase' = phase /\ event' = event /\ clock' = clock
      /\ cursor' = cursor /\ delivered' = delivered
      /\ beside' = beside /\ tampered' = tampered
  BY DEF vars
<1>2. /\ Logged' = Logged /\ Committed' = Committed /\ InFlight' = InFlight
  BY <1>1 DEF Logged, Committed, InFlight
<1>3. TypeOK'
  BY <1>1 DEF Inv, TypeOK
<1>4. ClockOrders' /\ RowsAreChained'
  BY <1>1, <1>2 DEF Inv, ChainInv, ClockOrders, RowsAreChained, HashMatches
<1>5. BesideIsMutual' /\ ReadIsNewest' /\ PassedOnlyBeside'
  BY <1>1, <1>2 DEF Inv, ChainInv, BesideIsMutual, ReadIsNewest,
     PassedOnlyBeside, Newest, Before
<1>6. LogKept
  BY <1>1, <1>2 DEF LogKept
<1>7. QED
  BY <1>1, <1>3, <1>4, <1>5, <1>6, KeepsLog, KeepsFeed
     DEF Inv, ChainInv, TraceInv

LEMMA StepInv == Inv /\ [Next]_vars => Inv'
<1> SUFFICES ASSUME Inv, [Next]_vars PROVE Inv'
  OBVIOUS
<1>1. CASE \E e \in Emissions : Emit(e) \/ Edit(e) \/ Remove(e)
  BY <1>1, ReadStep, WriteStep, CommitStep, CrashStep, EditStep, RemoveStep
     DEF Emit
<1>2. CASE Poll
  BY <1>2, PollStep
<1>3. CASE UNCHANGED vars
  BY <1>3, StutterStep
<1>4. QED
  BY <1>1, <1>2, <1>3 DEF Next

LEMMA InvAlways == Spec => []Inv
BY InitInv, StepInv, PTL DEF Spec

-----------------------------------------------------------------------------

(* Every variable keeps its type. *)
THEOREM TypeCorrect == Spec => []TypeOK
<1>1. Inv => TypeOK
  BY DEF Inv
<1>2. QED
  BY <1>1, InvAlways, PTL

(* Where nobody wrote to the table, a row is linked to the row before it    *)
(* unless the two were in flight together.                                  *)
THEOREM ChainHolds == Spec => []BreaksOnlyAtOverlaps
<1>1. Inv => BreaksOnlyAtOverlaps
  BY DEF Inv, ChainInv
<1>2. QED
  BY <1>1, InvAlways, PTL

(* The verifier accepts a log whose rows were apart and that nobody wrote   *)
(* to, and rejects it once a row was edited, or removed from inside,        *)
(* however long it has grown since and whatever died meanwhile.             *)
THEOREM VerifierHolds == Spec => []TamperingIsNoticed
<1>1. Inv => TamperingIsNoticed
  <2> SUFFICES ASSUME Inv, Apart
               PROVE  /\ tampered = "no" => verify_events
                      /\ tampered = "inside" => ~verify_events
    BY DEF TamperingIsNoticed
  <2>1. ASSUME tampered = "no" PROVE verify_events
    <3>1. \A e \in Logged : \A d \in beside[e] : ~Newest(d, Preceding(e))
      BY DEF Apart, Newest, Preceding, Logged, Committed
    <3>2. QED
      BY <2>1, <3>1 DEF Inv, ChainInv, BreaksOnlyAtOverlaps, RowsAreChained,
         Logged, verify_events
  <2>2. ASSUME tampered = "inside" PROVE ~verify_events
    <3>1. CASE \E e \in Logged : ~HashMatches(e)
      BY <3>1 DEF verify_events
    <3>2. CASE \E d, e \in Logged : /\ Newest(d, Preceding(e))
                                    /\ event[e].previous # event[d].integrity
      BY <3>2 DEF verify_events, Linked, Preceding
    <3>3. QED
      BY <2>2, <3>1, <3>2 DEF Inv, TraceInv, TraceRemains
  <2>3. QED
    BY <2>1, <2>2
<1>2. QED
  BY <1>1, InvAlways, PTL

(* Whatever the size of the pages, and whichever rows are removed meanwhile *)
(* (that of the cursor, say), the feed skips a row only when it serves a    *)
(* later one that was in flight together with it, and commits first.        *)
THEOREM FeedHolds == Spec => []SkipsOnlyOverlapped
<1>1. Inv => SkipsOnlyOverlapped
  BY DEF Inv, FeedInv
<1>2. QED
  BY <1>1, InvAlways, PTL

-----------------------------------------------------------------------------
(* The feed gets on. *)

LEMMA LeastTime ==
    ASSUME NEW T \in SUBSET Nat, T # {}
    PROVE  \E x \in T : \A y \in T : x <= y
<1>1. PICK Less : /\ IsWellFoundedOn(Less, Nat)
                  /\ \A x, y \in Nat : <<x, y>> \in Less <=> x < y
  <2>1. \A x, y \in Nat : <<x, y>> \in OpToRel(<, Nat) <=> x < y
    BY DEF OpToRel
  <2>2. QED
    BY <2>1, NatLessThanWellFounded
<1>2. T \subseteq Nat /\ IsWellFoundedOn(Less, Nat)
  BY <1>1
<1>3. \E x \in T : \A y \in T : ~(<<y, x>> \in Less)
  BY <1>2, WFMin, Zenon
<1>4. PICK x \in T : \A y \in T : ~(<<y, x>> \in Less)
  BY <1>3
<1>5. \A y \in T : ~(y < x) /\ y \in Nat /\ x \in Nat
  BY <1>1, <1>4
<1>6. QED
  BY <1>5

(* The first row after the cursor is on the page.                           *)
LEMMA PageIsFilled ==
    ASSUME Inv, AfterCursor # {}
    PROVE  Page # {}
<1> DEFINE T == {event[d].at : d \in AfterCursor}
<1>1. /\ AfterCursor \subseteq Emissions
      /\ \A d \in Emissions : event[d].at \in Nat
  BY RowType DEF Inv, AfterCursor, Logged
<1>2. PICK x \in T : \A y \in T : x <= y
  <2>1. T \in SUBSET Nat /\ T # {}
    BY <1>1
  <2>2. QED
    BY <2>1, LeastTime
<1>3. PICK e \in AfterCursor : event[e].at = x
  BY <1>2
<1>4. \A d \in AfterCursor : event[e].at <= event[d].at
  BY <1>2, <1>3
<1>5. {d \in AfterCursor : Before(d, e)} = {}
  BY <1>1, <1>4 DEF Before
<1>6. Cardinality({d \in AfterCursor : Before(d, e)}) < PageSize
  BY <1>5, FS_EmptySet
<1>7. QED
  BY <1>6 DEF Page

(* While a row is due no page is empty.                                     *)
THEOREM FeedIsNeverEmpty == Spec => []FeedNeverStalls
<1>1. Inv => FeedNeverStalls
  BY StillAhead, PageIsFilled DEF FeedNeverStalls
<1>2. QED
  BY <1>1, InvAlways, PTL

LEMMA PollAdvances ==
    ASSUME Inv, Poll, NEW e \in Due, e \notin delivered'
    PROVE  /\ e \in Due'
           /\ Ahead(e)' # Ahead(e) /\ Ahead(e)' \subseteq Ahead(e)
<1>1. PICK last \in Page : Newest(last, Page) /\ cursor' = last
  BY DEF Poll
<1>2. /\ delivered' = delivered \union Page
      /\ UNCHANGED <<phase, event, beside>>
  BY DEF Poll
<1>3. /\ Page \subseteq AfterCursor /\ AfterCursor \subseteq Logged
      /\ Logged \subseteq Emissions /\ Logged' = Logged
      /\ e \in Logged
  BY <1>2 DEF Page, AfterCursor, Logged, Due
<1>4. \A d \in Emissions : event[d].at \in Nat
  BY RowType DEF Inv
<1>5. e \in AfterCursor /\ e \notin Page
  BY <1>2, StillAhead
<1>6. e # last /\ ~Before(e, last)
  BY <1>5, PageIsDense
<1>7. event[e].at # event[last].at
  BY <1>3, <1>6 DEF Inv, ChainInv, ClockOrders, Logged
<1>8. Before(last, e)
  BY <1>3, <1>4, <1>6, <1>7 DEF Before
<1>9. last \in Ahead(e)
  BY <1>3, <1>8 DEF Ahead
<1>10. Ahead(e)' = {d \in Logged : Before(last, d) /\ Before(d, e)}
  BY <1>1, <1>2, <1>3 DEF Ahead, AfterCursor, Before
<1>11. last \notin Ahead(e)'
  BY <1>3, <1>4, <1>10 DEF Before
<1>12. \A d \in Logged : Before(last, d) => d \in AfterCursor
  BY <1>3, <1>4 DEF AfterCursor, Before
<1>13. e \in Due'
  <2>1. \A f \in Page : ~Before(e, f)
    BY <1>5, PageIsDense
  <2>2. QED
    BY <1>2, <1>3, <2>1 DEF Due, Skipped, Before
<1>14. QED
  BY <1>9, <1>10, <1>11, <1>12, <1>13 DEF Ahead

(* What emissions and tampering do to a row that is due, and to what is     *)
(* ahead of it.                                                             *)
Beyond(e) ==
    /\ e \in Due' \/ e \notin Logged'
    /\ (cursor \in Logged => cursor \in Logged')
          => Ahead(e)' \subseteq Ahead(e) \union (beside[e] \ Logged)

LEMMA OthersAdvance ==
    ASSUME Inv, NEW e \in Due, UNCHANGED <<cursor, delivered>>,
           \A d \in Committed : beside'[d] = beside[d],
           \A d \in Committed \union Logged' : event'[d].at = event[d].at,
           \A d \in Logged' \ Logged : phase[d] = "written"
    PROVE  Beyond(e)
<1>1. /\ e \in Logged /\ e \in Committed /\ Logged \subseteq Committed
      /\ Committed \subseteq Emissions /\ Logged' \subseteq Emissions
      /\ \A d \in Emissions : event[d].at \in Nat
      /\ delivered \subseteq Committed
  BY RowType DEF Inv, FeedInv, CursorIsServed, Due, Logged, Committed
<1>2. \A d \in Committed \union Logged' : /\ Before(d, e)' <=> Before(d, e)
                                          /\ Before(e, d)' <=> Before(e, d)
  BY <1>1 DEF Before
<1>3. e \in Logged' => e \in Due'
  <2>1. Skipped(e)' => Skipped(e)
    BY <1>1, <1>2 DEF Skipped
  <2>2. QED
    BY <2>1 DEF Due
<1>4. ASSUME NEW d \in Logged', Before(d, e)', d \notin Logged
      PROVE  d \in beside[e] \ Logged
  <2>1. Before(d, e) /\ d \in Emissions /\ phase[d] = "written"
    BY <1>1, <1>2, <1>4
  <2>2. Before(e, d) \/ e \in beside[d]
    BY <1>1, <2>1 DEF Inv, ChainInv, PassedOnlyBeside
  <2>3. ~Before(e, d)
    BY <1>1, <2>1 DEF Before
  <2>4. QED
    BY <1>1, <1>4, <2>1, <2>2, <2>3 DEF Inv, ChainInv, BesideIsMutual
<1>5. ASSUME NEW d \in Logged', d \in Ahead(e)', d \in Logged,
             cursor \in Logged => cursor \in Logged'
      PROVE  d \in Ahead(e)
  <2>1. Before(d, e)' /\ (cursor \in Logged' => Before(cursor, d)')
    BY <1>5 DEF Ahead, AfterCursor
  <2>2. cursor \in Logged => Before(cursor, d)
    BY <1>5, <2>1 DEF Before
  <2>3. QED
    BY <1>2, <1>5, <2>1, <2>2 DEF Ahead, AfterCursor
<1>6. \A d \in Ahead(e)' : d \in Logged' /\ Before(d, e)'
  BY DEF Ahead, AfterCursor
<1>7. QED
  BY <1>3, <1>4, <1>5, <1>6 DEF Beyond

LEMMA NextAdvances ==
    ASSUME Inv, Next
    PROVE  FeedAdvances
<1>1. ASSUME NEW e \in Due, Poll
      PROVE  /\ e \in Due' \union delivered'
             /\ e \in delivered' \/ Ahead(e)' # Ahead(e)
             /\ e \notin delivered' => Ahead(e)' \subseteq Ahead(e)
  BY <1>1, PollAdvances
<1>2. ASSUME NEW f \in Emissions, Emit(f) \/ Edit(f) \/ Remove(f)
      PROVE  /\ ~Poll /\ UNCHANGED <<cursor, delivered>>
             /\ \A d \in Committed : beside'[d] = beside[d]
             /\ \A d \in Committed \union Logged' : event'[d].at = event[d].at
             /\ \A d \in Logged' \ Logged : phase[d] = "written"
  <2>1. CASE ReadLast(f)
    <3>1. /\ phase[f] = "waiting" /\ Goes(f, "read") /\ Changes(f)
          /\ BesideWith(f) /\ UNCHANGED <<cursor, delivered>>
          /\ event'[f].at = event[f].at
      BY <2>1, ReadFacts
    <3>2. \A d \in Committed : d \in Emissions \ (InFlight \union {f})
      BY <3>1 DEF Committed, InFlight
    <3>3. QED
      BY <3>1, <3>2 DEF Goes, Changes, BesideWith, Logged, Poll
  <2>2. CASE Write(f)
    BY <2>2, WriteFacts DEF Goes, Changes, Logged, Committed, Poll
  <2>3. CASE Commit(f)
    <3>1. phase[f] = "written" /\ Goes(f, "logged")
      BY <2>3, GoesTo DEF Commit, Phases, Inv
    <3>2. QED
      BY <2>3, <3>1 DEF Commit, Goes, Logged, Poll, UNCHANGEDFeed
  <2>4. CASE Crash(f)
    <3>1. phase[f] \in {"read", "written"} /\ Goes(f, "lost")
      BY <2>4, GoesTo DEF Crash, Phases, Inv, InFlight
    <3>2. QED
      BY <2>4, <3>1 DEF Crash, Goes, Logged, Poll, UNCHANGEDFeed
  <2>5. CASE Edit(f)
    <3>1. \A d \in Emissions : event'[d].at = event[d].at
      BY <2>5 DEF Edit, Inv, TypeOK, Event
    <3>2. QED
      BY <2>5, <3>1 DEF Edit, Logged, Committed, Poll, UNCHANGEDFeed
  <2>6. CASE Remove(f)
    <3>1. Goes(f, "removed") /\ phase[f] = "logged"
      BY <2>6, GoesTo DEF Remove, Phases, Inv, Logged
    <3>2. QED
      BY <2>6, <3>1 DEF Remove, Goes, Logged, Poll, UNCHANGEDFeed
  <2>7. QED
    BY <1>2, <2>1, <2>2, <2>3, <2>4, <2>5, <2>6 DEF Emit
<1>3. CASE Poll
  BY <1>1, <1>3 DEF FeedAdvances
<1>4. CASE \E f \in Emissions : Emit(f) \/ Edit(f) \/ Remove(f)
  <2>1. ~Poll /\ \A e \in Due : Beyond(e)
    BY <1>2, <1>4, OthersAdvance
  <2>2. QED
    BY <2>1 DEF FeedAdvances, Beyond
<1>5. QED
  BY <1>3, <1>4 DEF Next

(* A row that is due stays due until it is delivered or removed.  A poll    *)
(* that does not deliver it shortens what is ahead of it, which only a      *)
(* commit beside it or a removal of the row of the cursor lengthens: with   *)
(* FeedIsNeverEmpty, what FeedCatchesUp needs besides a consumer that polls.*)
THEOREM FeedGetsOn == Spec => FeedProgress
<1>1. Inv /\ [Next]_vars => [FeedAdvances]_vars
  BY NextAdvances
<1>2. QED
  BY <1>1, InvAlways, PTL DEF Spec, FeedProgress

-----------------------------------------------------------------------------
(* AuditLog implements HashTree. *)

Row(e) == [previous |-> event[e].previous, payload |-> event[e].payload,
           integrity |-> event[e].integrity]

log == [e \in Logged |-> Row(e)]
hashes == {GENESIS} \union {event[e].integrity : e \in Committed}

LEMMA Mapping ==
    /\ Tree!Init <=> /\ log = [e \in {} |-> Tree!Chained(GENESIS, Payload[e])]
                     /\ hashes = {GENESIS}
    /\ \A e : Tree!Extend(e) <=>
          /\ e \notin DOMAIN log
          /\ \E h \in hashes :
                /\ log' = [d \in DOMAIN log \union {e} |->
                             IF d = e THEN Tree!Chained(h, Payload[e])
                             ELSE log[d]]
                /\ hashes' = hashes \union {Append(h, Payload[e])}
    /\ \A e : Tree!Tamper(e) <=>
          /\ e \in DOMAIN log
          /\ \/ log' = [d \in DOMAIN log \ {e} |-> log[d]]
             \/ \E p \in Payloads : log' = [log EXCEPT ![e].payload = p]
          /\ hashes' = hashes
BY DEF log, hashes, Row, Tree!Init, Tree!Extend, Tree!Tamper, Tree!GENESIS,
   GENESIS

(* A step that leaves the committed rows alone is one that the hash tree    *)
(* does not see.                                                            *)
LEMMA UnseenStep ==
    ASSUME LogKept
    PROVE  log' = log /\ hashes' = hashes
<1>1. /\ Logged' = Logged /\ Committed' = Committed
      /\ Logged \subseteq Committed
      /\ \A d \in Committed : event'[d] = event[d]
  BY DEF LogKept, Logged, Committed
<1>2. \A d \in Logged : Row(d)' = Row(d)
  BY <1>1 DEF Row
<1>3. hashes' = hashes
  BY <1>1 DEF hashes
<1>4. log' = [e \in Logged |-> Row(e)']
  BY <1>1 DEF log
<1>5. QED
  BY <1>2, <1>3, <1>4 DEF log

LEMMA CommitExtends ==
    ASSUME Inv, NEW e \in Emissions, Commit(e)
    PROVE  Tree!Extend(e)
<1> DEFINE h == event[e].previous
<1>1. /\ phase[e] = "written" /\ Goes(e, "logged") /\ event' = event
  BY GoesTo DEF Commit, Phases, Inv
<1>2. /\ Logged' = Logged \union {e} /\ Committed' = Committed \union {e}
      /\ e \notin Logged
  BY <1>1 DEF Goes, Logged, Committed
<1>3. /\ h \in hashes /\ event[e].payload = Payload[e]
      /\ event[e].integrity = Append(h, Payload[e])
  BY <1>1 DEF Inv, ChainInv, RowsAreChained, HashMatches, compute_event_hash,
     hashes
<1>4. Row(e) = Tree!Chained(h, Payload[e])
  BY <1>3 DEF Row, Tree!Chained
<1>5. log' = [d \in Logged \union {e} |-> Row(d)]
  BY <1>1, <1>2 DEF log, Row
<1>6. DOMAIN log = Logged /\ \A d \in Logged : log[d] = Row(d)
  BY DEF log
<1>7. \A d \in Logged \union {e} :
         Row(d) = IF d = e THEN Tree!Chained(h, Payload[e]) ELSE log[d]
  BY <1>2, <1>4, <1>6
<1>8. log' = [d \in DOMAIN log \union {e} |->
                IF d = e THEN Tree!Chained(h, Payload[e]) ELSE log[d]]
  BY <1>5, <1>6, <1>7
<1>9. hashes' = hashes \union {Append(h, Payload[e])}
  BY <1>1, <1>2, <1>3 DEF hashes
<1>10. QED
  BY <1>2, <1>3, <1>6, <1>8, <1>9, Mapping

LEMMA EditTampers ==
    ASSUME Inv, NEW e \in Emissions, Edit(e)
    PROVE  Tree!Tamper(e)
<1>1. PICK p \in Payloads : event' = [event EXCEPT ![e].payload = p]
  BY DEF Edit
<1>2. e \in Logged /\ phase' = phase
  BY DEF Edit
<1>3. Logged' = Logged /\ Committed' = Committed
  BY <1>2 DEF Logged, Committed
<1>4. /\ \A d \in Emissions : event'[d].integrity = event[d].integrity
      /\ \A d \in Emissions \ {e} : event'[d] = event[d]
      /\ event'[e].previous = event[e].previous /\ event'[e].payload = p
  BY <1>1 DEF Inv, TypeOK, Event
<1>5. hashes' = hashes
  BY <1>3, <1>4 DEF hashes, Committed
<1>6. /\ DOMAIN log = Logged /\ DOMAIN log' = Logged
      /\ \A d \in Logged : log[d] = Row(d) /\ log'[d] = Row(d)'
  BY <1>3 DEF log
<1>7. \A d \in Logged \ {e} : Row(d)' = Row(d)
  BY <1>4 DEF Row, Logged
<1>8. Row(e)' = [Row(e) EXCEPT !.payload = p]
  BY <1>4 DEF Row
<1>9. log' = [log EXCEPT ![e].payload = p]
  BY <1>2, <1>3, <1>7, <1>8 DEF log
<1>10. QED
  BY <1>2, <1>5, <1>6, <1>9, Mapping

LEMMA RemoveTampers ==
    ASSUME Inv, NEW e \in Emissions, Remove(e)
    PROVE  Tree!Tamper(e)
<1>1. e \in Logged /\ Goes(e, "removed") /\ event' = event
  BY GoesTo DEF Remove, Phases, Inv
<1>2. Logged' = Logged \ {e} /\ Committed' = Committed
  BY <1>1 DEF Goes, Logged, Committed
<1>3. hashes' = hashes
  BY <1>1, <1>2 DEF hashes
<1>4. log' = [d \in Logged \ {e} |-> Row(d)]
  BY <1>1, <1>2 DEF log, Row
<1>5. DOMAIN log = Logged /\ \A d \in Logged : log[d] = Row(d)
  BY DEF log
<1>6. log' = [d \in DOMAIN log \ {e} |-> log[d]]
  BY <1>4, <1>5
<1>7. QED
  BY <1>1, <1>3, <1>5, <1>6, Mapping

LEMMA InitMaps == Init => Tree!Init
<1> SUFFICES ASSUME Init PROVE Tree!Init
  OBVIOUS
<1>1. Logged = {} /\ Committed = {}
  BY DEF Init, Logged, Committed
<1>2. hashes = {GENESIS} /\ log = [e \in {} |-> Row(e)]
  BY <1>1 DEF hashes, log
<1>3. log = [e \in {} |-> Tree!Chained(GENESIS, Payload[e])]
  BY <1>2
<1>4. QED
  BY <1>2, <1>3, Mapping

LEMMA StepMaps ==
    Inv /\ [Next]_vars => [Tree!Next]_<<log, hashes>>
<1> SUFFICES ASSUME Inv, [Next]_vars PROVE [Tree!Next]_<<log, hashes>>
  OBVIOUS
<1>1. ASSUME NEW e \in Emissions, Emit(e) \/ Edit(e) \/ Remove(e)
      PROVE  Tree!Next \/ LogKept
  <2>1. CASE ReadLast(e)
    <3>1. /\ phase[e] = "waiting" /\ Goes(e, "read") /\ Changes(e)
          /\ BesideWith(e) /\ tampered' = tampered
      BY <2>1, ReadFacts
    <3>2. \A d \in Committed : d \in Emissions \ (InFlight \union {e})
      BY <3>1 DEF Committed, InFlight
    <3>3. QED
      BY <3>1, <3>2 DEF Goes, Changes, BesideWith, Logged, Committed, LogKept
  <2>2. CASE Write(e)
    BY <2>2, WriteFacts DEF Goes, Changes, Logged, Committed, LogKept
  <2>3. CASE Crash(e)
    BY <2>3 DEF Crash, Inv, TypeOK, InFlight, Logged, Committed, LogKept
  <2>4. CASE Commit(e)
    BY <2>4, CommitExtends DEF Tree!Next
  <2>5. CASE Edit(e) \/ Remove(e)
    BY <2>5, EditTampers, RemoveTampers DEF Tree!Next
  <2>6. QED
    BY <1>1, <2>1, <2>2, <2>3, <2>4, <2>5 DEF Emit
<1>2. ASSUME Poll \/ UNCHANGED vars
      PROVE  LogKept
  <2>1. UNCHANGED <<phase, event, beside, tampered>>
    BY <1>2 DEF Poll, vars
  <2>2. QED
    BY <2>1 DEF Logged, Committed, LogKept
<1>3. Tree!Next \/ LogKept
  BY <1>1, <1>2 DEF Next
<1>4. QED
  BY <1>3, UnseenStep

(* However emissions interleave and crash, each one that commits adds one   *)
(* row, chained to a row that was there, and nothing but tampering changes  *)
(* or removes one: the log refines the hash tree.                           *)
THEOREM Refinement == Spec => ImplementsHashTree
BY InitMaps, StepMaps, InvAlways, PTL
   DEF Spec, ImplementsHashTree, Tree!Spec, log, hashes, Row
=============================================================================
