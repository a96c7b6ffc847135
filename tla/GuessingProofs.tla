---------------------------- MODULE GuessingProofs ---------------------------
(***************************************************************************)
(* Theorems about the two things that stand in the way of somebody who     *)
(* guesses passwords: the lock of an account (Lockout), for any number of  *)
(* workers and any settings, and the limit on a client's hits              *)
(* (RateLimiter), for any finite set of hits, any processes, limit and     *)
(* window.  The theorems of each are about its specification alone.        *)
(***************************************************************************)
EXTENDS Lockout, RateLimiter, FiniteSetTheorems, TLAPS

USE SettingsAssumption, MaxClockAssumption DEF NULL

-----------------------------------------------------------------------------
(* Lockout *)

LEMMA IdleType == Idle \in Try /\ ~Idle.busy
BY DEF Idle, Try

(* Ending an attempt touches no other. *)
LEMMA EndType ==
    ASSUME TypeOK, NEW w \in Workers, End(w)
    PROVE  /\ try' \in [Workers -> Try]
           /\ ~try'[w].busy
           /\ \A v \in Workers : v # w => try'[v] = try[v]
BY IdleType DEF End, TypeOK

(* Beginning one takes from the others that they were alone. *)
LEMMA ReadType ==
    ASSUME TypeOK, NEW w \in Workers, Read(w)
    PROVE  /\ try' \in [Workers -> Try]
           /\ try'[w].busy /\ try'[w].attempts = attempts
           /\ try'[w].lockedUntil = lockedUntil /\ try'[w].now = clock
           /\ try'[w].alone => Others(w) = {}
           /\ \A v \in Workers : v # w =>
                /\ try'[v].busy = try[v].busy
                /\ try'[v].attempts = try[v].attempts
                /\ try'[v].lockedUntil = try[v].lockedUntil
                /\ try'[v].now = try[v].now
                /\ ~(try'[v].busy /\ try'[v].alone)
<1>1. \A v \in Workers : try[v] \in Try
  BY DEF TypeOK
<1>2. \A v \in Workers :
         try'[v] = IF v = w THEN [busy |-> TRUE, attempts |-> attempts,
                                  lockedUntil |-> lockedUntil, now |-> clock,
                                  alone |-> Others(w) = {}]
                   ELSE IF try[v].busy THEN [try[v] EXCEPT !.alone = FALSE]
                   ELSE try[v]
  BY DEF Read
<1>3. try'[w] \in Try /\ try'[w].busy /\ try'[w].attempts = attempts
      /\ try'[w].lockedUntil = lockedUntil /\ try'[w].now = clock
      /\ (try'[w].alone => Others(w) = {})
  <2> DEFINE free == Others(w) = {}
  <2>1. try'[w] = [busy |-> TRUE, attempts |-> attempts,
                   lockedUntil |-> lockedUntil, now |-> clock, alone |-> free]
    BY <1>2
  <2>2. free \in BOOLEAN
    OBVIOUS
  <2> HIDE DEF free
  <2>3. attempts \in Nat /\ lockedUntil \in Nat /\ clock \in Nat
    BY DEF TypeOK
  <2>4. try'[w] \in Try
    BY <2>1, <2>2, <2>3 DEF Try
  <2>5. /\ try'[w].busy /\ try'[w].attempts = attempts
        /\ try'[w].lockedUntil = lockedUntil /\ try'[w].now = clock
        /\ try'[w].alone = free
    BY <2>1
  <2>6. QED
    BY <2>4, <2>5 DEF free
<1>4. ASSUME NEW v \in Workers, v # w
      PROVE  /\ try'[v] \in Try
             /\ try'[v].busy = try[v].busy
             /\ try'[v].attempts = try[v].attempts
             /\ try'[v].lockedUntil = try[v].lockedUntil
             /\ try'[v].now = try[v].now
             /\ ~(try'[v].busy /\ try'[v].alone)
  <2>1. CASE try[v].busy
    <3>1. try'[v] = [try[v] EXCEPT !.alone = FALSE]
      BY <1>2, <1>4, <2>1
    <3>2. QED
      BY <1>1, <3>1 DEF Try
  <2>2. CASE ~try[v].busy
    BY <1>1, <1>2, <1>4, <2>2
  <2>3. QED
    BY <2>1, <2>2
<1>5. try' \in [Workers -> Try]
  <2>1. try' = [v \in Workers |-> try'[v]]
    BY DEF Read
  <2>2. QED
    BY <1>3, <1>4, <2>1
<1>6. QED
  BY <1>3, <1>4, <1>5

LEMMA TypeStep == TypeOK /\ [Next]_vars => TypeOK'
<1> SUFFICES ASSUME TypeOK, [Next]_vars PROVE TypeOK'
  OBVIOUS
<1>1. \A w \in Workers : try[w].attempts \in Nat /\ try[w].now \in Nat
  BY DEF TypeOK, Try
<1>2. ASSUME NEW w \in Workers, Begin(w) PROVE TypeOK'
  BY <1>2, ReadType DEF Begin, Read, TypeOK
<1>3. ASSUME NEW w \in Workers, Fail(w) PROVE TypeOK'
  BY <1>1, <1>3, EndType DEF Fail, TypeOK
<1>4. ASSUME NEW w \in Workers, Succeed(w) PROVE TypeOK'
  BY <1>4, EndType DEF Succeed, TypeOK
<1>5. ASSUME NEW w \in Workers, Abandon(w) PROVE TypeOK'
  BY <1>5, EndType DEF Abandon, TypeOK
<1>6. CASE Tick
  BY <1>6 DEF Tick, TypeOK
<1>7. CASE UNCHANGED vars
  BY <1>7 DEF vars, TypeOK
<1>8. QED
  BY <1>2, <1>3, <1>4, <1>5, <1>6, <1>7 DEF Next, Attempt, Refuse

(* Every variable keeps its type: no attempt, however many overlap it, makes *)
(* the counter negative or counts more failures than lock the account.      *)
THEOREM TypeCorrect == Spec => []TypeOK
<1>1. Init => TypeOK
  BY IdleType DEF Init, TypeOK
<1>2. QED
  BY <1>1, TypeStep, PTL DEF Spec

-----------------------------------------------------------------------------

(* A failure: the count goes up from what the attempt had read. *)
LEMMA FailStep ==
    ASSUME TypeOK, LockInv, NEW w \in Workers, Fail(w)
    PROVE  LockInv'
<1>1. /\ ~try'[w].busy
      /\ \A v \in Workers : v # w => try'[v] = try[v]
  BY EndType DEF Fail
<1>2. try[w].attempts \in Nat /\ try[w].now \in Nat /\ try[w].alone \in BOOLEAN
  BY DEF TypeOK, Try
<1>3. /\ failures \in Nat /\ failures <= MaxAttempts /\ MaxAttempts > 0
      /\ failures' = IF failures < MaxAttempts THEN failures + 1 ELSE failures
  BY DEF TypeOK, Fail
<1>4. ASSUME NEW v \in Workers, try'[v].busy
      PROVE  v # w /\ try'[v] = try[v] /\ try[v].busy /\ try[v].attempts \in Nat
  BY <1>1, <1>4 DEF TypeOK, Try
<1>5. AloneIsCurrent'
  <2> SUFFICES ASSUME NEW v \in Workers, try'[v].busy, try'[v].alone PROVE FALSE
    BY DEF AloneIsCurrent
  <2>1. w \in Others(v)
    BY <1>4 DEF Others, Fail
  <2>2. QED
    BY <1>4, <2>1 DEF LockInv, AloneIsCurrent
<1>6. NoLockRead'
  BY <1>4 DEF LockInv, NoLockRead, Fail
<1>7. CountsAreFailures'
  <2>1. Counted(attempts)'
    BY <1>2, <1>3 DEF LockInv, CountsAreFailures, Counted, Fail
  <2>2. \A v \in Workers : try'[v].busy => Counted(try[v].attempts)
    BY <1>4 DEF LockInv, CountsAreFailures
  <2>3. \A v \in Workers : try'[v].busy =>
           try'[v].attempts <= failures' \/ failures' = MaxAttempts
    BY <1>3, <1>4, <2>2 DEF Counted
  <2>4. QED
    BY <2>1, <2>3 DEF CountsAreFailures, Counted
<1>8. try[w].alone => streak <= try[w].attempts
  BY DEF LockInv, AloneIsCurrent, StreakIsCounted, Fail
<1>9. StreakIsCounted'
  BY <1>2, <1>8 DEF StreakIsCounted, Fail, TypeOK
<1>10. SerialFailuresLock'
  BY <1>2, <1>3, <1>8 DEF SerialFailuresLock, Fail, TypeOK
<1>11. LockNeedsFailures'
  <2>1. CASE try[w].attempts + 1 >= MaxAttempts
    <3>1. Counted(try[w].attempts)
      BY DEF LockInv, CountsAreFailures, Fail
    <3>2. QED
      BY <1>2, <1>3, <2>1, <3>1 DEF LockNeedsFailures, Counted
  <2>2. CASE ~(try[w].attempts + 1 >= MaxAttempts)
    BY <1>3, <2>2 DEF LockInv, LockNeedsFailures, Fail
  <2>3. QED
    BY <2>1, <2>2
<1>12. QED
  BY <1>5, <1>6, <1>7, <1>9, <1>10, <1>11 DEF LockInv

(* A success: if it was alone, nothing is left to be counted. *)
LEMMA SucceedStep ==
    ASSUME TypeOK, LockInv, NEW w \in Workers, Succeed(w)
    PROVE  LockInv'
<1>1. /\ ~try'[w].busy
      /\ \A v \in Workers : v # w => try'[v] = try[v]
  BY EndType DEF Succeed
<1>2. /\ failures \in Nat /\ attempts \in Nat /\ try[w].alone \in BOOLEAN
      /\ attempts' = 0 \/ attempts' = attempts
      /\ lockedUntil' = NULL \/ lockedUntil' = lockedUntil
      /\ failures' = IF try[w].alone THEN 0 ELSE failures
      /\ streak' = 0 /\ lastFailure' = lastFailure /\ clock' = clock
  BY DEF TypeOK, Try, Succeed
<1>3. try[w].alone => attempts' = 0 /\ lockedUntil' = NULL /\ Others(w) = {}
  BY DEF LockInv, AloneIsCurrent, Succeed
<1>4. ASSUME NEW v \in Workers, try'[v].busy
      PROVE  v # w /\ try'[v] = try[v] /\ v \in Others(w) /\ w \in Others(v)
  BY <1>1, <1>4 DEF Others, Succeed
<1>5. AloneIsCurrent'
  <2> SUFFICES ASSUME NEW v \in Workers, try'[v].busy, try'[v].alone PROVE FALSE
    BY DEF AloneIsCurrent
  <2>1. try[v].busy /\ try[v].alone /\ w \in Others(v)
    BY <1>4
  <2>2. QED
    BY <2>1 DEF LockInv, AloneIsCurrent
<1>6. NoLockRead'
  BY <1>2, <1>4 DEF LockInv, NoLockRead
<1>7. CountsAreFailures'
  <2>1. CASE try[w].alone
    BY <1>2, <1>3, <1>4, <2>1 DEF CountsAreFailures, Counted
  <2>2. CASE ~try[w].alone
    BY <1>2, <1>4, <2>2 DEF LockInv, CountsAreFailures, Counted
  <2>3. QED
    BY <2>1, <2>2
<1>8. StreakIsCounted'
  BY <1>2 DEF StreakIsCounted
<1>9. SerialFailuresLock'
  BY <1>2 DEF SerialFailuresLock
<1>10. LockNeedsFailures'
  BY <1>2, <1>3 DEF LockInv, LockNeedsFailures
<1>11. QED
  BY <1>5, <1>6, <1>7, <1>8, <1>9, <1>10 DEF LockInv

(* The steps that leave the counter and the lock alone. *)
LEMMA QuietStep ==
    ASSUME TypeOK, LockInv,
           Tick \/ (\E w \in Workers : Begin(w) \/ Abandon(w)) \/ UNCHANGED vars
    PROVE  LockInv'
<1>1. /\ attempts' = attempts /\ lockedUntil' = lockedUntil
      /\ streak' = streak /\ failures' = failures /\ lastFailure' = lastFailure
  BY DEF Tick, Begin, Read, Abandon, vars
<1>2. StreakIsCounted' /\ SerialFailuresLock' /\ LockNeedsFailures'
  BY <1>1 DEF LockInv, StreakIsCounted, SerialFailuresLock, LockNeedsFailures
<1>3. ASSUME NEW w \in Workers, Begin(w)
      PROVE  AloneIsCurrent' /\ NoLockRead' /\ CountsAreFailures'
  <2>1. Read(w) /\ clock' = clock /\ lockedUntil <= clock
    BY <1>3 DEF Begin, Read
  <2>2. AloneIsCurrent'
    <3> SUFFICES ASSUME NEW v \in Workers, try'[v].busy, try'[v].alone
                 PROVE  /\ {u \in Workers \ {v} : try'[u].busy} = {}
                        /\ try'[v].attempts = attempts
                        /\ try'[v].lockedUntil = lockedUntil
      BY <1>1 DEF AloneIsCurrent, Others
    <3>1. v = w
      BY <2>1, ReadType
    <3>2. Others(w) = {}
      BY <2>1, <3>1, ReadType
    <3>3. \A u \in Workers \ {w} : ~try'[u].busy
      BY <2>1, <3>2, ReadType DEF Others
    <3>4. QED
      BY <2>1, <3>1, <3>3, ReadType
  <2>3. NoLockRead'
    <3> SUFFICES ASSUME NEW v \in Workers, try'[v].busy
                 PROVE  /\ try'[v].lockedUntil <= try'[v].now
                        /\ try'[v].now <= clock
      BY <2>1 DEF NoLockRead
    <3>1. CASE v = w
      <4>1. try'[v].lockedUntil = lockedUntil /\ try'[v].now = clock
        BY <2>1, <3>1, ReadType
      <4>2. QED
        BY <2>1, <4>1 DEF TypeOK
    <3>2. CASE v # w
      <4>1. /\ try[v].busy /\ try'[v].lockedUntil = try[v].lockedUntil
            /\ try'[v].now = try[v].now
        BY <2>1, <3>2, ReadType
      <4>2. QED
        BY <4>1 DEF LockInv, NoLockRead
    <3>3. QED
      BY <3>1, <3>2
  <2>4. CountsAreFailures'
    <3>1. \A v \in Workers : try'[v].busy => Counted(try'[v].attempts)
      BY <2>1, ReadType DEF LockInv, CountsAreFailures
    <3>2. Counted(attempts)
      BY DEF LockInv, CountsAreFailures
    <3>3. QED
      BY <1>1, <3>1, <3>2 DEF CountsAreFailures, Counted
  <2>5. QED
    BY <2>2, <2>3, <2>4
<1>4. ASSUME NEW w \in Workers, Abandon(w)
      PROVE  AloneIsCurrent' /\ NoLockRead' /\ CountsAreFailures'
  <2>1. clock' = clock /\ \A v \in Workers :
           try'[v].busy => v # w /\ try'[v] = try[v]
    BY <1>4, EndType DEF Abandon
  <2>2. \A v \in Workers : try'[v].busy => Others(v)' \subseteq Others(v)
    BY <2>1 DEF Others
  <2>3. QED
    BY <1>1, <2>1, <2>2
       DEF LockInv, AloneIsCurrent, NoLockRead, CountsAreFailures, Counted
<1>5. CASE Tick
  BY <1>5 DEF Tick, LockInv, AloneIsCurrent, NoLockRead, CountsAreFailures,
         Counted, Others, StreakIsCounted, SerialFailuresLock,
         LockNeedsFailures,
         TypeOK, Try
<1>6. CASE UNCHANGED vars
  BY <1>6 DEF vars, LockInv, AloneIsCurrent, NoLockRead, CountsAreFailures,
         Counted, Others, StreakIsCounted, SerialFailuresLock, LockNeedsFailures
<1>7. QED
  BY <1>2, <1>3, <1>4, <1>5, <1>6 DEF LockInv

LEMMA LockStep == TypeOK /\ LockInv /\ [Next]_vars => LockInv'
BY FailStep, SucceedStep, QuietStep DEF Next, Attempt, Refuse

LEMMA LockAlways == Spec => []LockInv
<1>1. Init => LockInv
  BY IdleType DEF Init, LockInv, AloneIsCurrent, NoLockRead, CountsAreFailures,
         Counted, StreakIsCounted, SerialFailuresLock, LockNeedsFailures
<1>2. QED
  BY <1>1, LockStep, TypeCorrect, PTL DEF Spec

(* So many failures of authenticate_password in a row, none of them         *)
(* overlapping another attempt, always lock the account.                    *)
THEOREM FailuresLock == Spec => []SerialFailuresLock
<1>1. LockInv => SerialFailuresLock
  BY DEF LockInv
<1>2. QED
  BY <1>1, LockAlways, PTL

(* The account is never locked before so many attempts have failed since    *)
(* the last success that overlapped no other attempt.                       *)
THEOREM LockIsEarned == Spec => []LockNeedsFailures
<1>1. LockInv => LockNeedsFailures
  BY DEF LockInv
<1>2. QED
  BY <1>1, LockAlways, PTL

(* A lock in force is touched only by attempts that read the row before it. *)
THEOREM LockInForceHolds == Spec => LockHolds
<1>1. TypeOK /\ LockInv /\ [Next]_vars
        => [InForce /\ lockedUntil' # lockedUntil
              => \E w \in Workers :
                    try[w].busy /\ ~try[w].alone /\ ~try'[w].busy]_vars
  <2> SUFFICES ASSUME TypeOK, LockInv, [Next]_vars, InForce,
                      lockedUntil' # lockedUntil
               PROVE  \E w \in Workers :
                         try[w].busy /\ ~try[w].alone /\ ~try'[w].busy
    OBVIOUS
  <2>1. PICK w \in Workers : Fail(w) \/ Succeed(w)
    BY DEF Next, Attempt, Begin, Read, Refuse, Abandon, Tick, vars
  <2>2. try[w].busy /\ ~try'[w].busy
    BY <2>1, EndType DEF Fail, Succeed
  <2>3. ~try[w].alone
    BY <2>2 DEF LockInv, AloneIsCurrent, NoLockRead, InForce, TypeOK, Try
  <2>4. QED
    BY <2>2, <2>3
<1>2. QED
  BY <1>1, TypeCorrect, LockAlways, PTL DEF Spec, LockHolds

-----------------------------------------------------------------------------
(* RateLimiter: that of sets of hits the larger has more. *)

LEMMA FiniteHits ==
    ASSUME NEW H \in SUBSET Hits
    PROVE  /\ IsFiniteSet(H) /\ Cardinality(H) \in Nat
           /\ \A G \in SUBSET H : Cardinality(G) <= Cardinality(H)
<1>1. IsFiniteSet(H)
  BY HitsAssumption, FS_Subset
<1>2. QED
  BY <1>1, FS_CardinalityType, FS_Subset

(* What is known of a hit, field by field.                                  *)
LEMMA HitFields ==
    ASSUME RLTypeOK, NEW h \in Hits
    PROVE  /\ hit[h].pc \in Pcs /\ hit[h].at \in Nat
           /\ hit[h].by \in Processes \union {NoProcess}
           /\ hit[h].beside \subseteq Hits /\ hit[h].kept \in BOOLEAN
<1>1. hit[h] \in Hit
  BY DEF RLTypeOK
<1>2. QED
  BY <1>1 DEF Hit

(* A step of one hit leaves the others alone, *)
Aside(h) ==
    \A g \in Hits \ {h} :
       /\ hit'[g].pc = hit[g].pc /\ hit'[g].at = hit[g].at
       /\ hit'[g].by = hit[g].by /\ hit'[g].kept = hit[g].kept
       /\ hit[g].beside \subseteq hit'[g].beside

(* ... and one that has taken its time does not take another; only the      *)
(* failure of its store hands it to a process, and then it is not kept.     *)
GoesOn(h) ==
    /\ hit'[h].at = hit[h].at
    /\ hit'[h].beside = hit[h].beside
    /\ hit'[h].kept => hit[h].kept /\ hit'[h].by = hit[h].by

LEMMA BecomesFacts ==
    ASSUME RLTypeOK, NEW h \in Hits, NEW pc \in Pcs, Becomes(h, pc)
    PROVE  /\ hit' \in [Hits -> Hit]
           /\ hit'[h].pc = pc /\ hit'[h].by = hit[h].by
           /\ hit'[h].kept = hit[h].kept
           /\ Aside(h) /\ GoesOn(h)
<1>1. hit[h] \in Hit /\ hit \in [Hits -> Hit]
  BY DEF RLTypeOK
<1>2. /\ hit' = [hit EXCEPT ![h] = [hit[h] EXCEPT !.pc = pc]]
      /\ [hit[h] EXCEPT !.pc = pc] \in Hit
  BY <1>1 DEF Becomes, Hit
<1>3. hit'[h] = [hit[h] EXCEPT !.pc = pc]
  BY <1>1, <1>2
<1>4. /\ hit'[h].pc = pc /\ hit'[h].by = hit[h].by
      /\ hit'[h].kept = hit[h].kept /\ hit'[h].at = hit[h].at
      /\ hit'[h].beside = hit[h].beside
  BY <1>1, <1>3 DEF Hit
<1>5. \A g \in Hits \ {h} : hit'[g] = hit[g]
  BY <1>1, <1>2
<1>6. hit' \in [Hits -> Hit]
  BY <1>1, <1>2
<1>7. QED
  BY <1>4, <1>5, <1>6 DEF Aside, GoesOn

LEMMA ArriveFacts ==
    ASSUME RLTypeOK, NEW h \in Hits, Arrive(h)
    PROVE  /\ hit' \in [Hits -> Hit]
           /\ hit[h].pc = "new" /\ hit'[h].kept
           /\ backend = "memory" => hit'[h].pc = "memory"
                                    /\ hit'[h].by \in Processes
           /\ backend # "memory" => hit'[h].pc = "count"
           /\ backend = "db" => /\ hit'[h].beside = Busy
                                /\ \A g \in Busy : h \in hit'[g].beside
           /\ Aside(h)
<1> DEFINE inMemory == backend = "memory"
           beside == IF backend = "db" THEN Busy ELSE {}
           pc == IF inMemory THEN "memory" ELSE "count"
<1>1. PICK p \in (IF inMemory THEN Processes ELSE {NoProcess}) :
         hit' = [g \in Hits |->
                   CASE g = h -> [pc |-> pc, at |-> time, by |-> p,
                                  beside |-> beside, kept |-> TRUE]
                     [] g \in beside -> [hit[g] EXCEPT
                                           !.beside = @ \union {h}]
                     [] OTHER -> hit[g]]
  BY DEF Arrive
<1>2. /\ inMemory => p \in Processes
      /\ p \in Processes \union {NoProcess}
      /\ pc \in Pcs
      /\ inMemory => pc = "memory"
      /\ ~inMemory => pc = "count"
      /\ time \in Nat
  BY DEF RLTypeOK, Pcs
<1>3. /\ hit[h].pc = "new" /\ h \notin beside
      /\ beside \subseteq Hits /\ (backend = "db" => beside = Busy)
  BY DEF Arrive, Busy
<1> HIDE DEF beside, pc
<1>4. /\ hit'[h] = [pc |-> pc, at |-> time, by |-> p, beside |-> beside,
                    kept |-> TRUE]
      /\ \A g \in beside :
            hit'[g] = [hit[g] EXCEPT !.beside = @ \union {h}]
      /\ \A g \in Hits \ {h} : g \notin beside => hit'[g] = hit[g]
  BY <1>1, <1>3
<1>5. /\ hit'[h] \in Hit /\ hit'[h].pc = pc /\ hit'[h].by = p
      /\ hit'[h].beside = beside /\ hit'[h].kept
  BY <1>2, <1>3, <1>4 DEF Hit
<1>6. ASSUME NEW g \in Hits \ {h}
      PROVE  /\ hit'[g] \in Hit
             /\ hit'[g].pc = hit[g].pc /\ hit'[g].at = hit[g].at
             /\ hit'[g].by = hit[g].by /\ hit'[g].kept = hit[g].kept
             /\ hit[g].beside \subseteq hit'[g].beside
             /\ g \in beside => h \in hit'[g].beside
  <2>1. hit[g] \in Hit
    BY DEF RLTypeOK
  <2>2. CASE g \in beside
    <3> DEFINE more == hit[g].beside \union {h}
    <3>1. hit'[g] = [hit[g] EXCEPT !.beside = more]
      BY <1>4, <2>2
    <3>2. more \in SUBSET Hits
      BY <2>1 DEF Hit
    <3>3. hit'[g] \in Hit /\ hit'[g].beside = more
      BY <2>1, <3>1, <3>2 DEF Hit
    <3>4. QED
      BY <2>1, <3>1, <3>3 DEF Hit
  <2>3. CASE g \notin beside
    BY <1>4, <2>1, <2>3
  <2>4. QED
    BY <2>2, <2>3
<1>7. hit' \in [Hits -> Hit]
  <2>1. hit' = [g \in Hits |-> hit'[g]]
    BY <1>1
  <2>2. QED
    BY <1>5, <1>6, <2>1
<1>8. QED
  BY <1>2, <1>3, <1>5, <1>6, <1>7 DEF Aside

LEMMA StoreFailsFacts ==
    ASSUME RLTypeOK, NEW h \in Hits, StoreFails(h)
    PROVE  /\ hit' \in [Hits -> Hit]
           /\ hit[h].pc \in {"count", "insert", "undo"}
           /\ hit'[h].pc \in {"memory", "refused"} /\ ~hit'[h].kept
           /\ hit'[h].pc = "memory" => hit'[h].by \in Processes
           /\ Aside(h) /\ GoesOn(h)
<1>1. hit[h] \in Hit /\ hit \in [Hits -> Hit]
  BY DEF RLTypeOK
<1>2. CASE failClosed
  <2> DEFINE r == [hit[h] EXCEPT !.pc = "refused", !.kept = FALSE]
  <2>1. hit' = [hit EXCEPT ![h] = r]
    BY <1>1, <1>2 DEF StoreFails
  <2>2. /\ r \in Hit /\ r.pc = "refused" /\ ~r.kept
        /\ r.at = hit[h].at /\ r.beside = hit[h].beside
    BY <1>1 DEF Hit, Pcs
  <2> HIDE DEF r
  <2>3. hit'[h] = r /\ \A g \in Hits \ {h} : hit'[g] = hit[g]
    BY <1>1, <2>1
  <2>4. hit' \in [Hits -> Hit]
    BY <1>1, <2>1, <2>2
  <2>5. QED
    BY <2>2, <2>3, <2>4 DEF Aside, GoesOn, StoreFails
<1>3. CASE ~failClosed
  <2>1. PICK p \in Processes :
           hit' = [hit EXCEPT ![h].pc = "memory", ![h].by = p,
                              ![h].kept = FALSE]
    BY <1>3 DEF StoreFails
  <2> DEFINE r == [hit[h] EXCEPT !.pc = "memory", !.by = p, !.kept = FALSE]
  <2>2. hit' = [hit EXCEPT ![h] = r]
    BY <1>1, <2>1
  <2>3. /\ r \in Hit /\ r.pc = "memory" /\ r.by = p /\ ~r.kept
        /\ r.at = hit[h].at /\ r.beside = hit[h].beside
    BY <1>1 DEF Hit, Pcs
  <2> HIDE DEF r
  <2>4. hit'[h] = r /\ \A g \in Hits \ {h} : hit'[g] = hit[g]
    BY <1>1, <2>2
  <2>5. hit' \in [Hits -> Hit]
    BY <1>1, <2>2, <2>3
  <2>6. QED
    BY <2>3, <2>4, <2>5 DEF Aside, GoesOn, StoreFails
<1>4. QED
  BY <1>2, <1>3

LEMMA RestartFacts ==
    ASSUME RLTypeOK, NEW p \in Processes, Restart(p)
    PROVE  /\ hit' \in [Hits -> Hit]
           /\ \A h \in Hits :
                /\ hit'[h].at = hit[h].at /\ hit'[h].by = hit[h].by
                /\ hit'[h].beside = hit[h].beside
                /\ \/ hit'[h].pc = hit[h].pc
                   \/ h \in Busy /\ hit'[h].pc = "refused" /\ ~hit'[h].kept
                /\ hit'[h].kept => hit[h].kept /\ hit[h].by # p
<1>1. PICK lost \in SUBSET {h \in Busy : hit[h].by = NoProcess} :
         hit' = [h \in Hits |->
                   [hit[h] EXCEPT
                      !.pc = IF h \in lost \union {f \in Busy : hit[f].by = p}
                             THEN "refused" ELSE @,
                      !.kept = @ /\ h \notin lost \union
                                                {f \in Busy : hit[f].by = p}
                                 /\ hit[h].by # p]]
  BY DEF Restart
<1> DEFINE gone == lost \union {f \in Busy : hit[f].by = p}
<1>2. gone \subseteq Busy
  OBVIOUS
<1>3. ASSUME NEW h \in Hits
      PROVE  /\ hit'[h] \in Hit
             /\ hit'[h].at = hit[h].at /\ hit'[h].by = hit[h].by
             /\ hit'[h].beside = hit[h].beside
             /\ hit'[h].pc = (IF h \in gone THEN "refused" ELSE hit[h].pc)
             /\ hit'[h].kept = (hit[h].kept /\ h \notin gone /\ hit[h].by # p)
  <2> DEFINE pc == IF h \in gone THEN "refused" ELSE hit[h].pc
             kept == hit[h].kept /\ h \notin gone /\ hit[h].by # p
  <2>1. hit[h] \in Hit
    BY DEF RLTypeOK
  <2>2. hit'[h] = [hit[h] EXCEPT !.pc = pc, !.kept = kept]
    BY <1>1, <2>1 DEF Hit
  <2>3. pc \in Pcs /\ kept \in BOOLEAN
    BY <2>1 DEF Hit, Pcs
  <2> HIDE DEF pc, kept
  <2>4. QED
    BY <2>1, <2>2, <2>3 DEF Hit, pc, kept
<1> HIDE DEF gone
<1>4. hit' \in [Hits -> Hit]
  <2>1. hit' = [h \in Hits |-> hit'[h]]
    BY <1>1
  <2>2. QED
    BY <1>3, <2>1
<1>5. QED
  BY <1>2, <1>3, <1>4

(* The steps that a hit takes after its arrival. *)
Move(h) ==
    \/ CountInMemory(h) \/ CountInDb(h) \/ InsertInDb(h)
    \/ Pipeline(h) \/ Undo(h) \/ StoreFails(h)

LEMMA MoveFacts ==
    ASSUME RLTypeOK, NEW h \in Hits, Move(h)
    PROVE  /\ hit' \in [Hits -> Hit]
           /\ h \in Busy /\ hit'[h].pc # "new"
           /\ Aside(h) /\ GoesOn(h)
           /\ UNCHANGED <<settings, time>>
<1>1. UNCHANGED <<settings, time>>
  BY DEF Move, CountInMemory, CountInDb, InsertInDb, Pipeline, Undo, StoreFails
<1>2. ASSUME ~StoreFails(h)
      PROVE  /\ h \in Busy
             /\ \E pc \in {"admitted", "refused", "insert", "undo"} :
                   Becomes(h, pc)
  BY <1>2 DEF Move, CountInMemory, CountInDb, InsertInDb, Pipeline, Undo, Busy
<1>3. CASE ~StoreFails(h)
  <2>1. PICK pc \in {"admitted", "refused", "insert", "undo"} : Becomes(h, pc)
    BY <1>2, <1>3
  <2>2. pc \in Pcs /\ pc # "new"
    BY <2>1 DEF Pcs
  <2>3. QED
    BY <1>1, <1>2, <1>3, <2>1, <2>2, BecomesFacts
<1>4. CASE StoreFails(h)
  BY <1>1, <1>4, StoreFailsFacts DEF Busy
<1>5. QED
  BY <1>3, <1>4

LEMMA RLSteps ==
    ASSUME [RLNext]_rlVars
    PROVE  \/ \E h \in Hits : Arrive(h)
           \/ \E h \in Hits : Move(h)
           \/ \E p \in Processes : Restart(p)
           \/ UNCHANGED <<settings, memory, shared, hit, litter>>
BY DEF RLNext, rlVars, Move, TimePasses

(* Whatever happens, who was let in stays let in, where he was, and nobody  *)
(* takes a second time.                                                     *)
LEMMA LetInStays ==
    ASSUME RLTypeOK, [RLNext]_rlVars
    PROVE  /\ backend' = backend /\ limit' = limit /\ failClosed' = failClosed
           /\ \A h \in Hits :
                /\ hit[h].pc = "admitted" =>
                     /\ hit'[h].pc = "admitted" /\ hit'[h].by = hit[h].by
                     /\ hit'[h].kept => hit[h].kept
                /\ hit[h].pc # "new" =>
                     hit'[h].pc # "new" /\ hit'[h].at = hit[h].at
<1>1. CASE \E h \in Hits : Arrive(h)
  <2>1. PICK h \in Hits : Arrive(h)
    BY <1>1
  <2>2. hit[h].pc = "new" /\ Aside(h)
    BY <2>1, ArriveFacts
  <2>3. UNCHANGED settings
    BY <2>1 DEF Arrive
  <2>4. QED
    BY <2>2, <2>3 DEF Aside, settings
<1>2. CASE \E h \in Hits : Move(h)
  <2>1. PICK h \in Hits : Move(h)
    BY <1>2
  <2>2. /\ h \in Busy /\ hit'[h].pc # "new" /\ Aside(h) /\ GoesOn(h)
        /\ UNCHANGED settings
    BY <2>1, MoveFacts
  <2>3. QED
    BY <2>2 DEF Aside, GoesOn, settings, Busy
<1>3. CASE \E p \in Processes : Restart(p)
  <2>1. PICK p \in Processes : Restart(p)
    BY <1>3
  <2>2. UNCHANGED settings
    BY <2>1 DEF Restart
  <2>3. QED
    BY <2>1, <2>2, RestartFacts DEF settings, Busy
<1>4. CASE UNCHANGED <<settings, memory, shared, hit, litter>>
  BY <1>4 DEF settings
<1>5. QED
  BY <1>1, <1>2, <1>3, <1>4, RLSteps

LEMMA RLTypeStep == RLTypeOK /\ [RLNext]_rlVars => RLTypeOK'
<1> SUFFICES ASSUME RLTypeOK, [RLNext]_rlVars PROVE RLTypeOK'
  OBVIOUS
<1>1. UNCHANGED settings
  BY LetInStays DEF settings
<1>2. hit' \in [Hits -> Hit] /\ time' \in Nat
  <2>1. CASE TimePasses
    BY <2>1 DEF TimePasses, RLTypeOK
  <2>2. CASE UNCHANGED rlVars
    BY <2>2 DEF rlVars, RLTypeOK
  <2>3. ASSUME NEW h \in Hits, Arrive(h)
        PROVE  hit' \in [Hits -> Hit] /\ time' = time
    BY <2>3, ArriveFacts DEF Arrive
  <2>4. ASSUME NEW h \in Hits, Move(h)
        PROVE  hit' \in [Hits -> Hit] /\ time' = time
    BY <2>4, MoveFacts
  <2>5. ASSUME NEW p \in Processes, Restart(p)
        PROVE  hit' \in [Hits -> Hit] /\ time' = time
    BY <2>5, RestartFacts DEF Restart
  <2>6. QED
    BY <2>1, <2>2, <2>3, <2>4, <2>5 DEF RLNext, Move, RLTypeOK
<1>3. memory' \in [Processes -> SUBSET Hits]
  <2>1. ASSUME NEW h \in Hits, CountInMemory(h)
        PROVE  memory' \in [Processes -> SUBSET Hits]
    <3>1. PICK s \in SUBSET Hits : memory' = [memory EXCEPT ![hit[h].by] = s]
      BY <2>1 DEF CountInMemory, Recent, RLTypeOK
    <3>2. QED
      BY <3>1 DEF RLTypeOK
  <2>2. ASSUME NEW p \in Processes, Restart(p)
        PROVE  memory' \in [Processes -> SUBSET Hits]
    BY <2>2 DEF Restart, RLTypeOK
  <2>3. ASSUME NEW h \in Hits, Move(h), ~CountInMemory(h) PROVE memory' = memory
    BY <2>3 DEF Move, CountInDb, InsertInDb, Pipeline, Undo, StoreFails
  <2>4. ASSUME NEW h \in Hits, Arrive(h) PROVE memory' = memory
    BY <2>4 DEF Arrive
  <2>5. QED
    BY <2>1, <2>2, <2>3, <2>4, RLSteps DEF RLTypeOK
<1>4. shared' \in SUBSET Hits /\ litter' \in SUBSET Hits
  <2>1. ASSUME NEW h \in Hits, Move(h)
        PROVE  shared' \in SUBSET Hits /\ litter' \in SUBSET Hits
    BY <2>1 DEF Move, CountInMemory, CountInDb, InsertInDb, Pipeline, Undo,
           StoreFails, Recent, RLTypeOK
  <2>2. ASSUME NEW h \in Hits, Arrive(h)
        PROVE  shared' = shared /\ litter' = litter
    BY <2>2 DEF Arrive
  <2>3. ASSUME NEW p \in Processes, Restart(p)
        PROVE  shared' = shared /\ litter' = litter
    BY <2>3 DEF Restart
  <2>4. QED
    BY <2>1, <2>2, <2>3, RLSteps DEF RLTypeOK
<1>5. QED
  BY <1>1, <1>2, <1>3, <1>4 DEF RLTypeOK, settings

(* The variables of the limiter keep their types, whichever hit fails and   *)
(* whichever process restarts.                                              *)
THEOREM LimiterTypeCorrect == RLSpec => []RLTypeOK
<1>1. RLInit => RLTypeOK
  <2> SUFFICES ASSUME RLInit PROVE RLTypeOK
    OBVIOUS
  <2>1. Unmade \in Hit
    BY DEF Unmade, Hit, Pcs
  <2>2. hit \in [Hits -> Hit] /\ memory \in [Processes -> SUBSET Hits]
    BY <2>1 DEF RLInit
  <2>3. failClosed \in BOOLEAN
    BY DEF RLInit
  <2>4. QED
    BY <2>2, <2>3 DEF RLInit, RLTypeOK
<1>2. QED
  BY <1>1, RLTypeStep, PTL DEF RLSpec

-----------------------------------------------------------------------------

LEMMA RightStoreStep ==
    ASSUME RLTypeOK, RLInv, [RLNext]_rlVars
    PROVE  RightStore'
<1>1. backend' = backend
  BY LetInStays
<1>2. RightStore
  BY DEF RLInv
<1>3. CASE \E h \in Hits : Arrive(h)
  <2>1. PICK h \in Hits : Arrive(h)
    BY <1>3
  <2>2. /\ backend = "memory" => /\ hit'[h].pc = "memory"
                                 /\ hit'[h].by \in Processes
        /\ backend # "memory" => hit'[h].pc = "count"
        /\ Aside(h)
    BY <2>1, ArriveFacts
  <2>3. QED
    BY <1>1, <1>2, <2>2 DEF RightStore, Aside
<1>4. CASE \E h \in Hits : Move(h)
  <2>1. PICK h \in Hits : Move(h)
    BY <1>4
  <2>2. Aside(h) /\ GoesOn(h) /\ h \in Busy
    BY <2>1, MoveFacts
  <2>3. CASE StoreFails(h)
    <3>1. /\ hit[h].pc \in {"count", "insert", "undo"}
          /\ hit'[h].pc \in {"memory", "refused"} /\ ~hit'[h].kept
          /\ hit'[h].pc = "memory" => hit'[h].by \in Processes
      BY <2>3, StoreFailsFacts
    <3>2. backend # "memory"
      BY <1>2, <3>1 DEF RightStore
    <3>3. QED
      BY <1>1, <1>2, <2>2, <3>1, <3>2 DEF RightStore, Aside
  <2>4. CASE CountInMemory(h) \/ Undo(h)
    <3>1. PICK pc \in {"admitted", "refused"} : Becomes(h, pc)
      BY <2>4 DEF CountInMemory, Undo
    <3>2. hit'[h].pc = pc /\ hit'[h].by = hit[h].by
      BY <3>1, BecomesFacts DEF Pcs
    <3>3. QED
      BY <1>1, <1>2, <2>2, <3>1, <3>2 DEF RightStore, Aside, Busy
  <2>5. CASE CountInDb(h)
    <3>1. PICK pc \in {"refused", "insert"} : Becomes(h, pc)
      BY <2>5 DEF CountInDb
    <3>2. hit'[h].pc = pc
      BY <3>1, BecomesFacts DEF Pcs
    <3>3. backend = "db"
      BY <2>5 DEF CountInDb
    <3>4. QED
      BY <1>1, <1>2, <2>2, <3>2, <3>3 DEF RightStore, Aside
  <2>6. CASE InsertInDb(h) \/ Pipeline(h)
    <3>1. PICK pc \in {"admitted", "undo"} : Becomes(h, pc)
      BY <2>6 DEF InsertInDb, Pipeline
    <3>2. hit'[h].pc = pc
      BY <3>1, BecomesFacts DEF Pcs
    <3>3. backend # "memory"
      BY <1>2, <2>6 DEF RightStore, InsertInDb, Pipeline
    <3>4. QED
      BY <1>1, <1>2, <2>2, <3>2, <3>3 DEF RightStore, Aside
  <2>7. QED
    BY <2>1, <2>3, <2>4, <2>5, <2>6 DEF Move
<1>5. CASE \E p \in Processes : Restart(p)
  <2>1. PICK p \in Processes : Restart(p)
    BY <1>5
  <2>2. QED
    BY <1>1, <1>2, <2>1, RestartFacts DEF RightStore, Busy
<1>6. CASE UNCHANGED <<settings, memory, shared, hit, litter>>
  BY <1>1, <1>2, <1>6 DEF RightStore
<1>7. QED
  BY <1>3, <1>4, <1>5, <1>6, RLSteps

(* Whoever a step puts into a store it has let in, or has noted as litter.  *)
LEMMA HeldWasLetInStep ==
    ASSUME RLTypeOK, RLInv, [RLNext]_rlVars
    PROVE  HeldWasLetIn'
<1>1. HeldWasLetIn /\ RightStore
  BY DEF RLInv
<1>2. \A h \in Hits : hit[h].pc = "admitted" =>
         hit'[h].pc = "admitted" /\ hit'[h].by = hit[h].by
  BY LetInStays
<1>3. Admitted \subseteq Admitted'
  BY <1>2 DEF Admitted
<1>4. \A p \in Processes : \A g \in memory[p] :
         g \in Hits /\ g \in Admitted' /\ hit'[g].by = p
  BY <1>1, <1>2, <1>3 DEF HeldWasLetIn, Admitted
<1>5. ASSUME NEW p \in Processes
      PROVE  memory'[p] \subseteq {g \in Admitted' : hit'[g].by = p}
  <2>1. CASE memory'[p] \subseteq memory[p]
    BY <1>4, <2>1
  <2>2. ASSUME NEW h \in Hits, CountInMemory(h)
        PROVE  memory'[p] \subseteq {g \in Admitted' : hit'[g].by = p}
    <3>1. hit[h].by \in Processes /\ hit[h].pc = "memory"
      BY <1>1, <2>2 DEF CountInMemory, RightStore
    <3>2. CASE Becomes(h, "admitted")
      <4>1. h \in Admitted' /\ hit'[h].by = hit[h].by
        BY <3>2, BecomesFacts DEF Admitted, Pcs
      <4>2. memory' = [memory EXCEPT ![hit[h].by] =
                         Recent(memory[hit[h].by], h) \union {h}]
            \/ memory' = [memory EXCEPT ![hit[h].by] =
                            Recent(memory[hit[h].by], h)]
        BY <2>2 DEF CountInMemory
      <4>3. \A g \in memory'[p] :
               g \in memory[p] \/ (g = h /\ p = hit[h].by)
        BY <4>2 DEF Recent, RLTypeOK
      <4>4. QED
        BY <1>4, <4>1, <4>3
    <3>3. CASE memory' = [memory EXCEPT ![hit[h].by] =
                            Recent(memory[hit[h].by], h)]
      <4>1. memory'[p] \subseteq memory[p]
        BY <3>3 DEF Recent, RLTypeOK
      <4>2. QED
        BY <1>4, <4>1
    <3>4. QED
      BY <2>2, <3>2, <3>3 DEF CountInMemory
  <2>3. ASSUME NEW q \in Processes, Restart(q)
        PROVE  memory'[p] \subseteq memory[p]
    BY <2>3 DEF Restart, RLTypeOK
  <2>4. ASSUME NEW h \in Hits, Move(h), ~CountInMemory(h) PROVE memory' = memory
    BY <2>4 DEF Move, CountInDb, InsertInDb, Pipeline, Undo, StoreFails
  <2>5. ASSUME NEW h \in Hits, Arrive(h) PROVE memory' = memory
    BY <2>5 DEF Arrive
  <2>6. QED
    BY <2>1, <2>2, <2>3, <2>4, <2>5, RLSteps
<1>6. shared' \subseteq Admitted' \union litter'
  <2>1. shared \subseteq Admitted' \union litter
    BY <1>1, <1>3 DEF HeldWasLetIn
  <2>2. CASE shared' = shared /\ litter' = litter
    BY <2>1, <2>2
  <2>3. ASSUME NEW h \in Hits, Move(h)
        PROVE  shared' \subseteq Admitted' \union litter'
    <3>1. CASE StoreFails(h)
      BY <2>1, <3>1 DEF StoreFails, Recent
    <3>2. CASE CountInMemory(h) \/ CountInDb(h) \/ Undo(h)
      BY <2>1, <3>2 DEF CountInMemory, CountInDb, Undo
    <3>3. ASSUME InsertInDb(h) \/ Pipeline(h), Becomes(h, "admitted")
          PROVE  shared' \subseteq Admitted' \union litter'
      <4>1. h \in Admitted'
        BY <3>3, BecomesFacts DEF Admitted, Pcs
      <4>2. shared' = Recent(shared, h) \union {h} /\ litter \subseteq litter'
        BY <3>3 DEF InsertInDb, Pipeline
      <4>3. QED
        BY <2>1, <4>1, <4>2 DEF Recent
    <3>4. CASE Pipeline(h) /\ ~Becomes(h, "admitted")
      BY <2>1, <3>4 DEF Pipeline, Recent
    <3>5. QED
      BY <2>3, <3>1, <3>2, <3>3, <3>4 DEF Move, InsertInDb
  <2>4. ASSUME NEW h \in Hits, Arrive(h)
        PROVE  shared' = shared /\ litter' = litter
    BY <2>4 DEF Arrive
  <2>5. ASSUME NEW p \in Processes, Restart(p)
        PROVE  shared' = shared /\ litter' = litter
    BY <2>5 DEF Restart
  <2>6. QED
    BY <2>2, <2>3, <2>4, <2>5, RLSteps
<1>7. QED
  BY <1>5, <1>6 DEF HeldWasLetIn

(* What can happen to the memories, *)
LEMMA MemorySteps ==
    ASSUME [RLNext]_rlVars
    PROVE  \/ memory' = memory
           \/ \E h \in Hits :
                /\ hit[h].pc = "memory"
                /\ \/ memory' = [memory EXCEPT ![hit[h].by] =
                                    Recent(memory[hit[h].by], h)]
                   \/ memory' = [memory EXCEPT ![hit[h].by] =
                                    Recent(memory[hit[h].by], h) \union {h}]
           \/ \E p \in Processes : Restart(p)
<1>1. ASSUME NEW h \in Hits, Move(h), ~CountInMemory(h) PROVE memory' = memory
  BY <1>1 DEF Move, CountInDb, InsertInDb, Pipeline, Undo, StoreFails
<1>2. ASSUME NEW h \in Hits, Arrive(h) PROVE memory' = memory
  BY <1>2 DEF Arrive
<1>3. ASSUME NEW h \in Hits, CountInMemory(h)
      PROVE  /\ hit[h].pc = "memory"
             /\ \/ memory' = [memory EXCEPT ![hit[h].by] =
                                 Recent(memory[hit[h].by], h)]
                \/ memory' = [memory EXCEPT ![hit[h].by] =
                                 Recent(memory[hit[h].by], h) \union {h}]
  BY <1>3 DEF CountInMemory
<1>4. QED
  BY <1>1, <1>2, <1>3, RLSteps

(* ... and to what the processes share.                                     *)
LEMMA SharedSteps ==
    ASSUME [RLNext]_rlVars
    PROVE  \/ shared' = shared
           \/ \E h \in Hits : /\ hit[h].pc \in {"count", "insert"}
                              /\ shared' = Recent(shared, h) \union {h}
           \/ \E h \in Hits : /\ hit[h].pc = "undo"
                              /\ shared' = shared \ {h}
<1>1. ASSUME NEW h \in Hits, Move(h)
      PROVE  \/ shared' = shared
             \/ /\ hit[h].pc \in {"count", "insert"}
                /\ shared' = Recent(shared, h) \union {h}
             \/ hit[h].pc = "undo" /\ shared' = shared \ {h}
  BY <1>1 DEF Move, CountInMemory, CountInDb, InsertInDb, Pipeline, Undo,
         StoreFails
<1>2. ASSUME NEW h \in Hits, Arrive(h) PROVE shared' = shared
  BY <1>2 DEF Arrive
<1>3. ASSUME NEW p \in Processes, Restart(p) PROVE shared' = shared
  BY <1>3 DEF Restart
<1>4. QED
  BY <1>1, <1>2, <1>3, RLSteps

(* A hit that a store answers itself is put where its rivals will look.     *)
LEMMA LetInIsRecorded ==
    ASSUME RLTypeOK, RLInv, NEW h \in Hits, Move(h), h \in Admitted',
           hit'[h].kept
    PROVE  Held(h)'
<1>1. backend' = backend /\ hit[h].kept /\ hit'[h].by = hit[h].by
  BY MoveFacts DEF GoesOn, settings
<1>2. /\ hit'[h].pc = "admitted"
      /\ ~StoreFails(h)
      /\ ~Becomes(h, "refused") /\ ~Becomes(h, "undo") /\ ~Becomes(h, "insert")
  BY StoreFailsFacts, BecomesFacts DEF Admitted, Pcs
<1>3. RightStore
  BY DEF RLInv
<1>4. CASE CountInMemory(h)
  <2>1. backend = "memory" /\ hit[h].by \in Processes
    BY <1>1, <1>3, <1>4 DEF RightStore, CountInMemory
  <2>2. memory' = [memory EXCEPT ![hit[h].by] =
                      Recent(memory[hit[h].by], h) \union {h}]
    BY <1>2, <1>4 DEF CountInMemory
  <2>3. h \in memory'[hit[h].by]
    BY <2>1, <2>2 DEF RLTypeOK
  <2>4. QED
    BY <1>1, <2>1, <2>3 DEF Held
<1>5. CASE InsertInDb(h) \/ Pipeline(h)
  <2>1. backend # "memory"
    BY <1>3, <1>5 DEF RightStore, InsertInDb, Pipeline
  <2>2. h \in shared'
    BY <1>5 DEF InsertInDb, Pipeline
  <2>3. QED
    BY <1>1, <2>1, <2>2 DEF Held
<1>6. QED
  BY <1>2, <1>4, <1>5 DEF Move, CountInDb, Undo

(* A record goes only with a window that it has left, with a process that   *)
(* forgets, or with the hit that takes it back.                             *)
LEMMA LetInIsHeldStep ==
    ASSUME RLTypeOK, RLInv, [RLNext]_rlVars
    PROVE  LetInIsHeld'
<1> SUFFICES ASSUME NEW g \in Hits, hit'[g].pc = "admitted", hit'[g].kept
             PROVE  Held(g)' \/ Outlived(g)'
  BY DEF LetInIsHeld, Admitted
<1>1. /\ backend' = backend
      /\ \A h \in Hits :
           /\ hit[h].pc = "admitted" =>
                hit'[h].by = hit[h].by /\ (hit'[h].kept => hit[h].kept)
           /\ hit[h].pc # "new" => hit'[h].pc # "new" /\ hit'[h].at = hit[h].at
  BY LetInStays
<1>2. ASSUME hit[g].pc = "admitted", NEW f \in Hits, hit[f].pc # "new",
             hit[g].at + Window <= hit[f].at
      PROVE  Outlived(g)'
  BY <1>1, <1>2 DEF Outlived
<1>3. ASSUME hit[g].pc = "admitted", NEW f \in Hits, hit[f].pc # "new",
             NEW H, g \in H, g \notin Recent(H, f)
      PROVE  Outlived(g)'
  <2>1. hit[g].at \in Nat /\ hit[f].at \in Nat /\ Window \in Nat
    BY HitFields, WindowAssumption
  <2>2. ~(hit[g].at + Window > hit[f].at)
    BY <1>3 DEF Recent
  <2>3. hit[g].at + Window <= hit[f].at
    BY <2>1, <2>2
  <2>4. QED
    BY <1>2, <1>3, <2>3
<1>4. CASE hit[g].pc = "admitted"
  <2>1. hit'[g].by = hit[g].by /\ (Held(g) \/ Outlived(g))
    BY <1>1, <1>4 DEF RLInv, LetInIsHeld, Admitted
  <2>2. CASE Outlived(g)
    BY <1>2, <1>4, <2>2 DEF Outlived
  <2>3. CASE Held(g) /\ backend = "memory"
    <3> DEFINE p == hit[g].by
    <3>1. p \in Processes /\ g \in memory[p]
      BY <1>4, <2>3 DEF Held, RLInv, RightStore
    <3>2. g \in memory'[p] => Held(g)'
      BY <1>1, <2>1, <2>3 DEF Held
    <3>3. CASE memory' = memory
      BY <3>1, <3>2, <3>3
    <3>4. ASSUME NEW h \in Hits, hit[h].pc = "memory",
                 \/ memory' = [memory EXCEPT ![hit[h].by] =
                                  Recent(memory[hit[h].by], h)]
                 \/ memory' = [memory EXCEPT ![hit[h].by] =
                                  Recent(memory[hit[h].by], h) \union {h}]
          PROVE  Held(g)' \/ Outlived(g)'
      <4>1. CASE g \in Recent(memory[p], h)
        <5>1. g \in memory'[p]
          BY <3>1, <3>4, <4>1 DEF RLTypeOK
        <5>2. QED
          BY <3>2, <5>1
      <4>2. CASE g \notin Recent(memory[p], h)
        BY <1>3, <1>4, <3>1, <3>4, <4>2
      <4>3. QED
        BY <4>1, <4>2
    <3>5. ASSUME NEW q \in Processes, Restart(q) PROVE Held(g)'
      <4>1. q # p
        BY <3>5, RestartFacts
      <4>2. memory' = [memory EXCEPT ![q] = {}]
        BY <3>5 DEF Restart
      <4>3. g \in memory'[p]
        BY <3>1, <4>1, <4>2 DEF RLTypeOK
      <4>4. QED
        BY <3>2, <4>3
    <3>6. QED
      BY <3>3, <3>4, <3>5, MemorySteps
  <2>4. CASE Held(g) /\ backend # "memory"
    <3>1. g \in shared /\ (g \in shared' => Held(g)')
      BY <1>1, <2>4 DEF Held
    <3>2. ASSUME NEW h \in Hits, hit[h].pc \in {"count", "insert"},
                 shared' = Recent(shared, h) \union {h}
          PROVE  Held(g)' \/ Outlived(g)'
      BY <1>3, <1>4, <3>1, <3>2
    <3>3. ASSUME NEW h \in Hits, hit[h].pc = "undo", shared' = shared \ {h}
          PROVE  Held(g)'
      BY <1>4, <3>1, <3>3
    <3>4. QED
      BY <3>1, <3>2, <3>3, SharedSteps
  <2>5. QED
    BY <2>1, <2>2, <2>3, <2>4
<1>5. CASE hit[g].pc # "admitted"
  <2>1. Move(g)
    <3>1. ASSUME NEW h \in Hits, Arrive(h) PROVE FALSE
      <4>1. Aside(h) /\ hit'[h].pc # "admitted"
        BY <3>1, ArriveFacts
      <4>2. QED
        BY <1>5, <4>1 DEF Aside
    <3>2. ASSUME NEW h \in Hits, Move(h) PROVE g = h
      BY <1>5, <3>2, MoveFacts DEF Aside
    <3>3. ASSUME NEW p \in Processes, Restart(p) PROVE FALSE
      BY <1>5, <3>3, RestartFacts
    <3>4. QED
      BY <1>5, <3>1, <3>2, <3>3, RLSteps
  <2>2. QED
    BY <2>1, LetInIsRecorded DEF Admitted
<1>6. QED
  BY <1>4, <1>5

(* Who arrives is told who is under way, and they of him. *)
LEMMA BesideIsKnownStep ==
    ASSUME RLTypeOK, RLInv, [RLNext]_rlVars
    PROVE  BesideIsKnown'
<1> SUFFICES ASSUME backend = "db", NEW h \in Busy', NEW g \in Busy', g # h
             PROVE  g \in hit'[h].beside
  BY LetInStays DEF BesideIsKnown
<1>1. ASSUME h \in Busy, g \in Busy PROVE g \in hit[h].beside
  BY <1>1 DEF RLInv, BesideIsKnown
<1>2. ASSUME NEW k \in Hits, Arrive(k) PROVE g \in hit'[h].beside
  <2>1. /\ hit'[k].beside = Busy /\ (\A f \in Busy : k \in hit'[f].beside)
        /\ Aside(k)
    BY <1>2, ArriveFacts
  <2>2. Busy' \subseteq Busy \union {k}
    BY <2>1 DEF Busy, Aside
  <2>3. CASE h = k
    BY <2>1, <2>2, <2>3
  <2>4. CASE g = k
    BY <2>1, <2>2, <2>4
  <2>5. CASE h # k /\ g # k
    BY <1>1, <2>1, <2>2, <2>5 DEF Aside, Busy
  <2>6. QED
    BY <2>3, <2>4, <2>5
<1>3. ASSUME NEW k \in Hits, Move(k) PROVE g \in hit'[h].beside
  <2>1. k \in Busy /\ Aside(k) /\ GoesOn(k)
    BY <1>3, MoveFacts
  <2>2. Busy' \subseteq Busy
    BY <2>1 DEF Busy, Aside
  <2>3. QED
    BY <1>1, <2>1, <2>2 DEF Aside, GoesOn, Busy
<1>4. ASSUME NEW p \in Processes, Restart(p) PROVE g \in hit'[h].beside
  <2>1. Busy' \subseteq Busy /\ hit'[h].beside = hit[h].beside
    BY <1>4, RestartFacts DEF Busy
  <2>2. QED
    BY <1>1, <2>1
<1>5. CASE UNCHANGED <<settings, memory, shared, hit, litter>>
  BY <1>1, <1>5 DEF Busy
<1>6. QED
  BY <1>2, <1>3, <1>4, <1>5, RLSteps

(* What the table gains after a hit has counted is from hits beside it.     *)
LEMMA CountedBeforeStep ==
    ASSUME RLTypeOK, RLInv, [RLNext]_rlVars
    PROVE  CountedBefore'
<1> SUFFICES ASSUME NEW h \in Hits, hit'[h].pc = "insert"
             PROVE  Cardinality(Recent(shared, h)' \ hit'[h].beside) < limit
  BY LetInStays DEF CountedBefore
<1> DEFINE counted == Recent(shared, h) \ hit[h].beside
           recounted == Recent(shared, h)' \ hit'[h].beside
<1>1. ASSUME hit[h].pc = "insert"
      PROVE  h \in Busy /\ backend = "db" /\ Cardinality(counted) < limit
  BY <1>1 DEF RLInv, RightStore, CountedBefore, Busy
<1>2. /\ limit \in Nat /\ counted \in SUBSET Hits
      /\ IsFiniteSet(counted) /\ Cardinality(counted) \in Nat
  BY FiniteHits, LimitsAssumption DEF Recent, RLTypeOK
<1>3. ASSUME hit'[h].at = hit[h].at,
             \A g \in Hits \ hit'[h].beside : hit'[g].at = hit[g].at,
             hit[h].beside \subseteq hit'[h].beside,
             \A g \in shared' : g \in shared \/ g \in hit'[h].beside,
             Cardinality(counted) < limit
      PROVE  Cardinality(recounted) < limit
  <2>1. recounted \subseteq counted
    BY <1>3 DEF Recent, RLTypeOK
  <2>2. Cardinality(recounted) <= Cardinality(counted)
        /\ Cardinality(recounted) \in Nat
    BY <1>2, <2>1, FiniteHits
  <2> HIDE DEF counted, recounted
  <2>3. QED
    BY <1>2, <1>3, <2>2
<1>4. ASSUME NEW k \in Hits, Arrive(k)
      PROVE  Cardinality(recounted) < limit
  <2>1. hit'[k].pc # "insert" /\ Aside(k)
    BY <1>4, ArriveFacts
  <2>2. h # k /\ hit[h].pc = "insert" /\ hit[h].beside \subseteq hit'[h].beside
    BY <2>1 DEF Aside
  <2>3. k \in hit'[h].beside
    BY <1>1, <1>4, <2>2, ArriveFacts
  <2>4. shared' = shared
    BY <1>4 DEF Arrive
  <2>5. /\ hit'[h].at = hit[h].at
        /\ \A g \in Hits \ hit'[h].beside : hit'[g].at = hit[g].at
    BY <2>1, <2>2, <2>3 DEF Aside
  <2>6. QED
    BY <1>1, <1>3, <2>2, <2>4, <2>5
<1>5. ASSUME NEW k \in Hits, Move(k)
      PROVE  Cardinality(recounted) < limit
  <2>1. k \in Busy /\ Aside(k) /\ GoesOn(k)
    BY <1>5, MoveFacts
  <2>2. /\ \A g \in Hits : hit'[g].at = hit[g].at
        /\ hit[h].beside \subseteq hit'[h].beside
    BY <2>1 DEF Aside, GoesOn
  <2>3. CASE k # h
    <3>1. hit[h].pc = "insert"
      BY <2>1, <2>3 DEF Aside
    <3>2. k \in hit[h].beside
      BY <1>1, <2>1, <2>3, <3>1 DEF RLInv, BesideIsKnown
    <3>3. \A g \in shared' : g \in shared \/ g = k
      BY <1>5 DEF Move, CountInMemory, CountInDb, InsertInDb, Pipeline, Undo,
             StoreFails, Recent
    <3>4. QED
      BY <1>1, <1>3, <2>2, <3>1, <3>2, <3>3
  <2>4. CASE k = h
    <3>1. /\ ~StoreFails(h)
          /\ ~Becomes(h, "admitted") /\ ~Becomes(h, "refused")
          /\ ~Becomes(h, "undo")
      BY StoreFailsFacts, BecomesFacts DEF Pcs
    <3>2. CountInDb(h)
      BY <1>5, <2>4, <3>1 DEF Move, CountInMemory, InsertInDb, Pipeline, Undo
    <3>3. ~(Cardinality(Recent(shared, h)) >= limit) /\ shared' = shared
      BY <3>1, <3>2 DEF CountInDb
    <3>4. /\ Cardinality(Recent(shared, h)) \in Nat
          /\ Cardinality(counted) <= Cardinality(Recent(shared, h))
      BY FiniteHits DEF Recent, RLTypeOK
    <3> HIDE DEF counted
    <3>5. Cardinality(counted) < limit
      BY <1>2, <3>3, <3>4
    <3>6. QED
      BY <1>3, <2>2, <3>3, <3>5
  <2>5. QED
    BY <2>3, <2>4
<1>6. ASSUME NEW p \in Processes, Restart(p)
      PROVE  Cardinality(recounted) < limit
  <2>1. /\ hit[h].pc = "insert" /\ hit[h].beside = hit'[h].beside
        /\ \A g \in Hits : hit'[g].at = hit[g].at
    BY <1>6, RestartFacts
  <2>2. shared' = shared
    BY <1>6 DEF Restart
  <2>3. QED
    BY <1>1, <1>3, <2>1, <2>2
<1>7. CASE UNCHANGED <<settings, memory, shared, hit, litter>>
  <2>1. hit' = hit /\ shared' = shared
    BY <1>7
  <2>2. QED
    BY <1>1, <1>3, <2>1
<1>8. QED
  BY <1>4, <1>5, <1>6, <1>7, RLSteps

LEMMA RLAlways == RLSpec => []RLInv
<1>1. RLInit => RLInv
  <2> SUFFICES ASSUME RLInit PROVE RLInv
    OBVIOUS
  <2>1. \A h \in Hits : hit[h].pc = "new"
    BY DEF RLInit, Unmade
  <2>2. shared = {} /\ \A p \in Processes : memory[p] = {}
    BY DEF RLInit
  <2>3. QED
    BY <2>1, <2>2 DEF RLInv, RightStore, HeldWasLetIn, LetInIsHeld,
           BesideIsKnown, CountedBefore, Admitted, Busy
<1>2. RLTypeOK /\ RLInv /\ [RLNext]_rlVars => RLInv'
  BY RightStoreStep, HeldWasLetInStep, LetInIsHeldStep, BesideIsKnownStep,
     CountedBeforeStep DEF RLInv
<1>3. QED
  BY <1>1, <1>2, LimiterTypeCorrect, PTL DEF RLSpec

(* A store that lets a hit in of itself has found the window short of the   *)
(* limit, and what it counted is what is there: the lock and the pipeline   *)
(* see to that, and in the database only hits beside it came between.       *)
LEMMA CountBeforeLettingIn ==
    ASSUME RLTypeOK, RLInv, NEW h \in Hits, Move(h), h \notin Admitted,
           h \in Admitted', hit'[h].kept
    PROVE  Cardinality(Recent(IF backend = "memory" THEN memory[hit[h].by]
                              ELSE shared, h) \ hit[h].beside) < limit
<1>1. hit[h].kept /\ hit'[h].pc = "admitted"
  BY MoveFacts DEF GoesOn, Admitted
<1>2. /\ ~StoreFails(h)
      /\ ~Becomes(h, "refused") /\ ~Becomes(h, "undo") /\ ~Becomes(h, "insert")
  BY <1>1, StoreFailsFacts, BecomesFacts DEF Pcs
<1>3. RightStore
  BY DEF RLInv
<1>4. ASSUME NEW H \in SUBSET Hits, ~(Cardinality(Recent(H, h)) >= limit)
      PROVE  Cardinality(Recent(H, h) \ hit[h].beside) < limit
  <2> DEFINE R == Recent(H, h)
             S == R \ hit[h].beside
  <2>1. R \in SUBSET Hits /\ S \in SUBSET Hits /\ S \subseteq R
    BY DEF Recent
  <2>2. Cardinality(R) \in Nat /\ Cardinality(S) \in Nat
        /\ Cardinality(S) <= Cardinality(R)
    BY <2>1, FiniteHits
  <2>3. limit \in Nat
    BY LimitsAssumption DEF RLTypeOK
  <2>4. ~(Cardinality(R) >= limit)
    BY <1>4
  <2> HIDE DEF R, S
  <2>5. Cardinality(S) < limit
    BY <2>2, <2>3, <2>4
  <2>6. QED
    BY <2>5 DEF R, S
<1>5. CASE CountInMemory(h)
  <2>1. backend = "memory" /\ hit[h].by \in Processes
    BY <1>1, <1>3, <1>5 DEF RightStore, CountInMemory
  <2>2. ~(Cardinality(Recent(memory[hit[h].by], h)) >= limit)
    BY <1>2, <1>5 DEF CountInMemory
  <2>3. memory[hit[h].by] \in SUBSET Hits
    BY <2>1 DEF RLTypeOK
  <2>4. QED
    BY <1>4, <2>1, <2>2, <2>3
<1>6. CASE InsertInDb(h)
  <2>1. hit[h].pc = "insert" /\ backend # "memory"
    BY <1>3, <1>6 DEF RightStore, InsertInDb
  <2>2. QED
    BY <2>1 DEF RLInv, CountedBefore
<1>7. CASE Pipeline(h)
  <2>1. backend # "memory" /\ ~(Cardinality(Recent(shared, h)) >= limit)
    BY <1>2, <1>7 DEF Pipeline
  <2>2. shared \in SUBSET Hits
    BY DEF RLTypeOK
  <2>3. QED
    BY <1>4, <2>1, <2>2
<1>8. QED
  BY <1>2, <1>5, <1>6, <1>7 DEF Move, CountInDb, Undo

(* No backend of is_allowed lets more than the limit of hits into a window  *)
(* that ends with one of them, where LimitHolds says it can tell: for any   *)
(* number of hits and processes and any window.                             *)
THEOREM LimitIsKept == RLSpec => LimitHolds
<1>1. RLTypeOK /\ RLInv /\ [RLNext]_rlVars
        => [\A h \in Hits :
              /\ hit[h].pc # "admitted" /\ hit'[h].pc = "admitted"
              /\ hit'[h].kept /\ InOrder(h)
              => LET before == {g \in Recent(Rivals(h), h) : hit[g].kept}
                 IN  Cardinality(before \ hit[h].beside) < limit]_rlVars
  <2> SUFFICES ASSUME RLTypeOK, RLInv, [RLNext]_rlVars, NEW h \in Hits,
                      hit[h].pc # "admitted", hit'[h].pc = "admitted",
                      hit'[h].kept, InOrder(h)
               PROVE  Cardinality({g \in Recent(Rivals(h), h) : hit[g].kept}
                                    \ hit[h].beside) < limit
    OBVIOUS
  <2>1. Move(h)
    <3>1. ASSUME NEW k \in Hits, Arrive(k) PROVE FALSE
      BY <3>1, ArriveFacts DEF Aside
    <3>2. ASSUME NEW k \in Hits, Move(k) PROVE k = h
      BY <3>2, MoveFacts DEF Aside
    <3>3. ASSUME NEW p \in Processes, Restart(p) PROVE FALSE
      BY <3>3, RestartFacts
    <3>4. QED
      BY <3>1, <3>2, <3>3, RLSteps
  <2> DEFINE store == IF backend = "memory" THEN memory[hit[h].by] ELSE shared
             before == {g \in Recent(Rivals(h), h) : hit[g].kept}
             counted == Recent(store, h) \ hit[h].beside
             claimed == before \ hit[h].beside
  <2>2. Cardinality(counted) < limit
    BY <2>1, CountBeforeLettingIn DEF Admitted
  <2>3. before \subseteq Recent(store, h)
    <3> SUFFICES ASSUME NEW g \in before PROVE g \in Recent(store, h)
      OBVIOUS
    <3>1. /\ g \in Admitted /\ g \in Hits /\ hit[g].kept
          /\ hit[g].at + Window > hit[h].at
          /\ backend = "memory" => hit[g].by = hit[h].by
      BY DEF Recent, Rivals, Admitted
    <3>2. ~Outlived(g)
      <4> SUFFICES ASSUME NEW f \in Hits, hit[f].pc # "new",
                          hit[g].at + Window <= hit[f].at
                   PROVE  FALSE
        BY DEF Outlived
      <4>1. hit[f].at <= hit[h].at
        BY DEF InOrder
      <4>2. /\ hit[f].at \in Nat /\ hit[g].at \in Nat /\ hit[h].at \in Nat
            /\ Window \in Nat
        BY <3>1, HitFields, WindowAssumption
      <4>3. QED
        BY <3>1, <4>1, <4>2
    <3>3. Held(g)
      BY <3>1, <3>2 DEF RLInv, LetInIsHeld
    <3>4. g \in store
      BY <3>1, <3>3 DEF Held
    <3>5. QED
      BY <3>1, <3>4 DEF Recent
  <2>4. store \subseteq Hits
    <3>1. hit[h].by \in Processes \/ backend # "memory"
      BY <2>1, MoveFacts DEF RLInv, RightStore, Busy
    <3>2. QED
      BY <3>1 DEF RLTypeOK
  <2>5. /\ Cardinality(counted) \in Nat /\ Cardinality(claimed) \in Nat
        /\ Cardinality(claimed) <= Cardinality(counted)
    <3>1. /\ counted \in SUBSET Hits /\ claimed \in SUBSET Hits
          /\ claimed \subseteq counted
      BY <2>3, <2>4 DEF Recent
    <3>2. QED
      BY <3>1, FiniteHits
  <2>6. limit \in Nat
    BY LimitsAssumption DEF RLTypeOK
  <2> HIDE DEF store, before, counted, claimed
  <2>7. Cardinality(claimed) < limit
    BY <2>2, <2>5, <2>6
  <2>8. QED
    BY <2>7 DEF claimed, before
<1>2. QED
  BY <1>1, LimiterTypeCorrect, RLAlways, PTL DEF RLSpec, LimitHolds

(* Nobody is refused by a store for less than the limit of hits that it let *)
(* in, in the window, but for records that Redis is yet to take back.       *)
THEOREM RefusalsHaveCause == RLSpec => RefusedForCause
<1>1. RLTypeOK /\ RLInv /\ [RLNext]_rlVars
        => [\A h \in Hits :
              /\ hit[h].pc \in {"memory", "count"}
              /\ hit'[h].pc \in {"undo", "refused"} /\ hit'[h].kept
              => Cardinality(Recent(Rivals(h) \union litter, h))
                   >= limit]_rlVars
  <2> SUFFICES ASSUME RLTypeOK, RLInv, [RLNext]_rlVars, NEW h \in Hits,
                      hit[h].pc \in {"memory", "count"},
                      hit'[h].pc \in {"undo", "refused"}, hit'[h].kept
               PROVE  Cardinality(Recent(Rivals(h) \union litter, h)) >= limit
    OBVIOUS
  <2>1. Move(h)
    <3>1. ASSUME NEW k \in Hits, Arrive(k) PROVE FALSE
      BY <3>1, ArriveFacts DEF Aside
    <3>2. ASSUME NEW k \in Hits, Move(k) PROVE k = h
      BY <3>2, MoveFacts DEF Aside
    <3>3. ASSUME NEW p \in Processes, Restart(p) PROVE FALSE
      BY <3>3, RestartFacts
    <3>4. QED
      BY <3>1, <3>2, <3>3, RLSteps
  <2>2. ~StoreFails(h) /\ ~Becomes(h, "admitted") /\ ~Becomes(h, "insert")
    BY StoreFailsFacts, BecomesFacts DEF Pcs
  <2>3. HeldWasLetIn /\ RightStore /\ hit[h].kept
    BY <2>1, MoveFacts DEF RLInv, GoesOn
  <2>4. ASSUME NEW H \in SUBSET (Rivals(h) \union litter),
               Cardinality(Recent(H, h)) >= limit
        PROVE  Cardinality(Recent(Rivals(h) \union litter, h)) >= limit
    <3> DEFINE R == Recent(Rivals(h) \union litter, h)
    <3>1. R \in SUBSET Hits /\ Recent(H, h) \in SUBSET R
      BY DEF Recent, Rivals, Admitted, RLTypeOK
    <3>2. /\ Cardinality(R) \in Nat /\ Cardinality(Recent(H, h)) \in Nat
          /\ Cardinality(Recent(H, h)) <= Cardinality(R)
      BY <3>1, FiniteHits
    <3>3. limit \in Nat
      BY LimitsAssumption DEF RLTypeOK
    <3> HIDE DEF R
    <3>4. Cardinality(R) >= limit
      BY <2>4, <3>2, <3>3
    <3>5. QED
      BY <3>4 DEF R
  <2>5. CASE CountInMemory(h)
    <3>1. backend = "memory" /\ hit[h].by \in Processes
      BY <2>3, <2>5 DEF RightStore, CountInMemory
    <3>2. Cardinality(Recent(memory[hit[h].by], h)) >= limit
      BY <2>2, <2>5 DEF CountInMemory
    <3>3. memory[hit[h].by] \subseteq Rivals(h)
      BY <2>3, <3>1 DEF HeldWasLetIn, Rivals
    <3>4. QED
      BY <2>4, <3>2, <3>3
  <2>6. CASE CountInDb(h) \/ Pipeline(h)
    <3>1. backend # "memory"
      BY <2>6 DEF CountInDb, Pipeline
    <3>2. Cardinality(Recent(shared, h)) >= limit
      BY <2>2, <2>6 DEF CountInDb, Pipeline
    <3>3. shared \subseteq Rivals(h) \union litter
      BY <2>3, <3>1 DEF HeldWasLetIn, Rivals
    <3>4. QED
      BY <2>4, <3>2, <3>3
  <2>7. QED
    BY <2>1, <2>2, <2>5, <2>6 DEF Move, InsertInDb, Undo
<1>2. QED
  BY <1>1, LimiterTypeCorrect, RLAlways, PTL DEF RLSpec, RefusedForCause

(* However many hits arrive, and with any backend, a process never has more *)
(* than the limit of them in its _store under one key.                      *)
THEOREM MemoryIsBounded == RLSpec => []MemoryBounded
<1>1. ASSUME RLTypeOK, MemoryBounded, [RLNext]_rlVars
      PROVE  MemoryBounded'
  <2> SUFFICES ASSUME NEW p \in Processes
               PROVE  Cardinality(memory'[p]) <= limit
    BY <1>1, LetInStays DEF MemoryBounded
  <2>1. limit \in Nat /\ limit' = limit
    BY <1>1, LetInStays, LimitsAssumption DEF RLTypeOK
  <2>2. memory[p] \in SUBSET Hits /\ Cardinality(memory[p]) <= limit
    BY <1>1 DEF RLTypeOK, MemoryBounded
  <2>3. ASSUME NEW h \in Hits, CountInMemory(h)
        PROVE  Cardinality(memory'[p]) <= limit
    <3> DEFINE old == memory[p]
               young == Recent(old, h)
               more == young \union {h}
    <3>1. /\ young \in SUBSET Hits /\ IsFiniteSet(young)
          /\ Cardinality(young) \in Nat
          /\ Cardinality(young) <= Cardinality(old)
          /\ Cardinality(old) \in Nat
      BY <2>2, FiniteHits DEF Recent
    <3>2. \/ memory'[p] = old
          \/ memory'[p] = young
          \/ memory'[p] = more /\ ~(Cardinality(young) >= limit)
      BY <1>1, <2>3 DEF CountInMemory, RLTypeOK
    <3>3. Cardinality(more) =
            IF h \in young THEN Cardinality(young) ELSE Cardinality(young) + 1
      <4> HIDE DEF young
      <4>1. QED
        BY <3>1, FS_AddElement
    <3> HIDE DEF old, young, more
    <3>4. Cardinality(old) <= limit
      BY <2>2 DEF old
    <3>5. CASE memory'[p] = more /\ ~(Cardinality(young) >= limit)
      <4>1. Cardinality(more) <= limit
        BY <2>1, <3>1, <3>3, <3>5
      <4>2. QED
        BY <3>5, <4>1
    <3>6. CASE memory'[p] = young
      <4>1. Cardinality(young) <= limit
        BY <2>1, <3>1, <3>4
      <4>2. QED
        BY <3>6, <4>1
    <3>7. QED
      BY <3>2, <3>4, <3>5, <3>6
  <2>4. ASSUME NEW q \in Processes, Restart(q)
        PROVE  Cardinality(memory'[p]) <= limit
    <3>1. memory'[p] = {} \/ memory'[p] = memory[p]
      BY <1>1, <2>4 DEF Restart, RLTypeOK
    <3>2. QED
      BY <2>1, <2>2, <3>1, FS_EmptySet
  <2>5. ASSUME NEW h \in Hits, Move(h), ~CountInMemory(h) PROVE memory' = memory
    BY <2>5 DEF Move, CountInDb, InsertInDb, Pipeline, Undo, StoreFails
  <2>6. ASSUME NEW h \in Hits, Arrive(h) PROVE memory' = memory
    BY <2>6 DEF Arrive
  <2>7. QED
    BY <1>1, <2>2, <2>3, <2>4, <2>5, <2>6, RLSteps
<1>2. RLInit => MemoryBounded
  BY FS_EmptySet, LimitsAssumption DEF RLInit, MemoryBounded
<1>3. QED
  BY <1>1, <1>2, LimiterTypeCorrect, PTL DEF RLSpec
=============================================================================
