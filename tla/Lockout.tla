------------------------------- MODULE Lockout -------------------------------
(***************************************************************************)
(* authenticate_password (services.py): the counter of failed attempts of  *)
(* one account and the lock it leads to.                                   *)
(*                                                                         *)
(* An attempt reads the user row, checks the lock, verifies the password   *)
(* (slowly: bcrypt) and writes back what it computed from the row it had   *)
(* read.  Worker threads run attempts in parallel, no row is locked, and   *)
(* an UPDATE carries only the columns whose value differs from the one     *)
(* read.                                                                   *)
(***************************************************************************)
EXTENDS Integers

CONSTANTS
    Workers,       \* attempts that can be under way at one time
    MaxAttempts,   \* account_lockout_max_attempts; 0 switches the lock off
    Duration,      \* account_lockout_duration_seconds
    MaxClock       \* bound of the clock

ASSUME SettingsAssumption == MaxAttempts \in Nat /\ Duration \in Nat \ {0}
ASSUME MaxClockAssumption == MaxClock \in Nat \ {0}

NULL == 0

VARIABLES
    attempts,     \* users.failed_login_attempts
    lockedUntil,  \* users.locked_until
    clock,
    try,          \* the attempts under way
    streak,       \* history: failures in a row, none overlapping an attempt
    failures,     \* history: failures since a success that overlapped none,
                  \* counted up to MaxAttempts
    lastFailure   \* history: when the last failure was recorded, by its clock

vars == <<attempts, lockedUntil, clock, try, streak, failures, lastFailure>>

(* What an attempt has read, and whether it has been alone so far. *)
Try == [busy: BOOLEAN, attempts: Nat, lockedUntil: Nat, now: Nat,
        alone: BOOLEAN]

Idle == [busy |-> FALSE, attempts |-> 0, lockedUntil |-> NULL, now |-> 0,
         alone |-> FALSE]

TypeOK ==
    /\ attempts \in Nat /\ lockedUntil \in Nat /\ clock \in Nat
    /\ try \in [Workers -> Try]
    /\ streak \in Nat /\ failures \in 0..MaxAttempts /\ lastFailure \in Nat

Init ==
    /\ attempts = 0 /\ lockedUntil = NULL /\ clock = 1
    /\ try = [w \in Workers |-> Idle]
    /\ streak = 0 /\ failures = 0 /\ lastFailure = 0

-----------------------------------------------------------------------------

Others(w) == {v \in Workers \ {w} : try[v].busy}

(* The row is read. *)
Read(w) ==
    /\ ~try[w].busy
    /\ try' = [v \in Workers |->
                 IF v = w THEN [busy |-> TRUE, attempts |-> attempts,
                                lockedUntil |-> lockedUntil, now |-> clock,
                                alone |-> Others(w) = {}]
                 ELSE IF try[v].busy THEN [try[v] EXCEPT !.alone = FALSE]
                 ELSE try[v]]
    /\ UNCHANGED <<attempts, lockedUntil, clock, streak, failures, lastFailure>>

(* Mutant of Begin: the lock is not looked at. *)
BeginUnchecked(w) == Read(w)

(* An attempt goes on to verify the password unless a lock is in force. *)
Begin(w) == lockedUntil <= clock /\ Read(w)

(* ... and is refused at once if one is. *)
Refuse(w) ==
    /\ ~try[w].busy
    /\ lockedUntil > clock
    /\ UNCHANGED vars

End(w) == try' = [try EXCEPT ![w] = Idle]

(* Mutant of Fail: the count must exceed the limit. *)
FailLate(w) ==
    LET seen == try[w] IN
    /\ seen.busy
    /\ MaxAttempts > 0
    /\ attempts' = seen.attempts + 1
    /\ lockedUntil' = IF seen.attempts + 1 > MaxAttempts
                      THEN seen.now + Duration ELSE lockedUntil
    /\ streak' = IF seen.alone THEN streak + 1 ELSE 0
    /\ failures' = IF failures < MaxAttempts THEN failures + 1 ELSE failures
    /\ lastFailure' = seen.now
    /\ End(w)
    /\ UNCHANGED clock

(* The password is wrong. *)
Fail(w) ==
    LET seen == try[w] IN
    /\ seen.busy
    /\ MaxAttempts > 0
    /\ attempts' = seen.attempts + 1
    /\ lockedUntil' = IF seen.attempts + 1 >= MaxAttempts
                      THEN seen.now + Duration ELSE lockedUntil
    /\ streak' = IF seen.alone THEN streak + 1 ELSE 0
    /\ failures' = IF failures < MaxAttempts THEN failures + 1 ELSE failures
    /\ lastFailure' = seen.now
    /\ End(w)
    /\ UNCHANGED clock

(* Mutants of Succeed: the counter is left alone; one failure is forgiven. *)
SucceedKeeping(w) ==
    LET seen == try[w] IN
    /\ seen.busy
    /\ lockedUntil' = IF seen.lockedUntil # NULL THEN NULL ELSE lockedUntil
    /\ streak' = 0
    /\ failures' = IF seen.alone THEN 0 ELSE failures
    /\ End(w)
    /\ UNCHANGED <<attempts, clock, lastFailure>>

SucceedForgiving(w) ==
    LET seen == try[w] IN
    /\ seen.busy
    /\ attempts' = seen.attempts - 1
    /\ lockedUntil' = IF seen.lockedUntil # NULL THEN NULL ELSE lockedUntil
    /\ streak' = 0
    /\ failures' = IF seen.alone THEN 0 ELSE failures
    /\ End(w)
    /\ UNCHANGED <<clock, lastFailure>>

(* The password is right: the columns that differ from 0 and NULL in the    *)
(* row that was read are reset.                                             *)
Succeed(w) ==
    LET seen == try[w] IN
    /\ seen.busy
    /\ attempts' = IF seen.attempts # 0 THEN 0 ELSE attempts
    /\ lockedUntil' = IF seen.lockedUntil # NULL THEN NULL ELSE lockedUntil
    /\ streak' = 0
    /\ failures' = IF seen.alone THEN 0 ELSE failures
    /\ End(w)
    /\ UNCHANGED <<clock, lastFailure>>

(* The worker dies, or the lock is switched off and the password wrong. *)
Abandon(w) ==
    /\ try[w].busy
    /\ End(w)
    /\ UNCHANGED <<attempts, lockedUntil, clock, streak, failures, lastFailure>>

Tick ==
    /\ clock < MaxClock
    /\ clock' = clock + 1
    /\ UNCHANGED <<attempts, lockedUntil, try, streak, failures, lastFailure>>

Attempt(w) == Begin(w) \/ Refuse(w) \/ Fail(w) \/ Succeed(w) \/ Abandon(w)

Next == Tick \/ \E w \in Workers : Attempt(w)

Spec == Init /\ [][Next]_vars

-----------------------------------------------------------------------------

InForce == lockedUntil > clock

(* user_onboarding.md, "After 5 consecutive failed password attempts, the   *)
(* account is temporarily locked", of failures that did not overlap other   *)
(* attempts: whatever happened before them.                                 *)
SerialFailuresLock ==
    MaxAttempts > 0 /\ streak >= MaxAttempts
        => lockedUntil >= lastFailure + Duration

(* ... and not before: there is no lock unless so many attempts have failed *)
(* since a success that overlapped none, however the attempts interleave.   *)
LockNeedsFailures == lockedUntil # NULL => failures = MaxAttempts

(* A lock in force is moved or lifted only by an attempt that got past the  *)
(* check before the lock was there.                                         *)
LockHolds ==
    [][InForce /\ lockedUntil' # lockedUntil
         => \E w \in Workers : try[w].busy /\ ~try[w].alone /\ ~try'[w].busy]_vars

-----------------------------------------------------------------------------
(* The strengthening that makes them inductive. *)

(* An attempt that has been alone so far holds the row as it is. *)
AloneIsCurrent ==
    \A w \in Workers :
        try[w].busy /\ try[w].alone
          => /\ Others(w) = {}
             /\ try[w].attempts = attempts
             /\ try[w].lockedUntil = lockedUntil

(* Nobody got past a lock that was in force when he read the row. *)
NoLockRead ==
    \A w \in Workers :
        try[w].busy => try[w].lockedUntil <= try[w].now /\ try[w].now <= clock

Counted(n) == n <= failures \/ failures = MaxAttempts

CountsAreFailures ==
    /\ Counted(attempts)
    /\ \A w \in Workers : try[w].busy => Counted(try[w].attempts)

StreakIsCounted == streak <= attempts

LockInv ==
    /\ AloneIsCurrent /\ NoLockRead /\ CountsAreFailures /\ StreakIsCounted
    /\ SerialFailuresLock /\ LockNeedsFailures
=============================================================================
