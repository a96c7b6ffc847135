---------------------------- MODULE OneTimeTokens ----------------------------
(***************************************************************************)
(* The tokens that are mailed to one account and used once: verification   *)
(* of the address, reset of the password, magic link with its one-time     *)
(* passcode (services.py); and the changes of the account's address, which *)
(* decide what a verification proves.                                      *)
(*                                                                         *)
(* A request reads a row, checks it, and marks it used in a later commit;  *)
(* what it is used for follows, for a reset and a sign-in, in yet another  *)
(* commit.  No row is locked, an UPDATE carries only the columns whose     *)
(* value differs from the one read, and a worker may die between commits.  *)
(* Issuing a token is one commit; its mail goes to the address of that     *)
(* moment.  Whether the account is suspended is the matter of Sessions.    *)
(***************************************************************************)
EXTENDS Naturals, FiniteSets

CONSTANTS
    Tokens,       \* identities of rows
    Requests,     \* worker slots
    Addresses,
    NoToken,
    MaxAttempts   \* otp_max_attempts

ASSUME TokensAssumption == IsFiniteSet(Tokens)
ASSUME NoTokenAssumption == NoToken \notin Tokens
ASSUME MaxAttemptsAssumption == MaxAttempts \in Nat \ {0}

VARIABLES
    token,      \* the rows
    email,      \* users.email
    verified,   \* users.email_verified_at is not NULL
    req,        \* the requests in flight, with what each has read
    disturbed,  \* history: rows that two requests held at once
    uses,       \* history: how often each token has been used, up to 2,
    guesses,    \* history: wrong passcodes refused for each row, up to
                \* MaxAttempts + 1; both of rows that are not disturbed
    unmarked,   \* history: rows whose last attempt was counted by a worker
                \* that died before it marked them
    proved,     \* history: addresses to which a used token had been mailed
    settled     \* history: no token was outstanding while the address was
                \* last being changed

rows == <<token, email, verified>>
history == <<uses, guesses, unmarked, disturbed, proved, settled>>
vars == <<rows, req, history>>

-----------------------------------------------------------------------------

(* kind: the table the row is in; issued: the place in the order of         *)
(* creation; attempts_count: wrong passcodes; address: where it was mailed. *)
Kinds == {"verify", "reset", "magic"}
Row == [kind: Kinds \union {"none"}, issued: Nat, used: BOOLEAN,
        expired: BOOLEAN, attempts_count: Nat, address: Addresses]

Pcs == {"idle", "consume", "use", "count", "recount", "exhaust", "change"}

(* attempts, wasVerified, was are what was read, where it is used later;    *)
(* alone is history: of a change of address, that no token was outstanding. *)
Request == [pc: Pcs, token: Tokens \union {NoToken}, attempts: Nat,
            wasVerified: BOOLEAN, was: Addresses \union {NoToken},
            alone: BOOLEAN]

TypeOK ==
    /\ token \in [Tokens -> Row]
    /\ email \in Addresses
    /\ verified \in BOOLEAN
    /\ req \in [Requests -> Request]
    /\ uses \in [Tokens -> 0..2]
    /\ guesses \in [Tokens -> 0..MaxAttempts + 1]
    /\ disturbed \in SUBSET Tokens
    /\ unmarked \in SUBSET Tokens
    /\ proved \in SUBSET Addresses
    /\ settled \in BOOLEAN

UpTo(max, n) == IF n < max THEN n + 1 ELSE max

Idle == [pc |-> "idle", token |-> NoToken, attempts |-> 0,
         wasVerified |-> FALSE, was |-> NoToken, alone |-> FALSE]

(* A registered account, its address not verified. *)
Init ==
    /\ email \in Addresses
    /\ token = [t \in Tokens |->
                  [kind |-> "none", issued |-> 0, used |-> FALSE,
                   expired |-> FALSE, attempts_count |-> 0, address |-> email]]
    /\ verified = FALSE
    /\ req = [r \in Requests |-> Idle]
    /\ uses = [t \in Tokens |-> 0]
    /\ guesses = [t \in Tokens |-> 0]
    /\ disturbed = {}
    /\ unmarked = {}
    /\ proved = {}
    /\ settled = TRUE

Kind(t) == token[t].kind
Issued == {t \in Tokens : Kind(t) # "none"}
Usable == {t \in Issued : ~token[t].used /\ ~token[t].expired}
Held == {req[r].token : r \in Requests}
Earlier(s, t) == token[s].issued < token[t].issued

(* Tokens that may yet set email_verified_at. *)
Outstanding == {t \in Usable \union Held : t # NoToken /\ Kind(t) # "reset"}

Go(r, pc) == req' = [req EXCEPT ![r].pc = pc]
Finish(r) == req' = [req EXCEPT ![r] = Idle]

-----------------------------------------------------------------------------
(* create_verification_token, create_password_reset_token,                  *)
(* create_magic_link_token; a row expires after those of its table that are *)
(* older.                                                                   *)

Create(t, kind) ==
    /\ t \notin Issued
    /\ token' = [token EXCEPT ![t].kind = kind, ![t].address = email,
                              ![t].issued = Cardinality(Issued) + 1]
    /\ req' = [r \in Requests |->
                 IF kind # "reset" THEN [req[r] EXCEPT !.alone = FALSE]
                                      ELSE req[r]]
    /\ UNCHANGED <<email, verified, history>>

(* Mutant of Expire: the row is deleted. *)
ExpireDeleting(t) ==
    /\ t \in Usable
    /\ \A s \in Usable : Kind(s) = Kind(t) => ~Earlier(s, t)
    /\ token' = [token EXCEPT ![t].kind = "deleted"]
    /\ UNCHANGED <<email, verified, req, history>>

Expire(t) ==
    /\ t \in Usable
    /\ \A s \in Usable : Kind(s) = Kind(t) => ~Earlier(s, t)
    /\ token' = [token EXCEPT ![t].expired = TRUE]
    /\ UNCHANGED <<email, verified, req, history>>

-----------------------------------------------------------------------------
(* Consuming a token *)

Used(t) == uses' = IF t \in disturbed THEN uses
                   ELSE [uses EXCEPT ![t] = UpTo(2, @)]

Guessed(t) == IF t \in disturbed THEN guesses
              ELSE [guesses EXCEPT ![t] = UpTo(MaxAttempts + 1, @)]

Disturb(t) ==
    /\ disturbed' = disturbed \union {t}
    /\ uses' = [uses EXCEPT ![t] = 0]
    /\ guesses' = [guesses EXCEPT ![t] = 0]

(* The row is read, and the user. *)
Take(r, t, pc) ==
    /\ req[r] = Idle
    /\ t \in Usable
    /\ req' = [req EXCEPT ![r] = [Idle EXCEPT
                 !.pc = pc, !.token = t,
                 !.attempts = IF pc = "count" THEN token[t].attempts_count ELSE 0,
                 !.wasVerified = pc = "consume" /\ Kind(t) = "magic" /\ verified]]
    /\ IF t \in Held THEN Disturb(t)
                      ELSE UNCHANGED <<uses, guesses, disturbed>>
    /\ UNCHANGED <<rows, unmarked, proved, settled>>

(* verify_email_token, consume_password_reset_token,                        *)
(* consume_magic_link_token                                                 *)
BeginConsume(r, t) == Take(r, t, "consume")

(* Mutant of BeginOtp: a row without attempts left is good for one more. *)
BeginOtpLate(r, t, right) ==
    /\ Kind(t) = "magic"
    /\ \A s \in Usable : Kind(s) = "magic" => ~Earlier(t, s)
    /\ Take(r, t, IF token[t].attempts_count > MaxAttempts THEN "exhaust"
                  ELSE IF right THEN "consume" ELSE "count")

(* consume_otp_code: of the unused rows the newest; one that was guessed at *)
(* too often is marked, else the passcode is compared.                      *)
BeginOtp(r, t, right) ==
    /\ Kind(t) = "magic"
    /\ \A s \in Usable : Kind(s) = "magic" => ~Earlier(t, s)
    /\ Take(r, t, IF token[t].attempts_count >= MaxAttempts THEN "exhaust"
                  ELSE IF right THEN "consume" ELSE "count")

(* Mutant of Consume: used_at is not set. *)
ConsumeKeeping(r) ==
    LET q == req[r]  t == q.token IN
    /\ q.pc = "consume"
    /\ verified' = (verified \/ Kind(t) # "reset")
    /\ Go(r, "use")
    /\ proved' = proved \union {token[t].address}
    /\ UNCHANGED <<token, email, uses, guesses, unmarked, disturbed, settled>>

(* used_at is committed.  A verification sets email_verified_at in the same *)
(* transaction, a sign-in too unless it was set when the user was read.     *)
Consume(r) ==
    LET q == req[r]  t == q.token IN
    /\ q.pc = "consume"
    /\ token' = [token EXCEPT ![t].used = TRUE]
    /\ verified' = CASE Kind(t) = "verify"                     -> TRUE
                     [] Kind(t) = "magic" /\ ~q.wasVerified  -> TRUE
                     [] OTHER                                -> verified
    /\ IF Kind(t) = "verify"
       THEN Finish(r) /\ Used(t)
       ELSE Go(r, "use") /\ UNCHANGED uses
    /\ proved' = proved \union {token[t].address}
    /\ UNCHANGED <<email, guesses, unmarked, disturbed, settled>>

(* issue_tokens, or reset_user_password: a session, or a new password. *)
Use(r) ==
    LET t == req[r].token IN
    /\ req[r].pc = "use"
    /\ Used(t)
    /\ Finish(r)
    /\ UNCHANGED <<rows, guesses, unmarked, disturbed, proved, settled>>

(* reset_password: the token is spent, and then the new password refused. *)
RefusePassword(r) ==
    /\ req[r].pc = "use"
    /\ Kind(req[r].token) = "reset"
    /\ Finish(r)
    /\ UNCHANGED <<rows, history>>

(* A wrong passcode: the count that was read, plus one, is committed. *)
Count(r) ==
    LET q == req[r] IN
    /\ q.pc = "count"
    /\ token' = [token EXCEPT ![q.token].attempts_count = q.attempts + 1]
    /\ guesses' = Guessed(q.token)
    /\ Go(r, "recount")
    /\ UNCHANGED <<email, verified, uses, unmarked, disturbed, proved, settled>>

(* Mutant of Recount: one attempt more is allowed. *)
RecountLate(r) ==
    /\ req[r].pc = "recount"
    /\ IF token[req[r].token].attempts_count > MaxAttempts
       THEN Go(r, "exhaust") ELSE Finish(r)
    /\ UNCHANGED <<rows, history>>

(* ... the row is read again, to say how many attempts remain. *)
Recount(r) ==
    /\ req[r].pc = "recount"
    /\ IF token[req[r].token].attempts_count >= MaxAttempts
       THEN Go(r, "exhaust") ELSE Finish(r)
    /\ UNCHANGED <<rows, history>>

(* ... and marked used when none do. *)
Exhaust(r) ==
    /\ req[r].pc = "exhaust"
    /\ token' = [token EXCEPT ![req[r].token].used = TRUE]
    /\ Finish(r)
    /\ UNCHANGED <<email, verified, history>>

-----------------------------------------------------------------------------
(* update_user_profile *)

BeginChange(r) ==
    /\ req[r] = Idle
    /\ req' = [req EXCEPT ![r] = [Idle EXCEPT
                 !.pc = "change", !.wasVerified = verified, !.was = email,
                 !.alone = Outstanding = {}]]
    /\ UNCHANGED <<rows, history>>

(* Mutant of Change: the new address is taken for verified. *)
ChangeTrusting(r, a) ==
    LET q == req[r] IN
    /\ q.pc = "change"
    /\ a # q.was
    /\ email' = a
    /\ settled' = q.alone
    /\ Finish(r)
    /\ UNCHANGED <<verified, token, uses, guesses, unmarked, disturbed, proved>>

(* The address differs from the one read; email_verified_at is written only *)
(* if it was set when the user was read.                                    *)
Change(r, a) ==
    LET q == req[r] IN
    /\ q.pc = "change"
    /\ a # q.was
    /\ email' = a
    /\ verified' = IF q.wasVerified THEN FALSE ELSE verified
    /\ settled' = q.alone
    /\ Finish(r)
    /\ UNCHANGED <<token, uses, guesses, unmarked, disturbed, proved>>

-----------------------------------------------------------------------------

(* The worker dies between two commits. *)
Crash(r) ==
    LET q == req[r] IN
    /\ q # Idle
    /\ unmarked' = IF /\ q.pc \in {"recount", "exhaust"}
                      /\ token[q.token].attempts_count >= MaxAttempts
                   THEN unmarked \union {q.token} ELSE unmarked
    /\ Finish(r)
    /\ UNCHANGED <<rows, uses, guesses, disturbed, proved, settled>>

Next ==
    \/ \E t \in Tokens : Expire(t) \/ \E kind \in Kinds : Create(t, kind)
    \/ \E r \in Requests :
          \/ \E t \in Tokens : BeginConsume(r, t)
          \/ \E t \in Tokens, right \in BOOLEAN : BeginOtp(r, t, right)
          \/ Consume(r) \/ Use(r) \/ RefusePassword(r)
          \/ Count(r) \/ Recount(r) \/ Exhaust(r)
          \/ BeginChange(r) \/ (\E a \in Addresses : Change(r, a))
          \/ Crash(r)

Spec == Init /\ [][Next]_vars

-----------------------------------------------------------------------------
(* Properties. *)

(* A token is used once: no second session, password or verification comes  *)
(* of it, whenever the worker that holds it dies, unless two requests held  *)
(* its row at the same time.                                                *)
UsedOnce ==
    \A t \in Tokens \ disturbed :
        uses[t] + Cardinality({r \in Requests :
                                 req[r].token = t /\ req[r].pc = "use"}) <= 1

(* test_auth.py: "5 consecutive incorrect attempts permanently invalidates  *)
(* the OTP token": of a row that no two requests held at once so many wrong *)
(* passcodes are refused and never more, not even after a worker has died   *)
(* between counting one and marking the row; and then the row is used up or *)
(* about to be, unless a worker died just there.                            *)
CodeIsCutOff ==
    \A t \in Tokens \ disturbed :
        /\ guesses[t] <= MaxAttempts
        /\ guesses[t] = MaxAttempts =>
              \/ token[t].used \/ t \in unmarked
              \/ \E r \in Requests :
                    /\ req[r].token = t
                    /\ req[r].pc \in {"recount", "exhaust"}

(* The account's address counts as verified only if a token mailed to it    *)
(* has come back, unless one mailed to an earlier address was outstanding   *)
(* while the address was changed.                                           *)
ReverifiedIfSettled == verified /\ settled => email \in proved

(* README.md: "email change re-verifies", without that proviso.             *)
VerifiedAddressIsProved == verified => email \in proved

-----------------------------------------------------------------------------
(* The strengthening that makes them inductive. *)

Holders(t) == {r \in Requests : req[r].token = t}

HoldsIssued ==
    \A r \in Requests :
        /\ req[r].token = NoToken <=> req[r].pc \in {"idle", "change"}
        /\ req[r].token # NoToken => req[r].token \in Issued

(* Of a row that is not disturbed: it has one holder at most, and has not   *)
(* been used for anything while it has; the guesses are the ones counted in *)
(* it.                                                                      *)
Counted(t) ==
    LET n == token[t].attempts_count IN
    /\ \A r, s \in Holders(t) : r = s
    /\ \A r \in Holders(t) :
          /\ uses[t] = 0
          /\ req[r].pc = "use" => token[t].used
          /\ req[r].pc = "count" => req[r].attempts = n /\ n < MaxAttempts
    /\ uses[t] = 0 \/ (uses[t] = 1 /\ token[t].used)
    /\ guesses[t] = n
    /\ n <= MaxAttempts
    /\ n = MaxAttempts =>
          \/ token[t].used \/ t \in unmarked
          \/ \E r \in Holders(t) : req[r].pc \in {"recount", "exhaust"}

RowsAreCounted == \A t \in Tokens \ disturbed : Counted(t)

(* While a change is alone nothing can verify the account. *)
AloneIsQuiet ==
    \A r \in Requests :
        req[r].alone =>
            /\ req[r].pc = "change" /\ Outstanding = {}
            /\ verified => req[r].wasVerified

OutstandingIsCurrent ==
    settled => \A t \in Outstanding : token[t].address = email

AddressInv == AloneIsQuiet /\ OutstandingIsCurrent /\ ReverifiedIfSettled
=============================================================================
