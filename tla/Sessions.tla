------------------------------ MODULE Sessions ------------------------------
(***************************************************************************)
(* Sign-in, refresh, revocation and suspension of ONE account, at the      *)
(* granularity of database transactions.                                   *)
(*                                                                         *)
(* Every request runs in a worker thread with a SQLAlchemy session of its  *)
(* own (db.py, get_db).  A request reads rows, decides, and later commits  *)
(* the columns it changed, with values computed from what it had read:     *)
(* no row is locked and no row carries a version column, so the requests   *)
(* of one account interleave freely between a read and the next commit.    *)
(* A worker that dies loses what it has not committed.                     *)
(*                                                                         *)
(* Password verification, the lock and the one-time tokens that precede a  *)
(* sign-in or a reset are other modules; here a request starts when they   *)
(* have succeeded.  Expiry of tokens only removes behaviours and is left   *)
(* out.                                                                    *)
(***************************************************************************)
EXTENDS Integers

CONSTANTS
    Tokens,      \* identities of refresh_tokens rows
    Requests,    \* worker slots: the requests in flight at one time
    Revokers,    \* the slots that may run an account-wide revocation
    NoToken,     \* "no refresh token"
    MaxVersion   \* bound: at this version no account-wide request starts but
                 \* the activation of a suspended account

ASSUME SlotsAssumption == Revokers \subseteq Requests
ASSUME NoTokenAssumption == NoToken \notin Tokens
ASSUME MaxVersionAssumption == MaxVersion \in Nat

VARIABLES
    isActive,     \* users.is_active
    deletedAt,    \* users.deleted_at is not NULL
    tokenVersion, \* users.token_version
    row,          \* the refresh_tokens table
    req,          \* the requests in flight, with what each has read
    revocations   \* history: committed revocations of the whole account

vars == <<isActive, deletedAt, tokenVersion, row, req, revocations>>

-----------------------------------------------------------------------------
(* The handlers, by what they do to sessions. *)

Issuing == {"login", "magic", "oauth", "rotate", "switch"}
AllRowsRevoking == {"suspend", "revoke_all"}
AccountWide == AllRowsRevoking \union {"activate"}
Kinds == Issuing \union {"revoke_one"} \union AccountWide

Pcs == {"idle", "verified", "row_read", "consume", "issue", "insert",
        "mark", "load", "commit"}

(* A row of refresh_tokens, with the access token issued beside it: ver is  *)
(* the JWT's token_version claim.  oauth, parent, epoch, calm and sound are *)
(* history: whether an OAuth callback inserted it, the token it was         *)
(* exchanged for, the value of revocations when the person behind it last   *)
(* proved who they are, whether the request that inserted it overlapped no  *)
(* conflicting revocation, and whether this is so for the whole chain of    *)
(* sign-in and rotations that leads to it.                                  *)
Row == [status: {"unissued", "live", "revoked"}, ver: Nat, oauth: BOOLEAN,
        parent: Tokens \union {NoToken}, epoch: Nat,
        calm: BOOLEAN, sound: BOOLEAN]

(* A request: where it stands and what it has loaded (ver, wasActive,       *)
(* wasDeleted, seen).  epoch, calm and sound are history, read by no guard. *)
Request == [kind: Kinds \union {"none"}, pc: Pcs,
            token: Tokens \union {NoToken}, ver: Nat,
            wasActive: BOOLEAN, wasDeleted: BOOLEAN, seen: SUBSET Tokens,
            epoch: Nat, calm: BOOLEAN, sound: BOOLEAN]

TypeOK ==
    /\ isActive \in BOOLEAN
    /\ deletedAt \in BOOLEAN
    /\ tokenVersion \in Nat
    /\ row \in [Tokens -> Row]
    /\ req \in [Requests -> Request]
    /\ revocations \in Nat

Idle == [kind |-> "none", pc |-> "idle", token |-> NoToken, ver |-> 0,
         wasActive |-> FALSE, wasDeleted |-> FALSE, seen |-> {},
         epoch |-> 0, calm |-> FALSE, sound |-> FALSE]

Unissued == [status |-> "unissued", ver |-> 0, oauth |-> FALSE,
             parent |-> NoToken, epoch |-> 0, calm |-> FALSE, sound |-> FALSE]

(* A registered, active account with no session yet. *)
Init ==
    /\ isActive = TRUE
    /\ deletedAt = FALSE
    /\ tokenVersion = 1
    /\ row = [t \in Tokens |-> Unissued]
    /\ req = [r \in Requests |-> Idle]
    /\ revocations = 0

Live(t) == row[t].status = "live"
Issued(t) == row[t].status # "unissued"

-----------------------------------------------------------------------------
(* Starting, continuing and ending a request. *)

(* History: b revokes something the issuing request a depends on. *)
Conflict(a, b) ==
    /\ a.kind \in Issuing
    /\ \/ b.kind \in AccountWide
       \/ /\ a.kind = "rotate"
          /\ b.kind \in {"revoke_one", "rotate"}
          /\ a.token = b.token

Disturbed(q) == [q EXCEPT !.calm = FALSE, !.sound = FALSE]

Start(r, new) ==
    /\ req[r] = Idle
    /\ req' = [q \in Requests |->
                 IF q = r
                 THEN IF \E p \in Requests : Conflict(new, req[p])
                      THEN Disturbed(new) ELSE new
                 ELSE IF Conflict(req[q], new)
                      THEN Disturbed(req[q]) ELSE req[q]]

Become(r, q) == req' = [req EXCEPT ![r] = q]

Finish(r) == Become(r, Idle)

At(r, kinds, pc) == req[r].kind \in kinds /\ req[r].pc = pc

(* A request that has just proved identity, starting at pc. *)
SignIn(kind, pc) ==
    [Idle EXCEPT !.kind = kind, !.pc = pc, !.epoch = revocations,
                 !.calm = TRUE, !.sound = TRUE]

(* current_user: a JWT that was handed out, of a user that is active.  The  *)
(* token_version claim of the JWT is not compared with the user's.          *)
SignedIn == isActive /\ \E t \in Tokens : Issued(t)

UserUnchanged == UNCHANGED <<isActive, deletedAt, tokenVersion, revocations>>

-----------------------------------------------------------------------------
(* Handlers that issue tokens. *)

(* authenticate_password: the user row is read and the password verified. *)
BeginLogin(r) ==
    /\ Start(r, SignIn("login", "verified"))
    /\ UserUnchanged
    /\ UNCHANGED row

(* authenticate_password: commit of the lockout columns, refresh, and the   *)
(* is_active check on the refreshed row.                                    *)
LoginCommit(r) ==
    /\ At(r, {"login"}, "verified")
    /\ Become(r, IF isActive THEN [req[r] EXCEPT !.pc = "issue"] ELSE Idle)
    /\ UserUnchanged
    /\ UNCHANGED row

(* consume_magic_link_token, consume_otp_code: token and user are read. *)
BeginMagic(r) ==
    /\ isActive
    /\ ~deletedAt
    /\ Start(r, SignIn("magic", "consume"))
    /\ UserUnchanged
    /\ UNCHANGED row

(* ... used_at is committed and the user refreshed; no further check. *)
MagicCommit(r) ==
    /\ At(r, {"magic"}, "consume")
    /\ Become(r, [req[r] EXCEPT !.pc = "insert", !.ver = tokenVersion])
    /\ UserUnchanged
    /\ UNCHANGED row

(* OAuth callback: the linked user is read; is_active is not looked at. *)
BeginOAuth(r) ==
    /\ Start(r, [SignIn("oauth", "insert") EXCEPT !.ver = tokenVersion])
    /\ UserUnchanged
    /\ UNCHANGED row

(* switch_org: current_user decodes the JWT and reads the user; the same    *)
(* loaded user goes to issue_tokens.  The JWT's token_version is not read.  *)
BeginSwitch(r, t) ==
    /\ SignedIn
    /\ Issued(t)
    /\ Start(r, [SignIn("switch", "insert") EXCEPT
                   !.ver = tokenVersion, !.epoch = row[t].epoch,
                   !.sound = FALSE])
    /\ UserUnchanged
    /\ UNCHANGED row

(* rotate_refresh: the presented row is read and is not revoked. *)
BeginRotate(r, t) ==
    /\ Live(t)
    /\ Start(r, [SignIn("rotate", "row_read") EXCEPT
                   !.token = t, !.epoch = row[t].epoch,
                   !.sound = row[t].sound])
    /\ UserUnchanged
    /\ UNCHANGED row

(* Mutant of RotateCheck: the user is loaded, is_active is not looked at. *)
RotateCheckTrusting(r) ==
    /\ At(r, {"rotate"}, "row_read")
    /\ Become(r, [req[r] EXCEPT !.pc = "consume"])
    /\ UserUnchanged
    /\ UNCHANGED row

(* ... the user is read; inactive users are refused. *)
RotateCheck(r) ==
    /\ At(r, {"rotate"}, "row_read")
    /\ Become(r, IF isActive THEN [req[r] EXCEPT !.pc = "consume"] ELSE Idle)
    /\ UserUnchanged
    /\ UNCHANGED row

(* Mutants of RotateConsume: the presented row stays live; the presented    *)
(* row is deleted.                                                          *)
RotateConsumeKeeping(r) ==
    /\ At(r, {"rotate"}, "consume")
    /\ Become(r, [req[r] EXCEPT !.pc = "issue"])
    /\ UserUnchanged
    /\ UNCHANGED row

RotateConsumeDeleting(r) ==
    /\ At(r, {"rotate"}, "consume")
    /\ row' = [row EXCEPT ![req[r].token].status = "deleted"]
    /\ Become(r, [req[r] EXCEPT !.pc = "issue"])
    /\ UserUnchanged

(* ... the presented row is committed as revoked. *)
RotateConsume(r) ==
    /\ At(r, {"rotate"}, "consume")
    /\ row' = [row EXCEPT ![req[r].token].status = "revoked"]
    /\ Become(r, [req[r] EXCEPT !.pc = "issue"])
    /\ UserUnchanged

(* issue_tokens after a commit: the expired user is read again, and its     *)
(* token_version goes into the access token.                                *)
IssueRead(r) ==
    /\ At(r, {"login", "rotate"}, "issue")
    /\ Become(r, [req[r] EXCEPT !.pc = "insert", !.ver = tokenVersion])
    /\ UserUnchanged
    /\ UNCHANGED row

(* issue_tokens: the new refresh token is committed, both are returned. *)
IssueCommit(r, t) ==
    LET q == req[r] IN
    /\ At(r, Issuing, "insert")
    /\ ~Issued(t)
    /\ row' = [row EXCEPT ![t] =
                 [status |-> "live", ver |-> q.ver,
                  oauth |-> q.kind = "oauth", parent |-> q.token,
                  epoch |-> q.epoch, calm |-> q.calm, sound |-> q.sound]]
    /\ Finish(r)
    /\ UserUnchanged

-----------------------------------------------------------------------------
(* Handlers that revoke one session. *)

BeginRevokeOne(r, t) ==
    /\ Issued(t)
    /\ Start(r, [Idle EXCEPT !.kind = "revoke_one", !.pc = "mark", !.token = t])
    /\ UserUnchanged
    /\ UNCHANGED row

(* revoke_refresh: the row of the presented token is read, revoked or not. *)
BeginLogout(r, t) == BeginRevokeOne(r, t)

(* revoke_my_session: the same, of a user that current_user has let in. *)
BeginRevokeSession(r, t) == SignedIn /\ BeginRevokeOne(r, t)

MarkRevoked(r) ==
    /\ At(r, {"revoke_one"}, "mark")
    /\ row' = [row EXCEPT ![req[r].token].status = "revoked"]
    /\ Finish(r)
    /\ UserUnchanged

-----------------------------------------------------------------------------
(* Handlers that act on the whole account. *)

(* The user row is read, and with it token_version and the columns that     *)
(* set_user_active compares with.                                           *)
BeginAccountWide(r, kind, pc) ==
    /\ r \in Revokers
    /\ \/ tokenVersion < MaxVersion
       \/ kind = "activate" /\ ~isActive /\ tokenVersion = MaxVersion
    /\ Start(r, [Idle EXCEPT !.kind = kind, !.pc = pc, !.ver = tokenVersion,
                            !.wasActive = isActive, !.wasDeleted = deletedAt])
    /\ UserUnchanged
    /\ UNCHANGED row

(* set_user_active, by a platform administrator. *)
BeginSuspend(r) == BeginAccountWide(r, "suspend", "load")
BeginActivate(r) == BeginAccountWide(r, "activate", "commit")

(* reset_password, once its token is consumed: of any account. *)
BeginReset(r) == BeginAccountWide(r, "revoke_all", "load")

(* change_my_password and revoke_all_my_sessions: behind current_user. *)
BeginRevokeAll(r) == SignedIn /\ BeginAccountWide(r, "revoke_all", "load")

(* The refresh_tokens rows to revoke are loaded. *)
LoadRows(r) ==
    /\ At(r, AllRowsRevoking, "load")
    /\ Become(r, [req[r] EXCEPT !.pc = "commit",
                               !.seen = {t \in Tokens : Live(t)}])
    /\ UserUnchanged
    /\ UNCHANGED row

(* set_user_active: a column is written only if its value differs from the  *)
(* one loaded; deleted_at is a fresh timestamp, so it always differs.       *)
SetActiveColumns(q) ==
    /\ isActive' = CASE q.kind = "suspend" /\ q.wasActive    -> FALSE
                     [] q.kind = "activate" /\ ~q.wasActive  -> TRUE
                     [] OTHER                                -> isActive
    /\ deletedAt' = CASE q.kind = "suspend"                   -> TRUE
                      [] q.kind = "activate" /\ q.wasDeleted -> FALSE
                      [] OTHER                               -> deletedAt

(* Mutants of AccountWideCommit: the rows loaded are not marked; the        *)
(* version is not raised.                                                   *)
AccountWideVersionOnly(r) ==
    LET q == req[r] IN
    /\ At(r, AccountWide, "commit")
    /\ SetActiveColumns(q)
    /\ tokenVersion' = q.ver + 1
    /\ revocations' = IF q.kind \in AllRowsRevoking
                      THEN revocations + 1 ELSE revocations
    /\ Finish(r)
    /\ UNCHANGED row

AccountWideRowsOnly(r) ==
    LET q == req[r] IN
    /\ At(r, AccountWide, "commit")
    /\ SetActiveColumns(q)
    /\ row' = [t \in Tokens |->
                 IF t \in q.seen THEN [row[t] EXCEPT !.status = "revoked"]
                                 ELSE row[t]]
    /\ revocations' = IF q.kind \in AllRowsRevoking
                      THEN revocations + 1 ELSE revocations
    /\ Finish(r)
    /\ UNCHANGED tokenVersion

(* token_version is written as the loaded value plus one, and every loaded  *)
(* row as revoked, in one transaction.                                      *)
AccountWideCommit(r) ==
    LET q == req[r] IN
    /\ At(r, AccountWide, "commit")
    /\ SetActiveColumns(q)
    /\ tokenVersion' = q.ver + 1
    /\ row' = [t \in Tokens |->
                 IF t \in q.seen THEN [row[t] EXCEPT !.status = "revoked"]
                                 ELSE row[t]]
    /\ revocations' = IF q.kind \in AllRowsRevoking
                      THEN revocations + 1 ELSE revocations
    /\ Finish(r)

-----------------------------------------------------------------------------

(* The worker dies, or the request fails, between two commits. *)
Crash(r) ==
    /\ req[r] # Idle
    /\ Finish(r)
    /\ UserUnchanged
    /\ UNCHANGED row

Step(r) ==
    \/ BeginLogin(r) \/ LoginCommit(r)
    \/ BeginMagic(r) \/ MagicCommit(r)
    \/ BeginOAuth(r)
    \/ \E t \in Tokens : BeginSwitch(r, t) \/ BeginRotate(r, t)
    \/ RotateCheck(r) \/ RotateConsume(r)
    \/ IssueRead(r)
    \/ \E t \in Tokens : IssueCommit(r, t)
    \/ \E t \in Tokens : BeginLogout(r, t) \/ BeginRevokeSession(r, t)
    \/ MarkRevoked(r)
    \/ BeginSuspend(r) \/ BeginActivate(r) \/ BeginReset(r) \/ BeginRevokeAll(r)
    \/ LoadRows(r) \/ AccountWideCommit(r)
    \/ Crash(r)

Next == \E r \in Requests : Step(r)

Spec == Init /\ [][Next]_vars

-----------------------------------------------------------------------------
(* Properties. *)

(* POST /introspect: the services are told that the JWT is active. *)
Introspects(t) ==
    Issued(t) /\ isActive /\ ~deletedAt /\ row[t].ver = tokenVersion

(* Suspension is a fence: while the account is suspended, the only live     *)
(* refresh tokens are those of OAuth callbacks (which never look at         *)
(* is_active) and of requests that overlapped a revocation.  Everything     *)
(* issued before it is revoked, and nothing that starts after it is issued. *)
SuspensionFence ==
    \A t \in Tokens :
        Live(t) /\ row[t].calm /\ ~row[t].oauth => isActive

(* A revocation of the account (suspension, password reset or change, "log  *)
(* out everywhere") ends every session that goes back to before it, unless  *)
(* some request of that session's chain overlapped a revocation or was a    *)
(* switch of organisation.                                                  *)
RevocationFence ==
    \A t \in Tokens :
        Live(t) /\ row[t].sound => row[t].epoch = revocations

(* A refresh token exchanged by a rotation that overlapped no other use of  *)
(* it is spent for good: it is dead, and no rotation that read it alive is  *)
(* still on its way to a second successor.                                  *)
ExchangedTokenIsSpent ==
    \A t \in Tokens :
        Issued(t) /\ row[t].calm /\ row[t].parent # NoToken
          => /\ ~Live(row[t].parent)
             /\ \A r \in Requests :
                    ~(req[r].kind = "rotate" /\ req[r].token = row[t].parent)

(* What follows from it: the rotation of such a token is the only one, no   *)
(* second row ever descends from the token.                                 *)
SerialRotationIsSingleUse ==
    \A t, u \in Tokens :
        /\ Issued(t) /\ Issued(u) /\ t # u
        /\ row[t].parent # NoToken /\ row[t].parent = row[u].parent
        => ~row[t].calm

(* Introspection is a fence too: an access token whose chain is sound is    *)
(* reported inactive as soon as a revocation has committed.  That holds     *)
(* although revocations at the same time may lose one of their increments   *)
(* of token_version, and so may bring it back to an earlier value.          *)
IntrospectionFence ==
    \A t \in Tokens :
        Introspects(t) /\ row[t].sound => row[t].epoch = revocations

-----------------------------------------------------------------------------
(* The strengthening that makes the two fences inductive. *)

(* Requests that issue tokens and are past their last look at is_active. *)
Checked(q) ==
    \/ q.kind \in {"magic", "switch"}
    \/ q.kind = "login" /\ q.pc \in {"issue", "insert"}
    \/ q.kind = "rotate" /\ q.pc \in {"consume", "issue", "insert"}

(* A calm request that issues tokens runs beside no account-wide one. *)
CalmIsAlone ==
    \A r, p \in Requests :
        req[r].kind \in Issuing /\ req[r].calm => req[p].kind \notin AccountWide

SoundIsCalm ==
    /\ \A r \in Requests : req[r].sound => req[r].calm
    /\ \A t \in Tokens : row[t].sound => row[t].calm

CheckedIsActive ==
    \A r \in Requests : req[r].calm /\ Checked(req[r]) => isActive

SoundIsCurrent ==
    \A r \in Requests :
        req[r].kind \in Issuing /\ req[r].sound => req[r].epoch = revocations

(* A revocation about to commit has loaded every live row it must reach. *)
LoadedCoversCalm ==
    \A r \in Requests, t \in Tokens :
        At(r, AllRowsRevoking, "commit") /\ Live(t) /\ row[t].calm
            => t \in req[r].seen

FenceInv ==
    /\ CalmIsAlone /\ SoundIsCalm /\ CheckedIsActive /\ SoundIsCurrent
    /\ LoadedCoversCalm /\ SuspensionFence /\ RevocationFence

(* ... the one for introspection *)

(* Whoever is to raise the version has loaded no lower one than that of a   *)
(* sound token.                                                             *)
SoundIsLoaded ==
    \A t \in Tokens :
        Issued(t) /\ row[t].sound =>
          /\ row[t].ver <= tokenVersion
          /\ \A r \in Requests :
                req[r].kind \in AccountWide => row[t].ver <= req[r].ver

SoundCarriesCurrent ==
    \A r \in Requests :
        At(r, Issuing, "insert") /\ req[r].sound => req[r].ver = tokenVersion

PastIsOutdated ==
    \A t \in Tokens :
        Issued(t) /\ row[t].sound /\ row[t].epoch # revocations
          => row[t].ver < tokenVersion

VersionInv == SoundIsLoaded /\ SoundCarriesCurrent /\ PastIsOutdated

(* ... and the one for the exchange of refresh tokens. *)

RotationOf(r, t) == req[r].kind = "rotate" /\ req[r].token = t

OnlyRotationsExchange ==
    \A r \in Requests :
        req[r].kind \in Issuing \ {"rotate"} => req[r].token = NoToken

HeldTokensAreIssued ==
    \A r \in Requests :
        /\ req[r].kind \in {"rotate", "revoke_one"}
             => req[r].token \in Tokens /\ Issued(req[r].token)
        /\ \A t \in req[r].seen : Issued(t)

ConsumedIsRevoked ==
    /\ \A r \in Requests :
         At(r, {"rotate"}, "issue") \/ At(r, {"rotate"}, "insert")
           => row[req[r].token].status = "revoked"
    /\ \A t \in Tokens :
         Issued(t) /\ row[t].parent # NoToken
           => row[row[t].parent].status = "revoked"

CalmRotationIsAlone ==
    \A r \in Requests :
        req[r].kind = "rotate" /\ req[r].calm
          => /\ \A p \in Requests : RotationOf(p, req[r].token) => p = r
             /\ \A t \in Tokens : Issued(t) => row[t].parent # req[r].token

ExchangeInv ==
    /\ OnlyRotationsExchange /\ HeldTokensAreIssued /\ ConsumedIsRevoked
    /\ CalmRotationIsAlone
    /\ ExchangedTokenIsSpent /\ SerialRotationIsSingleUse

-----------------------------------------------------------------------------
(* What the documents say without those provisos. *)

(* user_onboarding.md: "automatically revokes all active refresh tokens and *)
(* sessions"; of chains in which no request overlapped a revocation.        *)
ResetEndsEverySession ==
    \A t \in Tokens : Live(t) /\ row[t].calm => row[t].epoch = revocations
=============================================================================
